# Verification of the Locke directory connector

The connector reads users and groups from Active Directory over LDAP, keeps what it has
synced in a SQLite file, and makes the accounts and vaults of the Locke service follow, over
SCIM. It also relays logins: the service asks over an event stream whether a password is
right, the connector tries a bind and posts the result.

This directory holds TLA+ models of that program, TLC configurations that check them on small
instances, and proofs, checked by TLAPS, of the theorems that hold for every instance.
`PROJECT.json` lists components, runs, hazards, findings and theorems, and ties every
definition to the lines it stands for.

```
tlc -workers 2 -config MCSyncStore.cfg MCSync.tla      # a run: <cfg> <module>
tlapm SyncEngineProofs.tla                             # a proof module
```

## 1. The system

| part | state | operations | talks to |
|---|---|---|---|
| sync engine (`internal/sync`) | locals of a run: the entries found, what is left to do, `maxUSN`, counters | `FullSync`, `IncrementalSync`, `processUser`, `SyncGroups`, `SyncMembership` | LDAP client, SCIM client, state database |
| state database (`internal/state`) | tables `users`, `groups`, `sync_state` (high-water mark, times, last error) | get, upsert, delete, set | used by the engine and by `status` |
| SCIM client (`internal/scim`) | the rate limiter's time stamps | one function per request, all through `doRequest` and its retry loop | Locke service |
| LDAP client (`internal/ldap`) | one connection | paged searches, tombstone search, extraction of entries | domain controller |
| authentication relay (`internal/relay`) | `lastEventID`, backoff, one goroutine per challenge | `Run`, `connectAndProcess`, `handleEvent`, `HandleChallenge`, `postResult` | Locke service, domain controller |
| daemon (`cmd/run.go`) | tickers, the LDAP client, `reportedSkips` | select loop, `runOnce`, `ensureConnected`, skip reports | starts engine runs and the relay |
| service wrapper (`internal/service`) | the stop channel | `Execute`, `RunAsService`, install | starts and stops the daemon |
| commands, configuration, scripts | none that changes at run time | | |

**Interaction.** The daemon runs one engine run at a time, on two tickers, and the relay in a
goroutine beside it. A run reads the directory with separate searches (users, then tombstones
or groups), and then works through what it found with one request and one database write at
a time. Nothing spans those steps: no transaction, no read of the service, no lock against
administrators. The run's only memory of what the service holds is the `users` row, and the
only memory of where it stopped is the high-water mark (`uSNChanged` of the last change
searched), written when the run ends.

**What is hard.** A death, a refused request, a lost answer or a failed write between any two
steps; changes in the directory while a run works on what it found; renames onto usernames
that are in use, and reuse of usernames; tombstones and restored objects; users who leave the
search base without a tombstone; full runs, which may lower the mark; membership remembered
in a column that holds usernames at one time and DNs at another; retries of requests that were
carried out; streams that break with logins in flight. `PROJECT.json` lists each with its
line ("hazards").

**What makes each part correct.**

* engine and database: no change and no deletion is forgotten below the mark; rows tell where
  accounts are; a clean full run leaves the accounts of the users found, and nobody else's; no
  identity pays for another's change (`DirectoryMirror` says so without rows, names or requests);
  membership follows the rows; a dry run sends nothing and keeps the tables; when the world rests,
  the accounts become the directory's.
* SCIM client: success means carried out, conflict means never carried out, few failures on the way
  are survived, every call returns.
* relay: each challenge is tried once, none is skipped by a reconnection, each answer is the verdict
  on its own challenge, the loop follows the stream until it is cancelled.
* rate limiter: no minute, wherever it starts, sees more than 80 calls begin.
* daemon: runs of both kinds keep starting after any failure; no run starts without a connection and
  none is leaked; a skipped user is mailed about once; the status shown is the last run's, or
  becomes so again; a stop ends everything.

## 2. The modules

```
ConnectorTypes     data: users, rows, groups
ActiveDirectory    the directory, and what its searches return      (external)
LockeApi           accounts and vaults, and faults of requests      (external)
SyncEngine         extends both: the engine and its database
DirectoryMirror    what the connector promises about accounts       (abstract)
SyncProperties     what a run must do, DirectoryMirror among it;   MCSync: instances
SyncEngineProofs   types, the mark, deletions, dry runs, what a full run stores
SyncMirrorProofs   when nothing is lost: rows track accounts, the engine implements
                   DirectoryMirror, a clean full run mirrors what it found; and,
                   whatever is lost: what has been synced stays synced
SyncKeptProofs     when names are kept: the engine implements DirectoryMirror
                   whatever is lost
SyncVaultProofs    membership follows the rows, remembered members are in
ScimCall           what the calls of the SCIM client promise        (abstract)
RateLimiter        Wait;   RateLimiterProofs
ScimRequest        doRequest over the limiter, shown to implement ScimCall;
                   MCScimRequest, ScimRequestProofs
Logins             what the relay promises about logins             (abstract)
AuthRelay          the relay, shown to implement Logins;
                   MCAuthRelay, AuthRelayProofs
Daemon             the process around all of it;   MCDaemon, DaemonProofs
```

### ActiveDirectory and LockeApi

The two services are not in the repository. `ActiveDirectory` has one object per objectGUID
(`live`, `hidden` from the search base, `deleted` with a tombstone) and a counter that stamps
every change. `Search(low)`, `Tombstones(low)`, `UserOf` and `GroupOf` translate
`internal/ldap`: `low = 0` is `SearchUsers`, `low = hwm` is `SearchChangedUsers`, and the
comparison is `>= low + 1`. Mail, first and last name are one attribute, because the code
only ever compares them. A DN is represented by the identity's GUID.

`LockeApi` addresses accounts by username, as every path in `internal/scim/client.go` does. Its
rules are those the client relies on, stated in the module's head: 409 for a username held by
another identity (`types.go:52`), success for the same identity, an error for a path that is
gone or a new name that is taken.

One assumption favours the connector: a change of a user's groups raises the *user's*
`uSNChanged` (a real domain controller stamps the group).

### SyncEngine

| code | model |
|---|---|
| `users`, `groups`, `high_water_mark`, `last_error` | `rows`, `groupRows`, `hwm`, `lastError` |
| which function and loop the run is in | `pc`: `search`, `users`, `create`, `patch`, `put`, `upsert`, `deletions`, `forget`, `groups`, `membership`, `group`, `member` |
| `adUserMap`, the tombstones, the loop variables | `found`, `gfound`, `todo`, `gtodo`, `cur` |
| `maxUSN`; `Errors = 0 && Skipped = 0` | `top`; `clean` |
| the search at the head of both runs | `StartRun`, then `ReadAll` or, with `Paged`, `ReadEntry` and `EndSearch`; `FailSearch` |
| `processUser` | `LookUpUser`, then `CreateUser`, `PatchUserActive`, `UpdateUser`, `UpsertUser` |
| deletions, by absence or by tombstone | `ListDeletions`, `RemoveUser`, `SkipTombstone`, `ForgetUser` |
| `SyncGroups`, `groupIncluded`, `matchDNPattern` | `SearchGroups`, `SyncGroup` (`CreateGroup`, `RenameRow`), `GroupIncluded`, `Matches` |
| `SyncMembership` | `BeginMembership`, `LoadMembership`, `OpenGroup`, `ChangeMember`, `StoreMembers` |
| writing the mark; a death | `FinishRun`; `Crash` |

A step is one search, request or write with the decisions around it, so that everything that
can happen between two of them in the code happens between two steps. The loops take their
elements in any order: `adUserMap` is a Go map, and the order of rows and entries is the
server's. `Request` gives a request its outcomes: carried out with its answer, refused
(`refuse`), or carried out with the answer lost (`lose`), in which case a retry may bring the
second answer. `Written` gives a write its three: skipped in a dry run, done, failed (`store`).
`SetLastError` is done or silently not, in a dry run too when a search fails.
`trouble` is the one history variable: the users whose last processing, or removal, failed or was
skipped (the log names them, unless it was the error of `store.DeleteUser`, which is dropped).

A search of a directory that fits a page (1000 users) is one step. With `Paged` it reads one user
after the other, in any order, and administrators change users already read and users still to be
read in between; `top` is the highest `uSNChanged` among what was read, as in the code.

The filters get the DN of a group: an entry with a star (`CN=x,*`, `GroupForm = "pattern"`) matches
the group with that CN, and a bare name (`"name"`) matches no DN.

Left out: `last_full_sync` and the counters, which are only displayed; `last_sync` (it is in
`Daemon`); two processes on one database; requests that arrive after the client has given up (they
are in `ScimRequest`).

### DirectoryMirror

The abstract specification of the engine knows identities only: `dir` (the directory's users),
`seen` (what the connector has read of each), `gone` (who it found missing) and `registry` (the
accounts each holds). An account is given and brought up to date under a name nobody else has
(`Follow`), enabled and disabled (`Switch`), and retired when its identity was found to be gone
(`Retire`), each from what was read of the same identity. `SyncProperties` maps the engine to it:
`dir` is what a search would return now, `seen` is `found`, `registry` collects the accounts by
`externalId`, and `gone` (`FoundMissing`) is what the run knows to be missing: everyone a full
search is past and did not return, or the tombstones an incremental run has still to handle. Each
step of the engine is a step of it or a stutter. What is hard is that the code names accounts by
the username of a row while administrators hand usernames around.

### ScimCall, RateLimiter and ScimRequest

`ScimRequest` is the calls of `doRequest` that one engine makes one after the other. A call goes
through the limiter (`Wait`, once per call) and then through the loop: ten attempts in one counter,
of which a network error may follow the first four and a 5xx the first three, 429 with any. The
service carries a request out before it fails or answers, or not at all, and a copy given up on
may arrive later. A request that cannot be built (`Unbuilt`) ends the call before it is sent.
`ScimCall` is what the engine counts on: `ok` only after the request was carried
out, `conflict` only for a request that never was, `error` either way. Its three outcomes are those
of `Request` in `SyncEngine`. `ScimRequest` implements it with the variables `kind`, `carried`
and `result` mapped to themselves.

`RateLimiter` is `ratelimit.go`: `now` a clock of integers, `begun` the times at which calls were
let through (history), `kept` the `timestamps` slice as indices into it. `Pass` finds room, `Hold`
sleeps with the mutex released until the oldest time kept is a window old, `Resume` appends without
counting again. The client has one caller, so there is one sleeper at most.

### AuthRelay

The service numbers its events and sends those after `Last-Event-ID`, or from any point to a
client that sends none. The loop of `Run` is `pc` (`connect`, `stream`, `wait`, `stopped`);
`connectAndProcess` reads the lines of an event (`ReadLines`) and acts at its empty line
(`EndEvent`, with `handleEvent` as `Take`); `Disconnect` is every way a stream ends. Each
challenge has a goroutine (`jobs`): `HandleChallenge` gives the directory's verdict or an error,
`PostResult` tells the service or loses it. `binds` and `first` are history.

`Logins` is what the service may rely on, with no stream, numbers or goroutines: a password that was
typed is tried at most once (`Try`), and its login gets at most one answer, which is the verdict on
that password, and is not tried any more afterwards (`Tell`). `ServesLogins` maps `typed` to the
challenges sent, `tries` to `binds` and `told` to `answers`; everything else the relay does is a
stutter.

### Daemon

| code | model |
|---|---|
| `runDaemonLoop`, `runOnce`, `ensureConnected` | `pc`: `check`, `reconnect`, `dial`, `search`, `apply`, `report`, back to `select`; `exited` |
| the channels of the `select` | `due` (one tick per ticker), `signal`, `stop`, `cancelled`: `SelectRun`, `SelectStop`, `SelectDone` |
| `ldapClient`, its connection | `client` (`none`, `open`, `lost`), `sockets`, and `refusals`, the ones a refused StartTLS leaves open |
| `reportedSkips`, the report | `reported`, `batch`; `mails` is what the service was told (history) |
| `last_sync`, `last_error`, what `status` prints | `lastSync`, `lastError`, `Shown`; `succeeded` and `silent` are how the last run ended and whether it could not write that (history) |
| `Execute`, `RunAsService` | `ServiceStop`, `ProcessEnds`: after Stop the process ends wherever the loop is (`gone`) |

A run of the engine is here what the loop sees: a search that may fail and the users skipped; its
inside is `SyncEngine`, where the end of the process is `Crash`. `Succeeded` and `Failed` are what
it leaves for `status`: each of their writes may fail, and the code drops the error. `SelectStop` is
the `cancel()` that `AuthRelay` sees as `Cancel`. The connection is lost at any moment; each dial,
search and report may fail. After `cancel()` another run may start before `ctx.Done()` is taken, as
in Go.

Definitions marked *Slip* in any module are no part of the specification: each is a mistake the
next definition could have made, used to see that a property notices it.

## 3. The runs

| run | configuration | checks | expected |
|---|---|---|---|
| `store` | MCSyncStore | `TypeOK`, `MarkedChangesStored`, `MarkedDeletionsDone`, `FullRunStores`, `SyncedStays` | pass |
| `accounts` | MCSyncAccounts | `RowsTrackAccounts`, `CleanFullRunMirrors`, `MirrorsDirectory` | pass |
| `vaults` | MCSyncVaults | `MembershipFollowsRows`, `DryRunTouchesNothing` | pass |
| `members` | MCSyncMembers | `RememberedMembersAreIn`, `RememberedWhenAdded` | pass |
| `live` | MCSyncLive | `EventuallyMirrored` | pass |
| `daemon` | MCDaemon | `DaemonTypeOK`, `ToldAtMostOnce`, `RunsHaveAClient`, `ConnectionsHeld`, `StatusTellsTheLastRun`, `KeepsSyncing`, `StopsWhenAsked`, `StatusRecovers` | pass |
| `request` | MCScimRequest | `RequestTypeOK`, `OutlastsFailures`, `RateKept`, `ImplementsCall`, `CallReturns` | pass |
| `relay` | MCAuthRelay | `RelayTypeOK`, `BoundAtMostOnce`, `NothingSkipped`, `AnswersTellTheBind`, `ServesLogins`, `EveryChallengeAnswered`, `StopsWhenCancelled` | pass |
| `disabled` | MCSyncDisabled | `CleanFullRunDisables` | violated |
| `swap` | MCSyncSwap | `EventuallyMirrored` | violated |
| `membership` | MCSyncMembership | `CleanFullRunSyncsMembership` | violated |
| `whitelist` | MCSyncWhitelist | `IncludedGroupsHaveVaults` | violated |

What the passing runs show: `store`, that whatever fails and dies, a change or a deletion that the
mark covers was carried out, or failed at that very user; that a full run leaves no other user out;
and that runs over a directory that was synced do nothing to it; `accounts`, that the engine does to
the accounts what `DirectoryMirror` allows although it works from stale rows; `vaults`, that
membership requests are right for whom they are made, and that a dry run makes none and writes no
row; `members`, that a name is remembered as a member only once it is one and then stays one;
`live`, that runs repair what changes, refusals and the pages of a search left behind; `daemon`,
that the process goes on through lost connections until it is stopped, and that its status is the
last run's, or a later run puts it right; `request` and `relay`, what the engine and the service
count on.

**Bounds.** Two identities are enough for every conflict the code can meet, since each request names
one account and one username; three usernames let two identities exchange theirs over a spare one.
`MaxUsn` bounds the administrators' changes: 4 is adding two users and changing each once, with a
run between or around any of them; `accounts` has 5, so that a user can be renamed away, replaced
and disabled; `swap` and `disabled` need 5, as does `members` (two users, two changes of groups and
one that makes the row be written again). `MaxFaults` of 2 puts a fault into the run that repairs
the first one. One group with two CNs covers renames of a group; membership is per group, and no
step relates two groups; `vaults` has three CNs, one of which the exclude list names, and
`whitelist` two groups, one of them included. The relay has three events, so that one is handled
while the stream breaks in the next and a third waits; `MaxBackoff` is 3 because no property depends
on the length of a wait. `request` lets two calls begin in a window of two ticks and makes five
calls in six ticks, so that the limiter holds a call, forgets times and holds another. `daemon` has
three faults: a connection lost, a reconnection that fails and a dial that fails after it; one user
is enough, since no step relates two users' skips. It begins with any status an earlier process
left. Identities, usernames and attributes are symmetric and are reduced so in the runs without
liveness.

**Why some runs lack some faults.** Each run has the faults under which the code keeps the property,
and the hazards say what the others do. Lost answers and failed writes leave rows and accounts apart
by design of the protocol: `accounts` has renames, deletions and neither of the two. A refused
addition to a vault is remembered as done, and a removal from a vault that is not written down, by a
death or a failed write, is remembered as a membership if the user is put back meanwhile (`members`
has none of these; that the additions are safe against deaths and failed writes is proved,
`RememberedCorrect`). An exchange of usernames never converges (`live` stops at 4 changes, with
which no exchange can be made after both users are synced; `swap` shows it with 5). `store` has all
of them, with searches of one page: in a directory of more than 1000 users a user changed between
two pages can be missed by the search while the mark, the highest `uSNChanged` read, goes past the
change, and only the next full run sees it again. `live`
searches page by page and shows that full runs do. A username given to another user between two runs
also leads `RememberedMembersAreIn` astray, so `members` has neither renames nor deletions.

**Fairness.** `WF(Step)`: a run that has started goes on; no step of the engine waits for anything
but a request or a search, and requests return (`CallReturns`). `SF(StartRun(full))` and
`SF(StartRun(incremental))`: the tickers keep a tick while a run is under way, and the daemon's
`select` (`run.go:203-222`) picks at random among the channels that are ready, so neither kind of
run is shut out for ever; `daemon` checks this claim (`KeepsSyncing`) from `WF` of the tickers and
of the steps of a run and `SF` of each choice of the `select`: it is what a random choice among
ready channels gives with probability one. In `request` the loop goes on, an attempt ends at its 30
seconds at the latest, and the clock advances while `Wait` sleeps. Nothing is assumed of
administrators and faults but that they are finitely many. In the relay the goroutines run, the
directory and the service answer or fail (the bind itself has no timeout in the code: a domain
controller that keeps a connection open and never answers is not covered), and the `select` takes a
channel that stays ready in the end.

**Findings.** Four runs expect a violation; each is a disagreement between the code and what the
repository says of it:

* `disabled`: the row is written after PATCH *and* PUT. PATCH done, PUT failed, flag and attributes
  back to the old ones: row and directory agree, the account keeps the wrong flag for ever, and full
  runs report no error (README: "Disables Locke accounts", "Re-enables accounts").
* `swap`: after an exchange of usernames both PUTs are refused in every run, no row changes (README:
  the objectGUID "survives username renames").
* `membership`: `memberOf` is not among the attributes compared, so a change of groups alone is not
  stored and never reaches the vaults (README: "Syncs group membership").
* `whitelist`: `group_include` compares whole DNs, so group names, which README.md:255 and :272 and
  the installation script give it, match nothing: no vault is made and no error is counted.

Met while proving, with no run of their own (each is why a theorem below has a hypothesis; TLC finds the
first two with two users, one username and three changes, the third with one user and five):

* An incremental run that finds tombstones only does not reach the memberships (`incremental.go:74`),
  so a group goes on remembering a deleted user's name; a new user of that name counts as a known
  member and is never added to the vault, without any error (`groups.go:110`).
* The answer to a DELETE is lost, so the row stays; another user is given the name, and the next
  deletion under the row removes the other user's account (`incremental.go:61`, `full.go:50`).
* A member is removed from a vault and the process dies before that is written; the user is put back
  into the group and is not added again (`groups.go:122-149`).

Noted while modelling: the comment at `relay/client.go:117` says the
backoff is reset after a successful connection, and nothing resets it; the wizard's "Use StartTLS?"
sets `ldap.tls`, which means LDAPS (`configure.go:47-50`, `ldap/client.go:56`), and declining it gives
StartTLS; the daemon computes and logs a reconnection backoff that nothing waits for
(`run.go:112-116`); a StartTLS that is refused leaves its connection open (`ldap/client.go:65-73`);
the errors of `SetLastError` are dropped, so `status` may show the outcome of an older run until the
next one; until a first run has succeeded it says "never" and no error (`status.go:42`); a dry run
whose search fails writes `last_error` (`full.go:18`, `incremental.go:29`), and one that goes well
does not take it back.

## 4. The proofs

| theorem | states | for |
|---|---|---|
| `TypeCorrect` | `Spec => [](TypeOK /\ PhaseOK)` | all constants of SyncEngine |
| `MarkCorrect` | `Spec => []MarkedChangesStored` | the same, `~Paged` |
| `DeletionsCorrect` | `Spec => []MarkedDeletionsDone` | the same, `~Paged` |
| `FullRunCorrect` | `Spec => []FullRunStores` | all constants of SyncEngine |
| `SyncedCorrect` | `Spec => SyncedStays` | the same |
| `DryRunCorrect` | `Spec => DryRunTouchesNothing` | the same |
| `RowsTrackCorrect` | `Spec => []RowsTrackAccounts` | the same, `Reliable` |
| `EngineRefinesMirror` | `Spec => MirrorsDirectory` | the same, `Reliable` |
| `CleanRunCorrect` | `Spec => []CleanFullRunMirrors` | the same, `Reliable` |
| `EngineRefinesMirrorKept` | `Spec => MirrorsDirectory` | the same, `NamesKept` |
| `NobodyTwiceCorrect` | `Spec => []NobodyTwice` | the same, `Reliable \/ NamesKept` |
| `MembershipCorrect` | `Spec => MembershipFollowsRows` | the same, `Reliable \/ NamesKept` |
| `RememberedCorrect` | `Spec => RememberedWhenAdded` | the same, `Reliable \/ NamesKept`, nothing refused |
| `RememberedStayIn` | `Spec => []RememberedMembersAreIn` | the same, `NamesKept`, nothing refused, no failed write, no death |
| `RateCorrect`, `RequestsKeepRate` | `LimiterSpec => []RateKept`, `Spec => []RateKept` | any limit and window |
| `RequestRefinesCall` | `Spec => ImplementsCall` | all limits with `ServerRetries <= NetworkRetries < MaxAttempts` |
| `RequestOutlasts`, `RequestTypeCorrect` | `Spec => []OutlastsFailures`, `Spec => []RequestTypeOK` | the same |
| `OneBindPerChallenge` | `Spec => []BoundAtMostOnce` | any numbers of events and faults |
| `ChallengesNotSkipped` | `Spec => []NothingSkipped` | the same |
| `AnswersAreVerdicts` | `Spec => []AnswersTellTheBind` | the same |
| `RelayServesLogins` | `Spec => ServesLogins` | the same |
| `RelayTypeCorrect` | `Spec => []RelayTypeOK` | the same |
| `DaemonTypeCorrect`, `ToldCorrect`, `RunsHaveAClientCorrect`, `ConnectionsCorrect`, `StatusCorrect` | `Spec => []` of the property of `daemon` | any users and faults |

The theorems about the engine have hypotheses on the constants that say which faults and changes
there are, beside the assumptions; the model meets each with everything else at work, and none can
be dropped:

* `~Paged`: every search is one page. Without it the mark may pass a change (see above).
* `Reliable`: no lost answer, no failed write and no death, in any number of renames, deletions,
  reused names, refused requests and failed searches. Without it rows and accounts come apart, and
  a lost answer and a reused name break `MirrorsDirectory`.
* `NamesKept`: administrators rename, delete and hide nobody; they add, edit, disable and regroup
  users and rename groups, and *every* fault may happen. It is the other side of `Reliable`: to
  lose an account to another identity takes a lost answer and a name that changes hands, of which
  `Reliable` excludes the first and `NamesKept` the second. The runs `accounts` and `vaults` meet
  `Reliable`, `members` meets `NamesKept`.
* nothing refused: a refused addition is remembered as done (`groups.go:115-118`).
* no failed write and no death, in `RememberedStayIn` only: a removal that is not written down is a
  membership if the user is put back.

The assumptions are the named `ASSUME`s of the modules (bounds are natural numbers, `None` is
not a value of any table, a DN is no username, the order of the retry limits); TLC evaluates
each of them in the runs.

*Types.* `TypeOK` alone is not inductive: `rows[cur].name` has a type only if `cur` is a user
with a row. `PhaseOK` says what each phase has established (in `create`, `patch`, `put` and
`upsert` the current user was found; in `patch`, `put`, `deletions` and `forget` the users
concerned have rows; in `groups` and `member` the groups do).

*The mark.* `MarkedChangesStored` is about the time between runs; its proof needs what holds
inside them. Call a live user *covered* when its last change is at or below the mark or `top`,
the mark to be; a user an administrator changes again stops being covered, because the counter
is ahead of both (`UsnOK`). `SearchOK`: a covered user that was found is still as it was found,
and one that was not found was left out by an incremental search, its change being at or below
the old mark. `ProcessedOK`: a covered user that was found and that the run is done with has its
row, or is in `trouble`. `RemovalOK`: no covered user is among the rows about to be removed. When
`FinishRun` raises the mark to `top`, these give `MarkedChangesStored` for the new mark; when a
full run lowers it, there is less to show; when the run dies, the mark stays.

*Deletions.* The same with removals: a deleted user was deleted after everything the engine has
found of it (`DeletedSinceOK`), and once a run has listed its deletions every dead user with a row
that the mark or the mark to be covers is on the list or in `trouble` (`RemovedOK`).

*Full runs.* `StoresInv` needs no mark and so no hypothesis on the searches: who was found and is done
with is stored as found (`HandledOK`); once removals are listed, who was not found and has a row is
on the list (`LeftOverOK`); and nobody who was found is (`DoomedMissing`).

*What is synced stays so.* `Synced`: the users table is as the directory is. `NothingPending`: the run
has read nothing that is no longer so and has no user in hand, which is true at the start of every
run. The two together (`AtRest`) are kept by every step but the administrators': a user found equals
the row, so no step of `processUser` is taken (`LookUpUserRest`), and nobody who has a row is missing
from a full search or has a tombstone (`ListDeletionsRest`). Failures only leave steps out, so
this holds with every fault. It is the safety half of `EventuallyMirrored`: that a full run does get
through in the end is the other half, and TLC's.

*Rows and accounts.* `TrackInv` joins the types, `RowsTrackAccounts` and `StageOK`: in `create` the
user has no row, in `put` it has one, in `upsert` the account already is what the row will be, and in
the deletions of a full run nobody left to remove was found. Outside `upsert` and `forget` (`Quiet`)
the property is a plain bijection between rows and accounts (`InStep`, `QuietInStep`), which is
what each action is shown to keep; in the two exceptions one identity is in the middle of a step.

*The refinement.* From `TrackInv` a request to the name in a row reaches the account of the row's
identity and no other, so the accounts of each identity (`HeldBy`) are one or none and change as
`Follow`, `Switch` or `Retire` change them (`FollowMaps`, `PatchUserActiveMaps`, `RemoveUserMaps`);
searches and the end of a run map to `Read`, administrators to `Change`, database writes and
membership requests to stutters. `NobodyTwice` is then a fact about `DirectoryMirror` alone: its steps
leave every identity with one account at most (`MirrorKeepsOne`).

*A clean full run.* `CleanFullRunMirrors` speaks of the last step of a run; `CleanInv` says what a run
without errors has done so far. `FoundStored`: a user that was found and that the run is done with
has its row (`Pending` are the others). `NotFoundListed`: from `deletions` on, a row of a user that was
not found is on the list of removals, and after them there is none. With `TrackInv`, rows that match
what was found are accounts that do (`Mirrors`).

*Names kept.* With lost answers a row no longer tells where an account is, so `TrackInv` is of no use.
`KeptInv` puts the directory in its place: everybody in it is there to stay under a name of his own
(`HoldersOK`), rows, entries found and accounts are all under the names of their holders (`NamesOK`),
every row has an account, though not the reverse (`RowsHaveAccounts`), and nothing is ever listed for
removal (`NobodyLeaves`): a full search finds everyone who has a row, which needs that numbers start
at 1, and there are no tombstones. A POST repeated after a lost answer then finds the account of
the same identity, and is `Follow` or a stutter of the mirror.

*The vaults.* In the membership loop the account named in a row is the row's identity's (`RowsOwn`, from
`TrackInv` or from `KeptInv`), so a request is right for the one it reaches. `AddedOK`: users that the
loop is done with and who belong to the group are remembered already or in its vault; the write that
follows therefore adds no name that is not in. For `RememberedStayIn`, `MembersOK` says that a name that
is remembered is in the vault or is leaving it in this very loop (`Leaving`), which ends with the
write; that is what a death, a failed write or a new holder of the name would break.

*The limiter.* `LimiterInv`: times do not go back, what is kept is an end of the sequence of calls
that has all of the last window, and it has at most `Max` elements. A call therefore begins only when
the one `Max` before it has been forgotten, and what is forgotten is a window old. In `Resume` the
count is not looked at again: the sleep has outlasted the oldest, so pruning made room.

*The relay.* `RelayInv` adds to the properties that an event being read is the last one read and
comes after `lastEventID` (`OrderOK`), that a goroutine exists only for events at or before it
(`JobsOK`), and that no challenge read from the open stream was left out (`ReadOK`). With `BindsOK` (a
bind, and later a post, is made by the event's own goroutine, once) each step of a goroutine is
`Try` or `Tell` of its own login or a stutter, and an event sent is `LogIn` or a stutter.

*The daemon.* `DaemonInv`: each place of the loop knows its client (`reconnect` has one, `dial` has
none), what is not in `reportedSkips` was never sent, nor was what is being sent, and a report
follows a run that succeeded. Between runs, unless the last one was `silent`, it succeeded exactly if
`last_sync` is set and `last_error` is empty.

Only model-checked: the liveness properties (`EventuallyMirrored`, `KeepsSyncing`, `StopsWhenAsked`,
`StatusRecovers`, `CallReturns`, `EveryChallengeAnswered`, `StopsWhenCancelled`), which the provers
cannot treat under fairness. Every invariant and action property of the passing runs is the subject
of a theorem.

## 5. What is not modelled

Two engines on one database (the daemon and a manual `sync`): a write that fails for the other's
lock is the fault `store`, a row the other engine changed is not there. Configuration, its wizard,
the service installers and the PowerShell scripts keep no state that changes while the connector
runs; a daemon that fails to start (bad configuration, database that cannot be opened) is before
`Daemon`'s initial state. TLS, the encoding of GUIDs, the text of filters, the lengths of waits and
the size of events are abstracted; a domain controller that keeps a connection open and never
answers is assumed away (fairness). `ListGroups`, `GetHighestUSN` and `DeleteGroup` are not called by
the program.

## 6. Plan

Done: the engine with its database and filters, its abstract specification with the refinement
proved under both hypotheses, a theorem for every safety property of the runs, the limiter and the
request loop with its abstract call, the relay with its abstract logins, the daemon with the Windows
wrapper.

What is left:

1. An abstract vault specification that counts members left behind by a refused request, a removal
   that was not written down or a renamed group, and the engine shown to implement it.
2. Two engines on one database.
