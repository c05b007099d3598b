--------------------------- MODULE SyncProperties ---------------------------
(***************************************************************************)
(* What a run of the sync engine must and must not do.                     *)
(***************************************************************************)
EXTENDS SyncEngine

-----------------------------------------------------------------------------
(* The state database against the directory. *)

\* In everything an account shows; groups are compared elsewhere.
Agree(u, v) == u.name = v.name /\ u.attr = v.attr /\ u.disabled = v.disabled

RowIs(g, u) == rows[g] # None /\ Agree(rows[g], u)
RowMatches(g) == RowIs(g, ad[g])

\* No change is lost below the high-water mark: a live user whose last change
\* the mark already covers, so that no incremental search returns it again,
\* is stored as it is in the directory, or its processing was logged as
\* failed or skipped.  Changes made during a run, full runs that lower the
\* mark, tombstones restored meanwhile, failures of any request or write and
\* deaths between any two steps included (incremental.go:35-83, full.go:26-76).
MarkedChangesStored ==
    \A g \in Guids : Live(g) /\ ad[g].usn <= hwm => g \in trouble \/ RowMatches(g)

\* No deletion is lost below the mark either: a deleted user whose tombstone
\* is below it, so that no incremental run finds it again, has lost its row
\* (and with it the account), or its removal failed in a run and waits for a
\* full one.  A tombstone that appears during a run, a deletion the service
\* refused, a failed tombstone search, a row that could be neither read nor
\* removed, and deaths included (full.go:42-60, incremental.go:44-71).
MarkedDeletionsDone ==
    \A g \in Guids : Has(g, "deleted") /\ ad[g].usn <= hwm /\ rows[g] # None => g \in trouble

\* A full run leaves the users table as its search found the directory, users
\* who left the search base without a tombstone included, but for those whose
\* own processing or removal failed: whatever is refused, lost or not written
\* for one user, no other is left out, and the run is not stopped by it
\* (full.go:36-60; the error at :55 is dropped, so the log need not name them).
FullRunStores ==
    AtEnd /\ full /\ ~dry =>
        \A g \in Guids \ trouble :
            IF found[g] # None THEN RowIs(g, found[g]) ELSE rows[g] = None

-----------------------------------------------------------------------------
(* Accounts against the state database and the directory. *)

\* The rows no step of the current run is in the middle of changing.
Settled(g) == rows[g] # None /\ (dry \/ ~(pc \in {"upsert", "forget"} /\ cur = g))

\* A row tells where the identity's account is and what the account holds,
\* and every account has a row: renames onto names in use, refused requests
\* half-way through a user and changes made during the run leave the two
\* tables in step.  (PATCH and PUT are two requests and one row: the flag
\* active is not part of this, see CleanFullRunDisables.)
RowsTrackAccounts ==
    /\ \A g \in Guids : Settled(g) =>
          /\ accounts[rows[g].name] # None
          /\ accounts[rows[g].name].ext = g
          /\ accounts[rows[g].name].attr = rows[g].attr
    /\ \A n \in Names : accounts[n] # None =>
          LET g == accounts[n].ext IN
            \/ Settled(g) /\ rows[g].name = n
            \/ ~dry /\ pc = "upsert" /\ cur = g /\ found[g].name = n

\* What a full run leaves on the service: nobody's account but those of the
\* users it found, under their names with their attributes.
Mirrors(users) ==
    /\ \A g \in Guids : users[g] # None =>
          /\ accounts[users[g].name] # None
          /\ accounts[users[g].name].ext = g
          /\ accounts[users[g].name].attr = users[g].attr
    /\ \A n \in Names : accounts[n] # None => users[accounts[n].ext] # None

\* A full run that reported no error and no skipped user made the accounts
\* those of the users its search found (full.go:36-60).
CleanFullRunMirrors ==
    AtEnd /\ full /\ ~dry /\ clean => Mirrors(found)

\* The same for the active flag alone: a disabled user can no longer use the
\* account (README.md:19-20, "Disables Locke accounts when users are
\* disabled in AD").
CleanFullRunDisables ==
    AtEnd /\ full /\ ~dry /\ clean =>
        \A n \in Names : accounts[n] # None /\ found[accounts[n].ext] # None =>
            accounts[n].active = ~found[accounts[n].ext].disabled

\* The users table is as the directory is now.
Synced == \A g \in Guids : IF Live(g) THEN RowMatches(g) ELSE rows[g] = None

\* The run has read nothing that is no longer so, and has nobody to change.
NothingPending ==
    /\ pc \notin UserSteps
    /\ pc = "deletions" => todo = {}
    /\ \A g \in Guids : found[g] # None => Live(g) /\ Agree(found[g], ad[g])
    /\ full /\ pc # "idle" =>
          \A g \in Guids : Live(g) => found[g] # None \/ (pc = "search" /\ g \in todo)

\* What a search of the whole directory would return now.
LiveUsers == [g \in Guids |-> IF Live(g) THEN UserOf(g) ELSE None]

\* The accounts of an identity, wherever they are.
HeldBy(accts, g) ==
    {[name |-> n, attr |-> accts[n].attr, active |-> accts[n].active] :
        n \in {m \in Names : accts[m] # None /\ accts[m].ext = g}}

\* The identities the current run has found to be missing: those a full search
\* is past and has not returned, or whose tombstones are still to be handled.
FoundMissing ==
    IF full THEN {g \in Guids : found[g] = None /\ ~(pc = "search" /\ g \in todo)}
    ELSE IF pc \in {"deletions", "forget"} THEN todo ELSE {}

Mirror == INSTANCE DirectoryMirror WITH
    dir <- LiveUsers,
    seen <- found,
    gone <- FoundMissing,
    registry <- [g \in Guids |-> HeldBy(accounts, g)]

\* Runs do to the accounts what DirectoryMirror allows: although requests are
\* addressed by the usernames the rows remember, which the directory may have
\* given to others by now, every request changes the account of the identity
\* it is meant for, and of no other, to what the search said of it; nobody
\* gets a second account, and no account is lost but that of an identity the
\* run found missing (engine.go:90-173, full.go:50, incremental.go:61).
MirrorsDirectory == Mirror!Spec

\* A directory that has been synced once is synced: until an administrator
\* changes a user, runs of both kinds, one after the other, send no request
\* about an account and change no row, whatever fails, is lost or dies on the
\* way (engine.go:77-173, full.go:42-60, incremental.go:44-71).
SyncedStays ==
    [][Synced /\ NothingPending /\ UNCHANGED ad =>
          /\ Synced' /\ NothingPending'
          /\ \A g \in Guids : HeldBy(accounts', g) = HeldBy(accounts, g)]_vars

-----------------------------------------------------------------------------
(* Vaults. *)

\* An account that stays enters a vault only while the row of the identity
\* that holds it lists a group with the vault's stored name, and leaves one
\* only while that row lists none: the usernames and DNs a groups row
\* remembers decide whether a request is sent, never whom it is right for
\* (groups.go:100-129).
MembershipFollowsRows ==
    [][\A n \in Names, gr \in Groups :
          LET g == accounts[n].ext
              before == gr \in accounts[n].vaults
              after == gr \in accounts'[n].vaults
          IN  accounts[n] # None /\ accounts'[n] # None
                  /\ accounts'[n].ext = g /\ before # after =>
                /\ rows[g] # None /\ groupRows[gr] # None
                /\ after = (groupRows[gr].cn \in rows[g].memberOf)]_vars

\* A username enters the members a groups row remembers only while the account
\* of the row that holds it is in the vault: the additions come before the
\* write, so a lost answer leaves no name behind, nor do a death between them,
\* a failed write and a row taken for new (groups.go:114-149), with which
\* RememberedCorrect proves it.  A refused addition does (groups.go:115-118).
RememberedWhenAdded ==
    [][\A g \in Guids, gr \in Groups :
          /\ rows'[g] # None /\ groupRows'[gr] # None
          /\ rows'[g].name \in groupRows'[gr].members
          /\ groupRows[gr] # None => rows'[g].name \notin groupRows[gr].members
          => /\ accounts'[rows'[g].name] # None
             /\ accounts'[rows'[g].name].ext = g
             /\ gr \in accounts'[rows'[g].name].vaults]_vars

\* A username remembered as a member, held by a row that lists the group, is
\* in the vault: it is exactly the pair no later run sends a request for
\* (groups.go:110-112), so a name remembered wrongly is never added.  It stays
\* so whatever answers are lost, as long as usernames stay with their holders
\* and a run that removed a member lives to write it down (groups.go:122-149).
RememberedMembersAreIn ==
    \A g \in Guids, gr \in Groups :
        /\ Settled(g) /\ groupRows[gr] # None
        /\ groupRows[gr].cn \in rows[g].memberOf
        /\ rows[g].name \in groupRows[gr].members
        => /\ accounts[rows[g].name] # None
           /\ accounts[rows[g].name].ext = g
           /\ gr \in accounts[rows[g].name].vaults

\* At the end of a full run with no error counted, the vaults hold the users
\* the directory's groups held when the run searched it (README.md:22, "Syncs
\* group membership to Locke vaults").
CleanFullRunSyncsMembership ==
    AtEnd /\ full /\ ~dry /\ clean =>
        \A g \in Guids, gr \in Groups :
            found[g] # None /\ gfound[gr] # None =>
                (gr \in accounts[found[g].name].vaults <=> gfound[gr].cn \in found[g].memberOf)

\* A full run with no error leaves a vault for every group it found whose name
\* group_include gives and group_exclude does not (README.md:272, "Whitelist
\* of group names to sync"; Install-LockeConnector.ps1:266 writes one).
IncludedGroupsHaveVaults ==
    AtEnd /\ full /\ ~dry /\ clean =>
        \A gr \in Groups :
            gfound[gr] # None /\ gfound[gr].cn \in Include \ Exclude => gr \in vaults

\* A dry run sends nothing to the service (cmd/sync.go:26, "without making SCIM
\* calls") and leaves the tables and the mark of the state database as they
\* are.  It is not silent: last_error tells that its search failed
\* (full.go:18, incremental.go:29), and an error that is there stays when its
\* own run goes well (full.go:78, incremental.go:85).
DryRunTouchesNothing ==
    [][dry => /\ UNCHANGED <<apiVars, rows, groupRows, hwm>>
              /\ UNCHANGED lastError \/ (pc = "search" /\ lastError' = "search")]_vars

-----------------------------------------------------------------------------
(* What must happen in the end: MaxUsn and MaxFaults make administrators'    *)
(* changes and faults cease.                                                 *)

\* Once the directory and the network stay as they are, full runs make the
\* accounts those of the directory's users, and they stay so.
EventuallyMirrored == <>[]Mirrors(LiveUsers)
=============================================================================
