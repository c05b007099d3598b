----------------------------- MODULE SyncEngine -----------------------------
(***************************************************************************)
(* One connector process reconciling Active Directory with Locke:          *)
(* FullSync, IncrementalSync, processUser, SyncGroups and SyncMembership   *)
(* of internal/sync over the state database of internal/state and the      *)
(* requests of internal/scim.                                              *)
(*                                                                         *)
(* A step is one search, one request or one database write with the        *)
(* decisions around it, so administrators' changes, a refused or lost      *)
(* request and the death of the process fall between any two of them.  A   *)
(* user search of one page is one step; with Paged it reads one user after *)
(* the other, and the directory changes between the pages.                 *)
(*                                                                         *)
(* Definitions marked "Slip:" are no part of the specification: each is a  *)
(* mistake its neighbour could have made, kept so that the properties can  *)
(* be seen to notice it.                                                   *)
(***************************************************************************)
EXTENDS ActiveDirectory, LockeApi

CONSTANTS
    RunKinds,   \* the runs that are started: TRUE full, FALSE incremental
    DryRuns,    \* the values --dry-run takes
    Paged,      \* there are more users than one page holds (client.go:158)
    Include,    \* the CNs that group_include gives, and group_exclude
    Exclude,
    GroupForm   \* how both write a group: "pattern" (CN=x,*) or "name" (x)

ASSUME RunsAssumption ==
    /\ RunKinds \subseteq BOOLEAN /\ DryRuns \subseteq BOOLEAN /\ Paged \in BOOLEAN
    /\ Include \subseteq CNs /\ Exclude \subseteq CNs /\ GroupForm \in {"pattern", "name"}

VARIABLES
    rows,       \* the users table, by objectGUID
    groupRows,  \* the groups table, by objectGUID
    hwm,        \* high_water_mark of sync_state
    lastError,  \* last_error of sync_state: "none", or a "search" that failed
    pc,         \* the step the run is at, "idle" between runs
    full, dry,  \* which run this is; --dry-run
    found,      \* the user search's entries (adUserMap)
    todo,       \* users the current loop has left
    cur,        \* the user, or the group, the current step is about
    top,        \* maxUSN
    gfound,     \* the group search's entries
    gtodo,      \* groups the current loop has left
    clean,      \* Result.Errors = 0 and Result.Skipped = 0
    trouble     \* history: users for whom the last processing, or removal, failed

store == <<rows, groupRows, hwm, lastError>>
run == <<full, dry, found, top>>
loops == <<todo, cur, gfound, gtodo, clean, trouble>>
vars == <<adVars, apiVars, faults, store, pc, run, loops>>

UserSteps == {"create", "patch", "put", "upsert", "forget"}
Steps == UserSteps \cup
    {"idle", "search", "users", "deletions", "groups", "membership", "group", "member"}

TypeOK ==
    /\ AdTypeOK /\ ApiTypeOK
    /\ rows \in [Guids -> UserData \cup {None}]
    /\ groupRows \in [Groups -> GroupRow \cup {None}]
    /\ hwm \in Nat /\ top \in Nat
    /\ lastError \in {"none", "search"}
    /\ pc \in Steps
    /\ full \in BOOLEAN /\ dry \in BOOLEAN /\ clean \in BOOLEAN
    /\ found \in [Guids -> UserData \cup {None}]
    /\ gfound \in [Groups -> GroupData \cup {None}]
    /\ todo \subseteq Guids /\ trouble \subseteq Guids
    /\ gtodo \subseteq Groups
    /\ cur \in Guids \cup Groups \cup {None}

Init ==
    /\ AdInit /\ ApiInit
    /\ rows = [g \in Guids |-> None]
    /\ groupRows = [gr \in Groups |-> None]
    /\ hwm = 0 /\ lastError = "none"
    /\ pc = "idle"
    /\ full = FALSE /\ dry = FALSE /\ clean = TRUE
    /\ found = [g \in Guids |-> None] /\ gfound = [gr \in Groups |-> None]
    /\ todo = {} /\ gtodo = {} /\ cur = None /\ top = 0
    /\ trouble = {}

-----------------------------------------------------------------------------
(* A request of the client: first is what the service answers it, again    *)
(* what it answers when it is sent once more.  "refuse": an answer of 4xx, *)
(* or 5xx, 429 or no connection until the retries run out, nothing done.   *)
(* "lose": the service did it, the answer was lost, and either every retry *)
(* was lost too or one of them got the second answer.                      *)

Request(first, again, status) ==
    \/ /\ dry
       /\ status = "ok"
       /\ UNCHANGED <<accounts, faults>>
    \/ /\ ~dry
       /\ status = first.status
       /\ accounts' = first.accounts
       /\ UNCHANGED faults
    \/ /\ ~dry
       /\ Fault("refuse")
       /\ status = "error"
       /\ UNCHANGED accounts
    \/ /\ ~dry
       /\ Fault("lose")
       /\ status \in {"error", again.status}
       /\ accounts' = first.accounts

\* Slip: no dry-run guard.
WrittenAlways(done, undone) == done /\ UNCHANGED faults

\* A database write: skipped in a dry run, done, or failed with nothing done.
Written(done, undone) ==
    \/ dry /\ undone /\ UNCHANGED faults
    \/ ~dry /\ done /\ UNCHANGED faults
    \/ ~dry /\ undone /\ Fault("store")

\* store.SetLastError: dry run or not, and its error is dropped.  Nothing in the
\* engine reads last_error, so a write that fails is not counted as a fault.
SetLastError(text) == lastError' \in {lastError, text}

-----------------------------------------------------------------------------
(* The user search, and processUser for each entry, in any order.          *)

\* All users at one moment: the search of a directory of one page.
SearchAtOnce(low) ==
    LET seen == Search(low)
    IN  /\ found' = [g \in Guids |-> IF g \in seen THEN UserOf(g) ELSE None]
        /\ todo' = seen
        /\ top' \in {low} \cup {ad[g].usn : g \in seen}
        /\ \A g \in seen : ad[g].usn <= top'
        /\ pc' = "users"

\* FullSync asks for all users, and so does IncrementalSync without a mark (a
\* mark that cannot be read is an error before anything is done).
StartRun(asked) ==
    /\ pc = "idle"
    /\ pc' = "search"
    /\ full' = (asked \/ hwm = 0)
    /\ dry' \in DryRuns
    /\ todo' = Guids
    /\ top' = IF full' THEN 0 ELSE hwm
    /\ UNCHANGED <<adVars, apiVars, faults, store, found, cur, gfound, gtodo, clean, trouble>>

ReadAll ==
    /\ pc = "search" /\ ~Paged
    /\ SearchAtOnce(IF full THEN 0 ELSE hwm)
    /\ UNCHANGED <<adVars, apiVars, faults, store, full, dry, cur, gfound, gtodo, clean, trouble>>

\* SearchWithPaging: the pages are cut from what the directory holds when each
\* of them is asked for, in an order of its own.
ReadEntry(g) ==
    /\ pc = "search" /\ Paged
    /\ g \in todo
    /\ todo' = todo \ {g}
    /\ IF g \in Search(IF full THEN 0 ELSE hwm)
       THEN /\ found' = [found EXCEPT ![g] = UserOf(g)]
            /\ top' = IF ad[g].usn > top THEN ad[g].usn ELSE top
       ELSE UNCHANGED <<found, top>>
    /\ UNCHANGED <<adVars, apiVars, faults, store, pc, full, dry, cur, gfound, gtodo,
                   clean, trouble>>

EndSearch ==
    /\ pc = "search" /\ Paged
    /\ todo = {}
    /\ todo' = {g \in Guids : found[g] # None}
    /\ pc' = "users"
    /\ UNCHANGED <<adVars, apiVars, faults, store, run, cur, gfound, gtodo, clean, trouble>>

ActiveChanged(g) == found[g].disabled # rows[g].disabled

\* Slip: the username is not compared.
AttributesChangedButName(g) == found[g].attr # rows[g].attr

\* userAttributesChanged: memberOf is not among the attributes compared.
AttributesChanged(g) == found[g].name # rows[g].name \/ found[g].attr # rows[g].attr

FirstStep(g) ==
    IF rows[g] = None THEN "create"
    ELSE IF ActiveChanged(g) THEN "patch"
    ELSE IF AttributesChanged(g) THEN "put"
    ELSE "users"

Failing(g) == trouble' = IF dry THEN trouble ELSE trouble \cup {g}
Settling(g) == trouble' = IF dry THEN trouble ELSE trouble \ {g}

\* The step failed: result.Errors++ or result.Skipped++, and on to the next user.
GiveUp ==
    /\ pc' = "users"
    /\ cur' = None
    /\ clean' = FALSE
    /\ Failing(cur)

Proceed(step) ==
    /\ pc' = step
    /\ UNCHANGED <<cur, clean, trouble>>

LookUpUser(g) ==
    /\ pc = "users"
    /\ g \in todo
    /\ todo' = todo \ {g}
    /\ \/ /\ Fault("store")
          /\ clean' = FALSE
          /\ Failing(g)
          /\ UNCHANGED <<pc, cur>>
       \/ /\ pc' = FirstStep(g)
          /\ IF pc' = "users"
             THEN Settling(g) /\ UNCHANGED cur
             ELSE cur' = g /\ UNCHANGED trouble
          /\ UNCHANGED <<faults, clean>>
    /\ UNCHANGED <<adVars, apiVars, store, run, gfound, gtodo>>

\* Slip: a failed request is logged and the row written all the same.
UserRequestUnchecked(first, again, next) ==
    /\ \E status \in Statuses : Request(first, again, status) /\ Proceed(next)
    /\ UNCHANGED <<adVars, vaults, store, run, todo, gfound, gtodo>>

\* A request about the current user, then the next step or the end of this user.
UserRequest(first, again, next) ==
    /\ \E status \in Statuses :
          /\ Request(first, again, status)
          /\ IF status = "ok" THEN Proceed(next) ELSE GiveUp
    /\ UNCHANGED <<adVars, vaults, store, run, todo, gfound, gtodo>>

CreateUser ==
    LET first == PostUser(accounts, cur, found[cur])
        again == PostUser(first.accounts, cur, found[cur])
    IN  pc = "create" /\ UserRequest(first, again, "upsert")

\* Slip: the path has the name found now, not the one the account was made with.
PatchUserActiveAtNewName ==
    LET first == PatchActive(accounts, found[cur].name, ~found[cur].disabled)
    IN  /\ pc = "patch"
        /\ UserRequest(first, first, IF AttributesChanged(cur) THEN "put" ELSE "upsert")

PatchUserActive ==
    LET first == PatchActive(accounts, rows[cur].name, ~found[cur].disabled)
        again == PatchActive(first.accounts, rows[cur].name, ~found[cur].disabled)
    IN  /\ pc = "patch"
        /\ UserRequest(first, again, IF AttributesChanged(cur) THEN "put" ELSE "upsert")

\* Slip: the same of PUT.
UpdateUserAtNewName ==
    LET first == PutUser(accounts, found[cur].name, cur, found[cur])
    IN  pc = "put" /\ UserRequest(first, first, "upsert")

UpdateUser ==
    LET first == PutUser(accounts, rows[cur].name, cur, found[cur])
        again == PutUser(first.accounts, rows[cur].name, cur, found[cur])
    IN  pc = "put" /\ UserRequest(first, again, "upsert")

\* A failed write counts as an error for a new user and is only logged for
\* one that has a row.
UpsertUser ==
    /\ pc = "upsert"
    /\ Written(/\ rows' = [rows EXCEPT ![cur] = found[cur]]
               /\ Settling(cur)
               /\ UNCHANGED clean,
               /\ Failing(cur)
               /\ clean' = (clean /\ (dry \/ rows[cur] # None))
               /\ UNCHANGED rows)
    /\ pc' = "users"
    /\ cur' = None
    /\ UNCHANGED <<adVars, apiVars, groupRows, hwm, lastError, run, todo, gfound, gtodo>>

-----------------------------------------------------------------------------
(* Deletions: rows the full search did not return, or tombstones.          *)

\* Slip: a full run trusts tombstones too.
MissingWithTombstone == {g \in Guids : rows[g] # None /\ found[g] = None /\ Has(g, "deleted")}

\* Slip: tombstones above the new mark, not the old one.
BuriedAboveTop == {g \in Tombstones(top) : rows[g] # None}

Missing == {g \in Guids : rows[g] # None /\ found[g] = None}
Buried == {g \in Tombstones(hwm) : rows[g] # None}

\* Slip: an incremental run takes those its search did not return for gone.
DepartedWhoever == Missing

Departed == IF full THEN Missing ELSE Buried

\* A failed read of the users table, or tombstone search, is only logged.
ListDeletions ==
    /\ pc = "users"
    /\ todo = {}
    /\ pc' = "deletions"
    /\ \/ todo' = Departed /\ UNCHANGED <<faults, trouble>>
       \/ /\ todo' = {}
          /\ Fault(IF full THEN "store" ELSE "ldap")
          /\ trouble' = IF dry THEN trouble ELSE trouble \cup Departed
    /\ UNCHANGED <<adVars, apiVars, store, run, cur, gfound, gtodo, clean>>

RemoveUser(g) ==
    LET first == DeleteAccount(accounts, rows[g].name)
        again == DeleteAccount(first.accounts, rows[g].name)
    IN  /\ pc = "deletions"
        /\ g \in todo
        /\ todo' = todo \ {g}
        /\ \E status \in Statuses :
              /\ Request(first, again, status)
              /\ IF status = "ok"
                 THEN pc' = "forget" /\ cur' = g /\ UNCHANGED <<clean, trouble>>
                 ELSE clean' = FALSE /\ Failing(g) /\ UNCHANGED <<pc, cur>>
        /\ UNCHANGED <<adVars, vaults, store, run, gfound, gtodo>>

\* IncrementalSync passes over a tombstone whose row cannot be read.
SkipTombstone(g) ==
    /\ pc = "deletions"
    /\ ~full
    /\ g \in todo
    /\ todo' = todo \ {g}
    /\ Fault("store")
    /\ Failing(g)
    /\ UNCHANGED <<adVars, apiVars, store, pc, run, cur, gfound, gtodo, clean>>

\* The error of store.DeleteUser is dropped.
ForgetUser ==
    /\ pc = "forget"
    /\ Written(rows' = [rows EXCEPT ![cur] = None] /\ Settling(cur),
               UNCHANGED rows /\ Failing(cur))
    /\ pc' = "deletions"
    /\ cur' = None
    /\ UNCHANGED <<adVars, apiVars, groupRows, hwm, lastError, run, todo, gfound, gtodo, clean>>

-----------------------------------------------------------------------------
(* SyncGroups, in full runs.                                               *)

SearchGroups ==
    /\ pc = "deletions" /\ full
    /\ todo = {}
    /\ \/ /\ pc' = "groups"
          /\ gfound' = [gr \in Groups |-> GroupOf(gr)]
          /\ gtodo' = Groups
          /\ UNCHANGED faults
       \/ /\ pc' = "membership"
          /\ Fault("ldap")
          /\ UNCHANGED <<gfound, gtodo>>
    /\ UNCHANGED <<adVars, apiVars, store, run, todo, cur, clean, trouble>>

\* Slip: usernames, which SyncMembership then takes for members already added.
NewGroupRowOfNames(gr, hasId) ==
    [cn |-> gfound[gr].cn, hasId |-> hasId,
     members |-> {rows[g].name : g \in {h \in gfound[gr].members : rows[h] # None}}]

NewGroupRow(gr, hasId) ==
    [cn |-> gfound[gr].cn, members |-> gfound[gr].members, hasId |-> hasId]

\* A group without a row, or whose row cannot be read, is created; the
\* service answers a repeated POST with the vault there is.  "blank" is a 2xx
\* with an empty body.  A death between the request and the write leaves
\* what a lost answer leaves: the vault and no row.  A known group whose row
\* cannot be read keeps it if the request fails too.
CreateGroup(gr) ==
    \/ /\ dry
       /\ groupRows[gr] = None
       /\ UNCHANGED <<vaults, groupRows, faults>>
    \/ /\ ~dry
       /\ groupRows[gr] = None
       /\ vaults' = vaults \cup {gr}
       /\ groupRows' = [groupRows EXCEPT ![gr] = NewGroupRow(gr, TRUE)]
       /\ UNCHANGED faults
    \/ /\ ~dry
       /\ Fault("store")
       /\ vaults' = vaults \cup {gr}
       /\ IF groupRows[gr] = None
          THEN UNCHANGED groupRows
          ELSE \E hasId \in BOOLEAN :
                  /\ hasId \/ "blank" \in Faults
                  /\ groupRows' = [groupRows EXCEPT ![gr] = NewGroupRow(gr, hasId)]
    \/ /\ ~dry
       /\ groupRows[gr] = None
       /\ \/ Fault("refuse") /\ UNCHANGED <<vaults, groupRows>>
          \/ Fault("lose") /\ vaults' = vaults \cup {gr} /\ UNCHANGED groupRows
          \/ /\ Fault("blank")
             /\ vaults' = vaults \cup {gr}
             /\ groupRows' = [groupRows EXCEPT ![gr] = NewGroupRow(gr, FALSE)]

\* A renamed group only gets a new row; the vault keeps its name.
RenameRow(gr) ==
    /\ groupRows[gr] # None
    /\ IF groupRows[gr].cn = gfound[gr].cn
       THEN UNCHANGED <<groupRows, faults>>
       ELSE Written(groupRows' = [groupRows EXCEPT ![gr] =
                                     NewGroupRow(gr, groupRows[gr].hasId)],
                    UNCHANGED groupRows)
    /\ UNCHANGED vaults

\* matchDNPattern: a DN is matched whole, so a bare name matches no group.
Matches(c, cns) == GroupForm = "pattern" /\ c \in cns

\* group_exclude goes before group_include; an empty list lets all through.
GroupIncluded(gr) ==
    /\ ~Matches(gfound[gr].cn, Exclude)
    /\ Include = {} \/ Matches(gfound[gr].cn, Include)

\* A group left out is passed over: a row it has stays, vault and members too.
SyncGroup(gr) ==
    /\ pc = "groups"
    /\ gr \in gtodo
    /\ gtodo' = gtodo \ {gr}
    /\ IF GroupIncluded(gr)
       THEN CreateGroup(gr) \/ RenameRow(gr)
       ELSE UNCHANGED <<vaults, groupRows, faults>>
    /\ UNCHANGED <<adVars, accounts, rows, hwm, lastError, pc, run, todo, cur, gfound, clean,
                   trouble>>

-----------------------------------------------------------------------------
(* SyncMembership, in full runs and in incremental ones with an entry.     *)

\* Slip: the stored member list is trusted beside memberOf.
IsMemberOrListed(g, gr) ==
    groupRows[gr].cn \in rows[g].memberOf \/ g \in groupRows[gr].members

IsMember(g, gr) == groupRows[gr].cn \in rows[g].memberOf
WasKnown(g, gr) == rows[g].name \in groupRows[gr].members

\* Slip: a user who is disabled is left alone, and remembered.
MismatchedEnabled(gr) ==
    {g \in Guids : rows[g] # None /\ ~rows[g].disabled /\ IsMember(g, gr) # WasKnown(g, gr)}

\* The users a group's loop sends a request about.
Mismatched(gr) == {g \in Guids : rows[g] # None /\ IsMember(g, gr) # WasKnown(g, gr)}

BeginMembership ==
    /\ \/ pc = "groups" /\ gtodo = {}
       \/ pc = "deletions" /\ todo = {} /\ ~full
    /\ pc' = IF full \/ \E g \in Guids : found[g] # None THEN "membership" ELSE "group"
    /\ UNCHANGED <<adVars, apiVars, faults, store, run, loops>>

LoadMembership ==
    /\ pc = "membership"
    /\ pc' = "group"
    /\ \/ /\ gtodo' = {gr \in Groups : groupRows[gr] # None /\ groupRows[gr].hasId}
          /\ UNCHANGED faults
       \/ Fault("store") /\ UNCHANGED gtodo
    /\ UNCHANGED <<adVars, apiVars, store, run, todo, cur, gfound, clean, trouble>>

OpenGroup(gr) ==
    /\ pc = "group"
    /\ gr \in gtodo
    /\ gtodo' = gtodo \ {gr}
    /\ cur' = gr
    /\ todo' = Mismatched(gr)
    /\ pc' = "member"
    /\ UNCHANGED <<adVars, apiVars, faults, store, run, gfound, clean, trouble>>

\* A failed request is counted and otherwise forgotten.
ChangeMember(g) ==
    LET n == rows[g].name
        Change(accts) == IF IsMember(g, cur) THEN AddMember(accts, cur, n)
                                             ELSE RemoveMember(accts, cur, n)
        first == Change(accounts)
        again == Change(first.accounts)
    IN  /\ pc = "member"
        /\ g \in todo
        /\ todo' = todo \ {g}
        /\ \E status \in Statuses :
              /\ Request(first, again, status)
              /\ clean' = (clean /\ status = "ok")
        /\ UNCHANGED <<adVars, vaults, store, pc, run, cur, gfound, gtodo, trouble>>

StoreMembers ==
    /\ pc = "member"
    /\ todo = {}
    /\ Written(groupRows' = [groupRows EXCEPT ![cur].members =
                   {rows[g].name : g \in {h \in Guids : rows[h] # None /\ IsMember(h, cur)}}],
               UNCHANGED groupRows)
    /\ pc' = "group"
    /\ cur' = None
    /\ UNCHANGED <<adVars, apiVars, rows, hwm, lastError, run, todo, gfound, gtodo, clean,
                   trouble>>

-----------------------------------------------------------------------------
(* The end of a run, and the death of the process.                         *)

\* The locals of the run are gone.
DropLocals ==
    /\ pc' = "idle"
    /\ full' = FALSE /\ dry' = FALSE /\ clean' = TRUE
    /\ found' = [g \in Guids |-> None] /\ gfound' = [gr \in Groups |-> None]
    /\ todo' = {} /\ gtodo' = {} /\ cur' = None /\ top' = 0

AtEnd == pc = "group" /\ gtodo = {}

\* Slip: the directory's own counter (GetHighestUSN) at the end of the run.
NewMarkHighestUsn == usn

\* Slip: one less, so that the next search returns the last change again.
NewMarkInclusive == top - 1

NewMark == IF (full /\ top > 0) \/ top > hwm THEN top ELSE hwm

FinishRun ==
    /\ AtEnd
    /\ Written(hwm' = NewMark, UNCHANGED hwm)
    /\ IF dry THEN UNCHANGED lastError ELSE SetLastError("none")
    /\ DropLocals
    /\ UNCHANGED <<adVars, apiVars, rows, groupRows, trouble>>

\* A search that fails, or one of its pages, ends the run.
FailSearch ==
    /\ pc = "search"
    /\ Fault("ldap")
    /\ SetLastError("search")
    /\ DropLocals
    /\ UNCHANGED <<adVars, apiVars, rows, groupRows, hwm, trouble>>

\* The process dies and the service manager starts it again.
Crash ==
    /\ pc # "idle"
    /\ Fault("crash")
    /\ DropLocals
    /\ UNCHANGED <<adVars, apiVars, store, trouble>>

Step ==
    \/ ReadAll \/ EndSearch
    \/ \E g \in Guids :
          ReadEntry(g) \/ LookUpUser(g) \/ RemoveUser(g) \/ SkipTombstone(g) \/ ChangeMember(g)
    \/ \E gr \in Groups : SyncGroup(gr) \/ OpenGroup(gr)
    \/ CreateUser \/ PatchUserActive \/ UpdateUser \/ UpsertUser
    \/ ListDeletions \/ ForgetUser
    \/ SearchGroups \/ BeginMembership \/ LoadMembership \/ StoreMembers
    \/ FinishRun

AdStep == AdNext /\ UNCHANGED <<apiVars, faults, store, pc, run, loops>>

Next ==
    \/ AdStep
    \/ \E asked \in RunKinds : StartRun(asked)
    \/ Step
    \/ FailSearch
    \/ Crash

Spec == Init /\ [][Next]_vars

\* A run that has started goes on.  Runs start on tickers whose channels keep
\* a tick until the loop is back at its select, which picks among the ready
\* channels at random: an incremental tick does not shut out a full one.
Fairness ==
    /\ WF_vars(Step)
    /\ \A asked \in RunKinds : SF_vars(StartRun(asked))

FairSpec == Spec /\ Fairness
=============================================================================
