-------------------------- MODULE SyncEngineProofs --------------------------
(***************************************************************************)
(* Theorems about SyncEngine for every value of its constants: any number  *)
(* of users, names and groups, any kinds and number of faults, any number  *)
(* of changes.                                                             *)
(***************************************************************************)
EXTENDS SyncProperties, TLAPS

-----------------------------------------------------------------------------
(* The inductive invariant, in named parts. *)

Processing == pc \in {"users", "create", "patch", "put", "upsert"}

\* What the steps rely on: the entry, row or group a step is about exists.
PhaseOK ==
    /\ pc \in UserSteps => cur \in Guids
    /\ pc \in {"create", "patch", "put", "upsert"} => found[cur] # None
    /\ pc \in {"patch", "put", "forget"} => rows[cur] # None
    /\ Processing => \A g \in todo : found[g] # None
    /\ pc \in {"deletions", "forget", "member"} => \A g \in todo : rows[g] # None
    /\ pc = "forget" => cur \notin todo
    /\ pc \notin {"groups", "group", "member"} => gtodo = {}
    /\ pc = "groups" => \A gr \in gtodo : gfound[gr] # None
    /\ pc \in {"group", "member"} => \A gr \in gtodo : groupRows[gr] # None
    /\ pc = "member" => cur \in Groups /\ groupRows[cur] # None

\* Sequence numbers: nothing is ahead of the directory's counter.
UsnOK ==
    /\ \A g \in Guids : ad[g] # None => ad[g].usn \in 1..usn
    /\ hwm <= usn
    /\ top <= usn

\* A live user whose last change the mark, or the mark to be, covers.  A user
\* an administrator changes again stops being covered.
Covered(g) == Live(g) /\ (ad[g].usn <= hwm \/ ad[g].usn <= top)

\* What the search returned is still so for the covered users, and it
\* returned all of them but those an incremental search leaves out.
SearchOK ==
    pc \notin {"idle", "search"} =>
        \A g \in Guids : Covered(g) =>
            IF found[g] # None
            THEN /\ found[g].name = ad[g].name
                 /\ found[g].attr = ad[g].attr
                 /\ found[g].disabled = ad[g].disabled
            ELSE ~full /\ ad[g].usn <= hwm

Pending(g) == Processing /\ (g \in todo \/ (pc # "users" /\ g = cur))

\* Users the run is done with are stored or in trouble.
ProcessedOK ==
    pc \notin {"idle", "search"} /\ ~dry =>
        \A g \in Guids :
            Covered(g) /\ found[g] # None /\ ~Pending(g) => g \in trouble \/ RowMatches(g)

\* No covered user is about to lose its row.
Doomed(g) ==
    \/ pc \in {"deletions", "forget"} /\ g \in todo
    \/ pc = "forget" /\ g = cur

RemovalOK == \A g \in Guids : Doomed(g) => ~Covered(g)

TypeInv == TypeOK /\ PhaseOK

MarkInv ==
    /\ UsnOK
    /\ SearchOK
    /\ ProcessedOK
    /\ RemovalOK
    /\ MarkedChangesStored

-----------------------------------------------------------------------------
(* What requests and writes do to the types. *)

AccountMap == [Names -> Account \cup {None}]

\* An answer of the service is a table of accounts and a status.
Reply == [accounts: AccountMap, status: Statuses]

\* No request of a user, and no answer to it, leaves the table of accounts.
LEMMA UserRepliesType ==
    ASSUME NEW accts \in AccountMap, NEW g \in Guids, NEW u \in UserData, NEW n \in Names
    PROVE  /\ PostUser(accts, g, u) \in Reply
           /\ PutUser(accts, n, g, u) \in Reply
           /\ \A active \in BOOLEAN : PatchActive(accts, n, active) \in Reply
           /\ DeleteAccount(accts, n) \in Reply
<1> USE DEF Reply, AccountMap, Account, UserData, Statuses, Answer, NewAccount
<1>1. PostUser(accts, g, u) \in Reply
  BY DEF PostUser
<1>2. PutUser(accts, n, g, u) \in Reply
  BY DEF PutUser
<1>3. \A active \in BOOLEAN : PatchActive(accts, n, active) \in Reply
  BY DEF PatchActive
<1>4. DeleteAccount(accts, n) \in Reply
  BY DEF DeleteAccount
<1> QED BY <1>1, <1>2, <1>3, <1>4

\* The same of the two membership requests.
LEMMA MemberRepliesType ==
    ASSUME NEW accts \in AccountMap, NEW n \in Names, NEW gr \in Groups
    PROVE  AddMember(accts, gr, n) \in Reply /\ RemoveMember(accts, gr, n) \in Reply
BY DEF Reply, AccountMap, Account, Statuses, Answer, AddMember, RemoveMember

\* A request leaves a table of accounts and a count of faults.
LEMMA RequestType ==
    ASSUME NEW first \in Reply, NEW again, NEW status, ApiTypeOK,
           Request(first, again, status)
    PROVE  accounts' \in AccountMap /\ faults' \in Nat
BY DEF Reply, AccountMap, ApiTypeOK, Request, Fault

-----------------------------------------------------------------------------
(* Type correctness. *)

LEMMA InitType == ASSUME Init PROVE TypeInv
BY DEF Init, AdInit, ApiInit, TypeInv, TypeOK, AdTypeOK, ApiTypeOK, PhaseOK,
       UserSteps, Steps, Processing

\* Every change of a user but AddUser writes back the user's own entry with
\* fields replaced.
LEMMA WriteType ==
    ASSUME AdTypeOK, NEW g \in Guids, NEW entry \in Entry, Write(g, entry)
    PROVE  AdTypeOK'
<1>1. [entry EXCEPT !.usn = usn + 1] \in Entry
  BY DEF Entry, AdTypeOK
<1> QED BY <1>1 DEF AdTypeOK, Write

\* Administrators rename a group or write one user's entry.
LEMMA AdNextWrites ==
    ASSUME AdTypeOK, AdNext
    PROVE  \/ \E gr \in Groups : RenameGroup(gr)
           \/ \E g \in Guids, entry \in Entry : Write(g, entry)
<1>1. ASSUME NEW g \in Guids, AddUser(g) PROVE \E entry \in Entry : Write(g, entry)
  <2>1. PICK n \in Names, a \in Attrs, d \in BOOLEAN, m \in SUBSET Groups :
            Write(g, [status |-> "live", name |-> n, attr |-> a,
                      disabled |-> d, memberOf |-> m, usn |-> 0])
    BY <1>1 DEF AddUser
  <2> QED BY <2>1 DEF Entry
<1>2. ASSUME NEW g \in Guids, ad[g] # None
      PROVE  /\ ad[g] \in Entry
             /\ \A n \in Names : [ad[g] EXCEPT !.name = n] \in Entry
             /\ \A a \in Attrs : [ad[g] EXCEPT !.attr = a] \in Entry
             /\ [ad[g] EXCEPT !.disabled = ~ad[g].disabled] \in Entry
             /\ \A m \in SUBSET Groups : [ad[g] EXCEPT !.memberOf = m] \in Entry
             /\ [ad[g] EXCEPT !.status = "hidden"] \in Entry
             /\ [ad[g] EXCEPT !.status = "live"] \in Entry
             /\ [ad[g] EXCEPT !.status = "deleted", !.memberOf = {}] \in Entry
  <2>1. ad[g] \in Entry
    BY <1>2 DEF AdTypeOK
  <2> QED BY <2>1 DEF Entry
<1>3. ASSUME NEW g \in Guids,
             \/ RenameUser(g) \/ EditUser(g) \/ ToggleDisabled(g) \/ Regroup(g)
             \/ MoveOut(g) \/ MoveBack(g) \/ DeleteObject(g) \/ RestoreObject(g)
      PROVE  \E entry \in Entry : Write(g, entry)
  <2>1. ad[g] # None
    BY <1>3 DEF RenameUser, EditUser, ToggleDisabled, Regroup, MoveOut, MoveBack,
                DeleteObject, RestoreObject, Present, Live, Has
  <2>2. CASE RenameUser(g) BY <1>2, <2>1, <2>2 DEF RenameUser
  <2>3. CASE EditUser(g) BY <1>2, <2>1, <2>3 DEF EditUser
  <2>4. CASE ToggleDisabled(g) BY <1>2, <2>1, <2>4 DEF ToggleDisabled
  <2>5. CASE Regroup(g) BY <1>2, <2>1, <2>5 DEF Regroup
  <2>6. CASE MoveOut(g) BY <1>2, <2>1, <2>6 DEF MoveOut
  <2>7. CASE MoveBack(g) BY <1>2, <2>1, <2>7 DEF MoveBack
  <2>8. CASE DeleteObject(g) BY <1>2, <2>1, <2>8 DEF DeleteObject
  <2>9. CASE RestoreObject(g) BY <1>2, <2>1, <2>9 DEF RestoreObject
  <2> QED BY <1>3, <2>2, <2>3, <2>4, <2>5, <2>6, <2>7, <2>8, <2>9
<1> QED BY <1>1, <1>3 DEF AdNext

LEMMA AdNextType == ASSUME AdTypeOK, AdNext PROVE AdTypeOK'
<1>1. ASSUME NEW gr \in Groups, RenameGroup(gr) PROVE AdTypeOK'
  BY <1>1 DEF RenameGroup, AdTypeOK
<1> QED BY <1>1, AdNextWrites, WriteType

LEMMA AdStepType == ASSUME TypeInv, AdStep PROVE TypeInv'
<1>1. AdTypeOK'
  BY AdNextType DEF AdStep, TypeInv, TypeOK
<1> QED
  BY <1>1 DEF AdStep, TypeInv, TypeOK, ApiTypeOK, PhaseOK, Processing,
              apiVars, store, run, loops

\* A search returns user data of live users.
LEMMA UserOfType ==
    ASSUME AdTypeOK, NEW g \in Guids, Live(g)
    PROVE  /\ UserOf(g) \in UserData /\ UserOf(g) # None
           /\ UserOf(g).name = ad[g].name
           /\ UserOf(g).attr = ad[g].attr
           /\ UserOf(g).disabled = ad[g].disabled
<1>1. UserOf(g) \in UserData
  BY DEF AdTypeOK, Live, Has, Entry, UserOf, UserData
<1>2. /\ UserOf(g).name = ad[g].name
      /\ UserOf(g).attr = ad[g].attr
      /\ UserOf(g).disabled = ad[g].disabled
  BY DEF UserOf
<1> QED BY <1>1, <1>2, TypesAssumption

LEMMA StartRunType == ASSUME TypeInv, NEW asked \in RunKinds, StartRun(asked) PROVE TypeInv'
<1> USE RunsAssumption DEF TypeInv, TypeOK
<1>1. TypeOK'
  BY DEF StartRun, Steps, AdTypeOK, ApiTypeOK, adVars, apiVars, store
<1>2. PhaseOK'
  BY DEF StartRun, PhaseOK, Processing, UserSteps
<1> QED BY <1>1, <1>2

LEMMA ReadAllType == ASSUME TypeInv, ReadAll PROVE TypeInv'
<1> USE DEF TypeInv, TypeOK
<1> DEFINE low == IF full THEN 0 ELSE hwm
<1> DEFINE seen == Search(low)
<1>1. \A g \in seen : g \in Guids /\ ad[g].usn \in Nat /\ UserOf(g) \in UserData
  BY DEF Search, Live, Has, UserOf, UserData, AdTypeOK, Entry
<1>2. SearchAtOnce(low)
  BY DEF ReadAll
<1>3. found' \in [Guids -> UserData \cup {None}] /\ top' \in Nat /\ todo' = seen /\ pc' = "users"
  BY <1>1, <1>2 DEF SearchAtOnce
<1>4. \A g \in todo' : found'[g] # None
  BY <1>1, <1>2, TypesAssumption DEF SearchAtOnce
<1>5. TypeOK'
  BY <1>1, <1>3 DEF ReadAll, Steps, AdTypeOK, ApiTypeOK, adVars, apiVars, store
<1>6. PhaseOK'
  BY <1>3, <1>4 DEF ReadAll, PhaseOK, UserSteps
<1> QED BY <1>5, <1>6

LEMMA ReadEntryType == ASSUME TypeInv, NEW g \in Guids, ReadEntry(g) PROVE TypeInv'
<1> USE DEF TypeInv
<1> DEFINE hit == g \in Search(IF full THEN 0 ELSE hwm)
<1>1. hit => UserOf(g) \in UserData /\ ad[g].usn \in Nat
  BY UserOfType DEF TypeOK, AdTypeOK, Search, Live, Has, Entry
<1>2. found' \in [Guids -> UserData \cup {None}] /\ top' \in Nat
  BY <1>1 DEF ReadEntry, TypeOK
<1>3. TypeOK'
  BY <1>2 DEF ReadEntry, TypeOK, AdTypeOK, ApiTypeOK, adVars, apiVars, store
<1>4. PhaseOK'
  BY DEF ReadEntry, PhaseOK, Processing, UserSteps, store
<1> QED BY <1>3, <1>4

LEMMA EndSearchType == ASSUME TypeInv, EndSearch PROVE TypeInv'
<1> USE DEF TypeInv, EndSearch
<1>1. TypeOK'
  BY DEF TypeOK, AdTypeOK, ApiTypeOK, Steps, adVars, apiVars, store, run
<1>2. PhaseOK'
  BY DEF PhaseOK, Processing, UserSteps, store, run
<1> QED BY <1>1, <1>2

LEMMA LookUpUserType == ASSUME TypeInv, NEW g \in Guids, LookUpUser(g) PROVE TypeInv'
<1> USE DEF TypeInv, LookUpUser, Failing, Settling, FirstStep, Fault
<1>1. pc' \in Steps /\ cur' \in Guids \cup Groups \cup {None}
  BY DEF TypeOK, Steps, UserSteps
<1>2. trouble' \subseteq Guids /\ todo' \subseteq Guids /\ clean' \in BOOLEAN
  BY DEF TypeOK
<1>3. faults' \in Nat
  BY DEF TypeOK, ApiTypeOK
<1>4. TypeOK'
  BY <1>1, <1>2, <1>3 DEF TypeOK, AdTypeOK, ApiTypeOK, adVars, apiVars, store, run
<1>5. PhaseOK'
  BY DEF TypeOK, PhaseOK, Processing, Steps, UserSteps, store, run
<1> QED BY <1>4, <1>5

\* What a request about the current user leaves, whichever of the three it is.
LEMMA UserRequestType ==
    ASSUME TypeInv, pc \in {"create", "patch", "put"}, NEW first \in Reply, NEW again,
           NEW next \in {"put", "upsert"}, next = "put" => rows[cur] # None,
           UserRequest(first, again, next)
    PROVE  TypeInv'
<1>1. accounts' \in AccountMap /\ faults' \in Nat
  BY RequestType DEF UserRequest, TypeInv, TypeOK
<1>2. /\ pc' \in Steps /\ cur' \in Guids \cup {None}
      /\ trouble' \subseteq Guids /\ clean' \in BOOLEAN
  BY DEF TypeInv, TypeOK, PhaseOK, Steps, UserSteps, UserRequest, GiveUp, Proceed, Failing
<1>3. TypeOK'
  BY <1>1, <1>2 DEF TypeInv, TypeOK, AdTypeOK, ApiTypeOK, AccountMap, UserRequest,
                    adVars, store, run
<1>4. PhaseOK'
  BY DEF TypeInv, TypeOK, PhaseOK, Processing, UserSteps, UserRequest, GiveUp, Proceed,
         store, run
<1> QED BY <1>3, <1>4 DEF TypeInv

LEMMA CreateUserType == ASSUME TypeInv, CreateUser PROVE TypeInv'
<1>1. accounts \in AccountMap /\ cur \in Guids /\ found[cur] \in UserData
  BY DEF CreateUser, TypeInv, TypeOK, ApiTypeOK, AccountMap, PhaseOK, UserSteps
<1>2. found[cur].name \in Names
  BY <1>1 DEF UserData
<1>3. PostUser(accounts, cur, found[cur]) \in Reply
  BY <1>1, <1>2, UserRepliesType
<1> QED BY <1>3, UserRequestType DEF CreateUser

LEMMA PatchUserActiveType == ASSUME TypeInv, PatchUserActive PROVE TypeInv'
<1>1. /\ accounts \in AccountMap /\ cur \in Guids /\ rows[cur] # None
      /\ found[cur] \in UserData /\ rows[cur] \in UserData
  BY DEF PatchUserActive, TypeInv, TypeOK, ApiTypeOK, AccountMap, PhaseOK, UserSteps
<1>2. rows[cur].name \in Names /\ (~found[cur].disabled) \in BOOLEAN
  BY <1>1 DEF UserData
<1>3. PatchActive(accounts, rows[cur].name, ~found[cur].disabled) \in Reply
  BY <1>1, <1>2, UserRepliesType
<1> QED BY <1>1, <1>3, UserRequestType DEF PatchUserActive

LEMMA UpdateUserType == ASSUME TypeInv, UpdateUser PROVE TypeInv'
<1>1. /\ accounts \in AccountMap /\ cur \in Guids
      /\ found[cur] \in UserData /\ rows[cur] \in UserData
  BY DEF UpdateUser, TypeInv, TypeOK, ApiTypeOK, AccountMap, PhaseOK, UserSteps
<1>2. rows[cur].name \in Names
  BY <1>1 DEF UserData
<1>3. PutUser(accounts, rows[cur].name, cur, found[cur]) \in Reply
  BY <1>1, <1>2, UserRepliesType
<1> QED BY <1>1, <1>3, UserRequestType DEF UpdateUser

LEMMA UpsertUserType == ASSUME TypeInv, UpsertUser PROVE TypeInv'
<1> USE DEF TypeInv, UpsertUser, Written, Failing, Settling, Fault
<1>1. TypeOK'
  BY DEF TypeOK, AdTypeOK, ApiTypeOK, Steps, UserSteps, PhaseOK, adVars, apiVars, run
<1>2. PhaseOK'
  BY DEF TypeOK, PhaseOK, Processing, UserSteps, run
<1> QED BY <1>1, <1>2

LEMMA ListDeletionsType == ASSUME TypeInv, ListDeletions PROVE TypeInv'
<1> USE DEF TypeInv, ListDeletions, Departed, Missing, Buried, Fault
<1>1. todo' \subseteq Guids /\ \A g \in todo' : rows[g] # None
  BY DEF Tombstones
<1>2. TypeOK'
  BY <1>1 DEF Tombstones, TypeOK, AdTypeOK, ApiTypeOK, Steps, adVars, apiVars, store, run
<1>3. PhaseOK'
  BY <1>1 DEF PhaseOK, Processing, UserSteps, store, run
<1> QED BY <1>2, <1>3

LEMMA RemoveUserType == ASSUME TypeInv, NEW g \in Guids, RemoveUser(g) PROVE TypeInv'
<1> USE DEF TypeInv
<1>1. accounts \in AccountMap /\ rows[g] # None /\ rows[g] \in UserData
  BY DEF RemoveUser, TypeOK, ApiTypeOK, AccountMap, PhaseOK
<1>2. rows[g].name \in Names
  BY <1>1 DEF UserData
<1>3. DeleteAccount(accounts, rows[g].name) \in Reply
  BY <1>1, <1>2 DEF DeleteAccount, Reply, AccountMap, Answer, Statuses
<1>4. accounts' \in AccountMap /\ faults' \in Nat
  BY <1>3, RequestType DEF RemoveUser, TypeOK
<1>5. TypeOK'
  BY <1>4 DEF RemoveUser, Failing, TypeOK, AdTypeOK, ApiTypeOK, AccountMap, Steps, UserSteps,
              adVars, store, run
<1>6. PhaseOK'
  BY <1>1 DEF RemoveUser, TypeOK, PhaseOK, Processing, UserSteps, store, run
<1> QED BY <1>5, <1>6

LEMMA SkipTombstoneType == ASSUME TypeInv, NEW g \in Guids, SkipTombstone(g) PROVE TypeInv'
BY DEF TypeInv, TypeOK, AdTypeOK, ApiTypeOK, PhaseOK, Processing, UserSteps,
       SkipTombstone, Failing, Fault, adVars, apiVars, store, run

LEMMA ForgetUserType == ASSUME TypeInv, ForgetUser PROVE TypeInv'
<1>1. /\ trouble' \subseteq Guids /\ faults' \in Nat
      /\ rows' \in [Guids -> UserData \cup {None}]
  BY DEF TypeInv, TypeOK, ApiTypeOK, PhaseOK, UserSteps, ForgetUser, Written, Settling,
         Failing, Fault
<1>2. TypeOK'
  BY <1>1 DEF TypeInv, TypeOK, AdTypeOK, ApiTypeOK, Steps, ForgetUser, adVars, apiVars, run
<1>3. PhaseOK'
  BY DEF TypeInv, TypeOK, PhaseOK, Processing, UserSteps, ForgetUser, Written, run
<1> QED BY <1>2, <1>3 DEF TypeInv

LEMMA SearchGroupsType == ASSUME TypeInv, SearchGroups PROVE TypeInv'
<1> USE DEF TypeInv, SearchGroups, Fault
<1>1. ASSUME NEW gr \in Groups
      PROVE  GroupOf(gr) \in GroupData
  BY DEF TypeOK, AdTypeOK, GroupOf, GroupData
<1>2. gfound' \in [Groups -> GroupData \cup {None}] /\ gtodo' \subseteq Groups
  BY <1>1 DEF TypeOK
<1>3. TypeOK'
  BY <1>2 DEF TypeOK, AdTypeOK, ApiTypeOK, Steps, adVars, apiVars, store, run
<1>4. PhaseOK'
  BY <1>1, TypesAssumption DEF PhaseOK, Processing, UserSteps, store, run
<1> QED BY <1>3, <1>4

LEMMA SyncGroupType == ASSUME TypeInv, NEW gr \in Groups, SyncGroup(gr) PROVE TypeInv'
<1> USE DEF TypeInv
<1>1. gfound[gr] \in GroupData
  BY DEF SyncGroup, TypeOK, PhaseOK
<1>2. \A hasId \in BOOLEAN : NewGroupRow(gr, hasId) \in GroupRow
  BY <1>1 DEF NewGroupRow, GroupRow, GroupData
<1>3. groupRows[gr] # None => groupRows[gr].hasId \in BOOLEAN
  BY DEF TypeOK, GroupRow
<1>4. /\ groupRows' \in [Groups -> GroupRow \cup {None}]
      /\ vaults' \subseteq Groups /\ faults' \in Nat
  <2>1. CASE CreateGroup(gr)
    <3>1. \/ groupRows' = groupRows
          \/ \E hasId \in BOOLEAN :
                groupRows' = [groupRows EXCEPT ![gr] = NewGroupRow(gr, hasId)]
      BY <2>1 DEF CreateGroup
    <3>2. groupRows' \in [Groups -> GroupRow \cup {None}]
      BY <1>2, <3>1 DEF TypeOK
    <3>3. vaults' \in {vaults, vaults \cup {gr}} /\ faults' \in {faults, faults + 1}
      BY <2>1 DEF CreateGroup, Fault
    <3> QED BY <3>2, <3>3 DEF TypeOK, ApiTypeOK
  <2>2. CASE RenameRow(gr)
    BY <1>2, <1>3, <2>2 DEF RenameRow, Written, TypeOK, ApiTypeOK, Fault
  <2>3. CASE UNCHANGED <<vaults, groupRows, faults>>
    BY <2>3 DEF TypeOK, ApiTypeOK
  <2> QED BY <2>1, <2>2, <2>3 DEF SyncGroup
<1>5. TypeOK'
  BY <1>4 DEF SyncGroup, TypeOK, AdTypeOK, ApiTypeOK, adVars, run
<1>6. PhaseOK'
  BY DEF SyncGroup, PhaseOK, Processing, UserSteps, run
<1> QED BY <1>5, <1>6

LEMMA BeginMembershipType == ASSUME TypeInv, BeginMembership PROVE TypeInv'
<1> USE DEF TypeInv, BeginMembership
<1>1. TypeOK'
  BY DEF TypeOK, AdTypeOK, ApiTypeOK, Steps, adVars, apiVars, store, run, loops
<1>2. PhaseOK'
  BY DEF PhaseOK, Processing, UserSteps, store, run, loops
<1> QED BY <1>1, <1>2

LEMMA LoadMembershipType == ASSUME TypeInv, LoadMembership PROVE TypeInv'
<1> USE DEF TypeInv, LoadMembership, Fault
<1>1. TypeOK'
  BY DEF TypeOK, AdTypeOK, ApiTypeOK, Steps, adVars, apiVars, store, run
<1>2. PhaseOK'
  BY DEF PhaseOK, Processing, UserSteps, store, run
<1> QED BY <1>1, <1>2

LEMMA OpenGroupType == ASSUME TypeInv, NEW gr \in Groups, OpenGroup(gr) PROVE TypeInv'
<1> USE DEF TypeInv, OpenGroup, Mismatched
<1>1. TypeOK'
  BY DEF TypeOK, AdTypeOK, ApiTypeOK, Steps, adVars, apiVars, store, run
<1>2. PhaseOK'
  BY DEF PhaseOK, Processing, UserSteps, store, run
<1> QED BY <1>1, <1>2

LEMMA ChangeMemberType == ASSUME TypeInv, NEW g \in Guids, ChangeMember(g) PROVE TypeInv'
<1> USE DEF TypeInv
<1>1. accounts \in AccountMap /\ rows[g] \in UserData /\ cur \in Groups
  BY DEF ChangeMember, TypeOK, ApiTypeOK, AccountMap, PhaseOK
<1>2. rows[g].name \in Names
  BY <1>1 DEF UserData
<1>3. /\ AddMember(accounts, cur, rows[g].name) \in Reply
      /\ RemoveMember(accounts, cur, rows[g].name) \in Reply
  BY <1>1, <1>2, MemberRepliesType
<1>4. accounts' \in AccountMap /\ faults' \in Nat
  BY <1>3, RequestType DEF ChangeMember, TypeOK
<1>5. TypeOK'
  BY <1>4 DEF ChangeMember, TypeOK, AdTypeOK, ApiTypeOK, AccountMap, adVars, store, run
<1>6. PhaseOK'
  BY DEF ChangeMember, PhaseOK, Processing, UserSteps, store, run
<1> QED BY <1>5, <1>6

LEMMA StoreMembersType == ASSUME TypeInv, StoreMembers PROVE TypeInv'
<1> USE DEF TypeInv
<1> DEFINE members == {rows[g].name : g \in {h \in Guids : rows[h] # None /\ IsMember(h, cur)}}
<1>1. members \subseteq Names
  BY DEF TypeOK, UserData
<1>2. groupRows[cur] \in GroupRow /\ cur \in Groups
  BY DEF StoreMembers, TypeOK, PhaseOK
<1>3. [groupRows[cur] EXCEPT !.members = members] \in GroupRow
  BY <1>1, <1>2 DEF GroupRow
<1>4. /\ groupRows' \in {groupRows, [groupRows EXCEPT ![cur] = [groupRows[cur] EXCEPT !.members = members]]}
      /\ faults' \in {faults, faults + 1}
  BY DEF StoreMembers, Written, Fault
<1>5. /\ groupRows' \in [Groups -> GroupRow \cup {None}]
      /\ faults' \in Nat
      /\ \A gr \in Groups : groupRows[gr] # None => groupRows'[gr] # None
  <2>1. faults' \in Nat
    BY <1>4 DEF TypeOK, ApiTypeOK
  <2>2. CASE groupRows' = groupRows
    BY <2>1, <2>2 DEF TypeOK
  <2>3. CASE groupRows' = [groupRows EXCEPT ![cur] = [groupRows[cur] EXCEPT !.members = members]]
    BY <1>2, <1>3, <2>1, <2>3, TypesAssumption DEF TypeOK
  <2> QED BY <1>4, <2>2, <2>3
<1>6. TypeOK'
  BY <1>5 DEF StoreMembers, TypeOK, AdTypeOK, ApiTypeOK, Steps, adVars, apiVars, run
<1>7. PhaseOK'
  BY <1>5 DEF StoreMembers, TypeOK, PhaseOK, Processing, UserSteps, run
<1> QED BY <1>6, <1>7

\* The locals a finished or killed run leaves satisfy the invariant with any
\* directory, service and database.
LEMMA DropLocalsType ==
    ASSUME DropLocals,
           AdTypeOK', ApiTypeOK', rows' \in [Guids -> UserData \cup {None}],
           groupRows' \in [Groups -> GroupRow \cup {None}], hwm' \in Nat, trouble' \subseteq Guids,
           lastError' \in {"none", "search"}
    PROVE  TypeInv'
BY DEF DropLocals, TypeInv, TypeOK, PhaseOK, Processing, UserSteps, Steps

LEMMA FinishRunType == ASSUME TypeInv, FinishRun PROVE TypeInv'
<1>1. hwm' \in Nat /\ faults' \in Nat /\ lastError' \in {"none", "search"}
  BY DEF FinishRun, Written, SetLastError, Fault, NewMark, TypeInv, TypeOK, ApiTypeOK
<1> QED
  BY <1>1, DropLocalsType DEF FinishRun, TypeInv, TypeOK, AdTypeOK, ApiTypeOK, adVars, apiVars

LEMMA CrashType == ASSUME TypeInv, Crash \/ FailSearch PROVE TypeInv'
<1>1. faults' \in Nat /\ lastError' \in {"none", "search"}
  BY DEF Crash, FailSearch, SetLastError, Fault, TypeInv, TypeOK, ApiTypeOK, store
<1> QED
  BY <1>1, DropLocalsType DEF Crash, FailSearch, TypeInv, TypeOK, AdTypeOK, ApiTypeOK, adVars,
         apiVars, store

LEMMA NextType == ASSUME TypeInv, [Next]_vars PROVE TypeInv'
<1>1. CASE AdStep
  BY <1>1, AdStepType
<1>2. CASE \E asked \in RunKinds : StartRun(asked)
  BY <1>2, StartRunType
<1>3. CASE \E g \in Guids : ReadEntry(g) \/ LookUpUser(g) \/ RemoveUser(g)
                                \/ SkipTombstone(g) \/ ChangeMember(g)
  BY <1>3, ReadEntryType, LookUpUserType, RemoveUserType, SkipTombstoneType, ChangeMemberType
<1>4. CASE \E gr \in Groups : SyncGroup(gr) \/ OpenGroup(gr)
  BY <1>4, SyncGroupType, OpenGroupType
<1>5. CASE CreateUser \/ PatchUserActive \/ UpdateUser \/ UpsertUser
  BY <1>5, CreateUserType, PatchUserActiveType, UpdateUserType, UpsertUserType
<1>6. CASE ReadAll \/ EndSearch \/ ListDeletions \/ ForgetUser \/ SearchGroups
  BY <1>6, ReadAllType, EndSearchType, ListDeletionsType, ForgetUserType, SearchGroupsType
<1>7. CASE BeginMembership \/ LoadMembership \/ StoreMembers
  BY <1>7, BeginMembershipType, LoadMembershipType, StoreMembersType
<1>8. CASE FinishRun \/ FailSearch \/ Crash
  BY <1>8, FinishRunType, CrashType
<1>9. CASE UNCHANGED vars
  BY <1>9 DEF vars, adVars, apiVars, store, run, loops, TypeInv, TypeOK, AdTypeOK,
              ApiTypeOK, PhaseOK, Processing
<1> QED BY <1>1, <1>2, <1>3, <1>4, <1>5, <1>6, <1>7, <1>8, <1>9 DEF Next, Step

\* Every variable keeps its type, and no step looks into an entry, a row or a
\* group that is not there (a nil dereference in the code).
THEOREM TypeCorrect == Spec => [](TypeOK /\ PhaseOK)
<1>1. Init => TypeInv
  BY InitType
<1>2. TypeInv /\ [Next]_vars => TypeInv'
  BY NextType
<1> QED BY <1>1, <1>2, PTL DEF Spec, TypeInv

-----------------------------------------------------------------------------
(* No change is lost below the mark. *)

LEMMA InitMark == ASSUME Init PROVE MarkInv
BY DEF Init, AdInit, MarkInv, UsnOK, SearchOK, ProcessedOK, RemovalOK, Doomed,
       MarkedChangesStored, Live, Has

\* A change by administrators gives its user a number no mark has reached,
\* and leaves every other user as it was.
LEMMA AdNextChange ==
    ASSUME AdTypeOK, AdNext
    PROVE  /\ usn' = usn + 1
           /\ \A g \in Guids : \/ ad'[g] = ad[g]
                               \/ ad'[g] # None /\ ad'[g].usn = usn + 1
<1>1. ASSUME NEW g \in Guids, NEW entry, entry \in Entry, Write(g, entry)
      PROVE  /\ usn' = usn + 1
             /\ \A h \in Guids : \/ ad'[h] = ad[h]
                                 \/ ad'[h] # None /\ ad'[h].usn = usn + 1
  <2>1. [entry EXCEPT !.usn = usn + 1] \in Entry
    BY <1>1 DEF Entry, AdTypeOK
  <2>2. [entry EXCEPT !.usn = usn + 1].usn = usn + 1
    BY <1>1 DEF Entry
  <2> QED BY <1>1, <2>1, <2>2, DirectoryAssumption DEF Write, AdTypeOK
<1>2. CASE \E gr \in Groups : RenameGroup(gr)
  BY <1>2 DEF RenameGroup
<1>3. CASE \E g \in Guids, entry \in Entry : Write(g, entry)
  BY <1>1, <1>3
<1> QED BY <1>2, <1>3, AdNextWrites

LEMMA AdStepMark == ASSUME TypeInv, MarkInv, AdStep PROVE MarkInv'
<1> USE DEF MarkInv
<1>1. /\ usn' = usn + 1 /\ usn \in Nat /\ hwm \in Nat /\ top \in Nat
      /\ \A g \in Guids : \/ ad'[g] = ad[g]
                          \/ ad'[g] # None /\ ad'[g].usn = usn + 1
  BY AdNextChange DEF AdStep, TypeInv, TypeOK, AdTypeOK
<1>2. UNCHANGED <<hwm, top, pc, full, dry, found, todo, cur, trouble, rows>>
  BY DEF AdStep, store, run, loops
<1>3. \A g \in Guids : ad[g] # None => ad[g].usn \in Nat
  BY DEF TypeInv, TypeOK, AdTypeOK, Entry
<1>4. UsnOK'
  BY <1>1, <1>2, <1>3 DEF UsnOK
<1>5. \A g \in Guids : ad'[g] # ad[g] => ~Covered(g)' /\ (Live(g)' => ~(ad'[g].usn <= hwm'))
  BY <1>1, <1>2 DEF UsnOK, Covered
<1>6. \A g \in Guids : ad'[g] = ad[g] =>
          /\ Covered(g)' = Covered(g)
          /\ Live(g)' = Live(g)
          /\ RowMatches(g)' = RowMatches(g)
  BY <1>2 DEF Covered, Live, Has, RowMatches, RowIs, Agree
<1>7. SearchOK'
  BY <1>2, <1>5, <1>6 DEF SearchOK
<1>8. ProcessedOK'
  BY <1>2, <1>5, <1>6 DEF ProcessedOK, Pending, Processing
<1>9. RemovalOK'
  BY <1>2, <1>5, <1>6 DEF RemovalOK, Doomed
<1>10. MarkedChangesStored'
  BY <1>2, <1>5, <1>6 DEF MarkedChangesStored
<1> QED BY <1>4, <1>7, <1>8, <1>9, <1>10

\* A run that starts has searched nothing yet.
LEMMA StartRunMark ==
    ASSUME TypeInv, MarkInv, NEW asked \in RunKinds, StartRun(asked) PROVE MarkInv'
<1> USE RunsAssumption DEF MarkInv
<1>1. /\ UNCHANGED <<ad, usn, hwm, rows, trouble>>
      /\ pc' = "search" /\ top' \in {0, hwm}
  BY DEF StartRun, adVars, store
<1>2. UsnOK'
  BY <1>1 DEF UsnOK, TypeInv, TypeOK, AdTypeOK
<1> QED
  BY <1>1, <1>2 DEF SearchOK, ProcessedOK, RemovalOK, Doomed, MarkedChangesStored, Live, Has,
                    RowMatches, RowIs, Agree

LEMMA ReadAllMark == ASSUME TypeInv, MarkInv, ReadAll PROVE MarkInv'
<1> USE RunsAssumption DEF MarkInv
<1> DEFINE low == IF full THEN 0 ELSE hwm
<1>1. /\ UNCHANGED <<ad, usn, hwm, rows, trouble, full>>
      /\ todo' = Search(low) /\ pc' = "users"
      /\ \A g \in Guids : found'[g] = IF g \in todo' THEN UserOf(g) ELSE None
  BY DEF ReadAll, SearchAtOnce, adVars, store
<1>2. hwm \in Nat /\ usn \in Nat /\ \A g \in Guids : ad[g] # None => ad[g].usn \in 1..usn
  BY DEF TypeInv, TypeOK, AdTypeOK, UsnOK
<1>3. top' \in Nat /\ top' <= usn
  BY <1>1, <1>2 DEF ReadAll, SearchAtOnce, Search, Live, Has, UsnOK
<1>4. UsnOK'
  BY <1>1, <1>3 DEF UsnOK
<1>5. \A g \in Guids : g \in todo' => found'[g] # None
  BY <1>1, UserOfType DEF Search, TypeInv, TypeOK
<1>6. \A g \in Guids : Live(g) /\ g \notin todo' => ad[g].usn <= hwm /\ ~full'
  BY <1>1, <1>2 DEF Search, Live, Has
<1>7. \A g \in Guids : Covered(g)' => Live(g)
  BY <1>1 DEF Covered, Live, Has
<1>8. SearchOK'
  <2>1. \A g \in Guids : found'[g] # None =>
            /\ found'[g].name = ad[g].name
            /\ found'[g].attr = ad[g].attr
            /\ found'[g].disabled = ad[g].disabled
    BY <1>1, UserOfType DEF Search, TypeInv, TypeOK
  <2>2. \A g \in Guids : Covered(g)' /\ found'[g] = None => ~full' /\ ad[g].usn <= hwm
    BY <1>5, <1>6, <1>7
  <2> QED BY <1>1, <2>1, <2>2 DEF SearchOK
<1>9. ProcessedOK'
  BY <1>1 DEF ProcessedOK, Pending, Processing
<1>10. RemovalOK' /\ MarkedChangesStored'
  BY <1>1 DEF RemovalOK, Doomed, MarkedChangesStored, Live, Has, RowMatches, RowIs, Agree
<1> QED BY <1>4, <1>8, <1>9, <1>10

\* The steps that change neither rows nor the mark: those a run takes between
\* two database writes.  A user they are done with must be in trouble.
LEMMA FrameMark ==
    ASSUME MarkInv, pc \notin {"idle", "search"}, pc' \notin {"idle", "search"},
           UNCHANGED <<ad, usn, hwm, top, found, rows, full, dry>>,
           trouble \subseteq trouble',
           \A g \in Guids : Pending(g) => dry \/ Pending(g)' \/ g \in trouble',
           \A g \in Guids : Doomed(g)' => Doomed(g) \/ ~Covered(g)
    PROVE  MarkInv'
<1> USE DEF MarkInv
<1>1. \A g \in Guids : /\ Covered(g)' = Covered(g)
                       /\ Live(g)' = Live(g)
                       /\ RowMatches(g)' = RowMatches(g)
  BY DEF Covered, Live, Has, RowMatches, RowIs, Agree
<1>2. UsnOK'
  BY DEF UsnOK
<1>3. SearchOK'
  BY <1>1 DEF SearchOK
<1>4. ProcessedOK'
  BY <1>1 DEF ProcessedOK
<1>5. RemovalOK'
  BY <1>1 DEF RemovalOK
<1>6. MarkedChangesStored'
  BY <1>1 DEF MarkedChangesStored
<1> QED BY <1>2, <1>3, <1>4, <1>5, <1>6

\* A covered user the run has an entry for matches its row once the row is
\* the entry.
LEMMA StoredMatches ==
    ASSUME SearchOK, pc \notin {"idle", "search"}, NEW g \in Guids, Covered(g), found[g] # None,
           rows[g] # None, rows[g].name = found[g].name, rows[g].attr = found[g].attr,
           rows[g].disabled = found[g].disabled
    PROVE  RowMatches(g)
BY DEF SearchOK, RowMatches, RowIs, Agree

LEMMA LookUpUserMark == ASSUME TypeInv, MarkInv, NEW g \in Guids, LookUpUser(g) PROVE MarkInv'
<1>1. /\ pc = "users" /\ g \in todo /\ todo' = todo \ {g} /\ found[g] # None
      /\ UNCHANGED <<ad, usn, hwm, top, found, rows, full, dry>>
  BY DEF LookUpUser, TypeInv, PhaseOK, Processing, adVars, store, run
<1>2. CASE Fault("store") /\ Failing(g) /\ UNCHANGED <<pc, cur>>
  BY <1>1, <1>2, FrameMark DEF Failing, Pending, Processing, Doomed
<1>3. CASE pc' = FirstStep(g) /\ pc' # "users" /\ cur' = g /\ UNCHANGED trouble
  <2>1. pc' \in {"create", "patch", "put"}
    BY <1>3 DEF FirstStep
  <2> QED BY <1>1, <1>3, <2>1, FrameMark DEF Pending, Processing, Doomed
<1>4. CASE pc' = FirstStep(g) /\ pc' = "users" /\ Settling(g) /\ UNCHANGED cur
  <2> USE DEF MarkInv
  <2>1. /\ rows[g] # None /\ rows[g].name = found[g].name /\ rows[g].attr = found[g].attr
        /\ rows[g].disabled = found[g].disabled
    BY <1>4 DEF FirstStep, ActiveChanged, AttributesChanged
  <2>2. Covered(g) => RowMatches(g)
    BY <1>1, <2>1, StoredMatches
  <2>3. \A h \in Guids : /\ Covered(h)' = Covered(h)
                         /\ Live(h)' = Live(h)
                         /\ RowMatches(h)' = RowMatches(h)
    BY <1>1 DEF Covered, Live, Has, RowMatches, RowIs, Agree
  <2>4. \A h \in Guids : h # g => (h \in trouble' <=> h \in trouble) /\ (Pending(h)' <=> Pending(h))
    BY <1>1, <1>4 DEF Settling, Pending, Processing
  <2>5. UsnOK' /\ SearchOK' /\ RemovalOK'
    BY <1>1, <1>4, <2>3 DEF UsnOK, SearchOK, RemovalOK, Doomed
  <2>6. ProcessedOK'
    BY <1>1, <2>2, <2>3, <2>4 DEF ProcessedOK
  <2>7. MarkedChangesStored'
    BY <1>1, <2>2, <2>3, <2>4 DEF MarkedChangesStored, Covered
  <2> QED BY <2>5, <2>6, <2>7
<1> QED BY <1>2, <1>3, <1>4 DEF LookUpUser

LEMMA UserRequestMark ==
    ASSUME TypeInv, MarkInv, pc \in {"create", "patch", "put"}, NEW first, NEW again,
           NEW next \in {"put", "upsert"}, UserRequest(first, again, next)
    PROVE  MarkInv'
<1>1. UNCHANGED <<ad, usn, hwm, top, found, rows, full, dry, todo>>
  BY DEF UserRequest, adVars, store, run
<1>2. CASE Proceed(next)
  BY <1>1, <1>2, FrameMark DEF Proceed, Pending, Processing, Doomed
<1>3. CASE GiveUp
  BY <1>1, <1>3, FrameMark DEF GiveUp, Failing, Pending, Processing, Doomed
<1> QED BY <1>2, <1>3 DEF UserRequest

LEMMA UserRequestsMark ==
    ASSUME TypeInv, MarkInv, CreateUser \/ PatchUserActive \/ UpdateUser
    PROVE  MarkInv'
BY UserRequestMark DEF CreateUser, PatchUserActive, UpdateUser

LEMMA UpsertUserMark == ASSUME TypeInv, MarkInv, UpsertUser PROVE MarkInv'
<1>1. /\ pc = "upsert" /\ pc' = "users" /\ cur \in Guids /\ found[cur] # None
      /\ UNCHANGED <<ad, usn, hwm, top, found, full, dry, todo>>
  BY DEF UpsertUser, TypeInv, PhaseOK, UserSteps, adVars, run
<1>2. CASE Failing(cur) /\ UNCHANGED rows
  BY <1>1, <1>2, FrameMark DEF Failing, Pending, Processing, Doomed
<1>3. CASE ~dry /\ rows' = [rows EXCEPT ![cur] = found[cur]] /\ Settling(cur)
  <2> USE DEF MarkInv
  <2>1. /\ rows'[cur] = found[cur]
        /\ \A h \in Guids : h # cur => rows'[h] = rows[h]
    BY <1>1, <1>3 DEF TypeInv, TypeOK
  <2>2. \A h \in Guids : Covered(h)' = Covered(h) /\ Live(h)' = Live(h)
    BY <1>1 DEF Covered, Live, Has
  <2>3. \A h \in Guids : h = cur /\ Covered(h) => RowMatches(h)'
    BY <1>1, <2>1 DEF SearchOK, RowMatches, RowIs, Agree
  <2>4. \A h \in Guids : h # cur => /\ RowMatches(h)' = RowMatches(h)
                                    /\ h \in trouble' <=> h \in trouble
                                    /\ Pending(h)' <=> Pending(h)
    BY <1>1, <1>3, <2>1 DEF RowMatches, RowIs, Agree, Settling, Pending, Processing
  <2>5. UsnOK' /\ SearchOK' /\ RemovalOK'
    BY <1>1, <2>2 DEF UsnOK, SearchOK, RemovalOK, Doomed
  <2>6. ProcessedOK'
    BY <1>1, <2>2, <2>3, <2>4 DEF ProcessedOK
  <2>7. MarkedChangesStored'
    BY <1>1, <2>2, <2>3, <2>4 DEF MarkedChangesStored, Covered, UpsertUser
  <2> QED BY <2>5, <2>6, <2>7
<1> QED BY <1>2, <1>3 DEF UpsertUser, Written

LEMMA ListDeletionsMark == ASSUME TypeInv, MarkInv, ListDeletions PROVE MarkInv'
<1>1. /\ pc = "users" /\ todo = {} /\ pc' = "deletions"
      /\ UNCHANGED <<ad, usn, hwm, top, found, rows, full, dry, cur>>
      /\ trouble \subseteq trouble'
  BY DEF ListDeletions, adVars, store, run
<1>2. \A g \in Guids : g \in todo' => ~Covered(g)
  <2>1. \A g \in Missing : full => ~Covered(g)
    BY <1>1 DEF Missing, MarkInv, SearchOK
  <2>2. \A g \in Buried : ~Covered(g)
    BY DEF Buried, Tombstones, Covered, Live, Has
  <2> QED BY <2>1, <2>2 DEF ListDeletions, Departed
<1> QED BY <1>1, <1>2, FrameMark DEF Pending, Processing, Doomed

LEMMA DeletionsMark ==
    ASSUME TypeInv, MarkInv, NEW g \in Guids, RemoveUser(g) \/ SkipTombstone(g)
    PROVE  MarkInv'
<1>1. /\ pc = "deletions" /\ g \in todo /\ todo' = todo \ {g}
      /\ pc' = "deletions" \/ (pc' = "forget" /\ cur' = g)
      /\ UNCHANGED <<ad, usn, hwm, top, found, rows, full, dry>>
      /\ trouble \subseteq trouble'
  BY DEF RemoveUser, SkipTombstone, Failing, adVars, store, run
<1> QED BY <1>1, FrameMark DEF Pending, Processing, Doomed

LEMMA ForgetUserMark == ASSUME TypeInv, MarkInv, ForgetUser PROVE MarkInv'
<1>1. /\ pc = "forget" /\ pc' = "deletions" /\ cur \in Guids
      /\ UNCHANGED <<ad, usn, hwm, top, found, full, dry, todo>>
      /\ \A g \in Guids : g # cur => (g \in trouble' <=> g \in trouble)
  BY DEF ForgetUser, Written, Settling, Failing, TypeInv, PhaseOK, UserSteps, adVars, run
<1>2. CASE UNCHANGED rows /\ Failing(cur)
  BY <1>1, <1>2, FrameMark DEF Failing, Pending, Processing, Doomed
<1>3. CASE rows' = [rows EXCEPT ![cur] = None]
  <2> USE DEF MarkInv
  <2>1. \A h \in Guids : /\ Covered(h)' = Covered(h)
                         /\ Live(h)' = Live(h)
                         /\ h # cur => RowMatches(h)' = RowMatches(h)
    BY <1>1, <1>3 DEF TypeInv, TypeOK, Covered, Live, Has, RowMatches, RowIs, Agree
  <2>2. \A h \in Guids : h = cur => ~Covered(h)
    BY <1>1 DEF RemovalOK, Doomed
  <2>3. UsnOK' /\ SearchOK' /\ RemovalOK'
    BY <1>1, <2>1 DEF UsnOK, SearchOK, RemovalOK, Doomed
  <2>4. ProcessedOK'
    BY <1>1, <2>1, <2>2 DEF ProcessedOK, Pending, Processing
  <2>5. MarkedChangesStored'
    BY <1>1, <2>1, <2>2 DEF MarkedChangesStored, Covered, ForgetUser
  <2> QED BY <2>3, <2>4, <2>5
<1> QED BY <1>2, <1>3 DEF ForgetUser, Written

\* The group and membership loops touch neither users' rows nor the mark.
LEMMA GroupStepsMark ==
    ASSUME TypeInv, MarkInv,
           \/ SearchGroups \/ BeginMembership \/ LoadMembership \/ StoreMembers
           \/ \E gr \in Groups : SyncGroup(gr) \/ OpenGroup(gr)
           \/ \E g \in Guids : ChangeMember(g)
    PROVE  MarkInv'
<1>1. /\ pc \in {"deletions", "groups", "membership", "group", "member"}
      /\ pc' \in {"groups", "membership", "group", "member"}
  BY DEF SearchGroups, BeginMembership, LoadMembership, StoreMembers, SyncGroup,
         OpenGroup, ChangeMember
<1>2. UNCHANGED <<ad, usn, hwm, top, found, rows, full, dry, trouble>>
  BY DEF SearchGroups, BeginMembership, LoadMembership, StoreMembers, SyncGroup,
         OpenGroup, ChangeMember, adVars, store, run, loops
<1> QED BY <1>1, <1>2, FrameMark DEF Pending, Processing, Doomed

LEMMA CrashMark == ASSUME TypeInv, MarkInv, Crash \/ FailSearch PROVE MarkInv'
<1>1. pc' = "idle" /\ top' = 0 /\ UNCHANGED <<ad, usn, hwm, rows, trouble>>
  BY DEF Crash, FailSearch, DropLocals, adVars, store
<1>2. UsnOK'
  BY <1>1 DEF MarkInv, UsnOK, TypeInv, TypeOK, AdTypeOK
<1> QED
  BY <1>1, <1>2 DEF MarkInv, SearchOK, ProcessedOK, RemovalOK, Doomed,
                    MarkedChangesStored, Live, Has, RowMatches, RowIs, Agree

\* The mark moves to the largest number the search returned: everyone it then
\* covers was covered before, and the run is done with everyone.
LEMMA FinishRunMark == ASSUME TypeInv, MarkInv, FinishRun PROVE MarkInv'
<1> USE DEF MarkInv
<1>1. /\ pc = "group" /\ pc' = "idle" /\ top' = 0
      /\ UNCHANGED <<ad, usn, rows, trouble>>
  BY DEF FinishRun, AtEnd, DropLocals, adVars
<1>2. hwm' \in {hwm, top} /\ (hwm' # hwm => ~dry)
  BY DEF FinishRun, Written, NewMark
<1>3. usn \in Nat /\ hwm \in Nat /\ top \in Nat
  BY DEF TypeInv, TypeOK, AdTypeOK
<1>4. UsnOK'
  BY <1>1, <1>2, <1>3 DEF UsnOK
<1>5. \A g \in Guids : /\ Live(g)' = Live(g)
                       /\ RowMatches(g)' = RowMatches(g)
  BY <1>1 DEF Live, Has, RowMatches, RowIs, Agree
<1>6. ASSUME NEW g \in Guids, Live(g), ad[g].usn <= hwm'
      PROVE  g \in trouble \/ RowMatches(g)
  <2>1. CASE ad[g].usn <= hwm
    BY <1>6, <2>1 DEF MarkedChangesStored
  <2>2. CASE ~(ad[g].usn <= hwm)
    <3>1. hwm' = top /\ ~dry /\ Covered(g)
      BY <1>2, <1>6, <2>2 DEF Covered
    <3>2. found[g] # None
      BY <1>1, <2>2, <3>1 DEF SearchOK
    <3> QED BY <1>1, <3>1, <3>2 DEF ProcessedOK, Pending, Processing
  <2> QED BY <2>1, <2>2
<1>7. MarkedChangesStored'
  BY <1>1, <1>5, <1>6 DEF MarkedChangesStored
<1> QED BY <1>1, <1>4, <1>7 DEF SearchOK, ProcessedOK, RemovalOK, Doomed

LEMMA NextMark == ASSUME ~Paged, TypeInv, MarkInv, [Next]_vars PROVE MarkInv'
<1>1. CASE AdStep
  BY <1>1, AdStepMark
<1>2. CASE \E asked \in RunKinds : StartRun(asked)
  BY <1>2, StartRunMark
<1>3. CASE \E g \in Guids : LookUpUser(g) \/ RemoveUser(g) \/ SkipTombstone(g) \/ ChangeMember(g)
  BY <1>3, LookUpUserMark, DeletionsMark, GroupStepsMark
<1>4. CASE \E gr \in Groups : SyncGroup(gr) \/ OpenGroup(gr)
  BY <1>4, GroupStepsMark
<1>5. CASE CreateUser \/ PatchUserActive \/ UpdateUser \/ UpsertUser
  BY <1>5, UserRequestsMark, UpsertUserMark
<1>6. CASE ReadAll \/ ListDeletions \/ ForgetUser \/ FinishRun \/ FailSearch \/ Crash
  BY <1>6, ReadAllMark, ListDeletionsMark, ForgetUserMark, FinishRunMark, CrashMark
<1>7. CASE SearchGroups \/ BeginMembership \/ LoadMembership \/ StoreMembers
  BY <1>7, GroupStepsMark
<1>8. CASE UNCHANGED vars
  BY <1>8 DEF vars, adVars, apiVars, store, run, loops, MarkInv, UsnOK, SearchOK,
              ProcessedOK, RemovalOK, Doomed, Pending, Processing, Covered,
              MarkedChangesStored, Live, Has, RowMatches, RowIs, Agree
<1>9. ~EndSearch /\ \A g \in Guids : ~ReadEntry(g)
  BY DEF EndSearch, ReadEntry
<1> QED BY <1>1, <1>2, <1>3, <1>4, <1>5, <1>6, <1>7, <1>8, <1>9 DEF Next, Step

\* Whatever fails, dies or changes meanwhile, no change of a live user is left
\* behind by the high-water mark without being stored or logged as failed, in
\* a directory whose search fits one page.
THEOREM MarkCorrect == ASSUME ~Paged PROVE Spec => []MarkedChangesStored
<1>1. Init => TypeInv /\ MarkInv
  BY InitType, InitMark
<1>2. TypeInv /\ MarkInv /\ [Next]_vars => (TypeInv /\ MarkInv)'
  BY NextType, NextMark
<1>3. MarkInv => MarkedChangesStored
  BY DEF MarkInv
<1> QED BY <1>1, <1>2, <1>3, PTL DEF Spec

-----------------------------------------------------------------------------
(* No deletion is lost below the mark. *)

\* A deleted user whose tombstone the mark, or the mark to be, covers and who
\* still has a row.
Dead(g) == Has(g, "deleted") /\ (ad[g].usn <= hwm \/ ad[g].usn <= top) /\ rows[g] # None

\* A user the search returned and who is deleted now was deleted after it.
DeletedSinceOK ==
    pc \notin {"idle", "search"} =>
        \A g \in Guids : Has(g, "deleted") /\ found[g] # None =>
            ~(ad[g].usn <= hwm) /\ ~(ad[g].usn <= top)

\* Once the deletions are listed, the dead are on the list or in trouble.
RemovedOK ==
    pc \notin {"idle", "search"} /\ ~dry =>
        \A g \in Guids : Dead(g) => Processing \/ Doomed(g) \/ g \in trouble

DeletionInv == UsnOK /\ DeletedSinceOK /\ RemovedOK /\ MarkedDeletionsDone

LEMMA AdStepDeletion == ASSUME TypeInv, DeletionInv, AdStep PROVE DeletionInv'
<1> USE DEF DeletionInv
<1>1. /\ usn' = usn + 1 /\ usn \in Nat /\ hwm \in Nat /\ top \in Nat
      /\ \A g \in Guids : \/ ad'[g] = ad[g]
                          \/ ad'[g] # None /\ ad'[g].usn = usn + 1
  BY AdNextChange DEF AdStep, TypeInv, TypeOK, AdTypeOK
<1>2. UNCHANGED <<hwm, top, pc, full, dry, found, todo, cur, trouble, rows>>
  BY DEF AdStep, store, run, loops
<1>3. \A g \in Guids : ad[g] # None => ad[g].usn \in Nat
  BY DEF TypeInv, TypeOK, AdTypeOK, Entry
<1>4. UsnOK'
  BY <1>1, <1>2, <1>3 DEF UsnOK
<1>5. \A g \in Guids : ad'[g] # ad[g] => ~(ad'[g].usn <= hwm') /\ ~(ad'[g].usn <= top')
  BY <1>1, <1>2 DEF UsnOK
<1>6. \A g \in Guids : ad'[g] # ad[g] => ~Dead(g)' /\ ~(ad'[g].usn <= hwm')
  BY <1>1, <1>2, <1>5 DEF Dead
<1>7. \A g \in Guids : ad'[g] = ad[g] => Has(g, "deleted")' = Has(g, "deleted") /\ Dead(g)' = Dead(g)
  BY <1>2 DEF Has, Dead
<1>8. DeletedSinceOK'
  BY <1>2, <1>5, <1>7 DEF DeletedSinceOK
<1>9. RemovedOK'
  BY <1>2, <1>6, <1>7 DEF RemovedOK, Processing, Doomed
<1>10. MarkedDeletionsDone'
  BY <1>2, <1>6, <1>7 DEF MarkedDeletionsDone
<1> QED BY <1>4, <1>8, <1>9, <1>10

LEMMA StartRunDeletion ==
    ASSUME TypeInv, DeletionInv, NEW asked \in RunKinds, StartRun(asked) PROVE DeletionInv'
<1> USE DEF DeletionInv
<1>1. /\ UNCHANGED <<ad, usn, hwm, rows, trouble>>
      /\ pc' = "search" /\ top' \in {0, hwm}
  BY DEF StartRun, adVars, store
<1>2. UsnOK'
  BY <1>1 DEF UsnOK, TypeInv, TypeOK, AdTypeOK
<1> QED BY <1>1, <1>2 DEF DeletedSinceOK, RemovedOK, MarkedDeletionsDone, Has

LEMMA ReadAllDeletion == ASSUME TypeInv, DeletionInv, ReadAll PROVE DeletionInv'
<1> USE DEF DeletionInv
<1> DEFINE low == IF full THEN 0 ELSE hwm
<1>1. /\ UNCHANGED <<ad, usn, hwm, rows, trouble>>
      /\ todo' = Search(low) /\ pc' = "users"
      /\ \A g \in Guids : found'[g] = IF g \in todo' THEN UserOf(g) ELSE None
  BY DEF ReadAll, SearchAtOnce, adVars, store
<1>2. hwm \in Nat /\ usn \in Nat /\ \A g \in Guids : ad[g] # None => ad[g].usn \in 1..usn
  BY DEF TypeInv, TypeOK, AdTypeOK, UsnOK
<1>3. top' \in Nat /\ top' <= usn
  BY <1>1, <1>2 DEF ReadAll, SearchAtOnce, Search, Live, Has, UsnOK
<1>4. UsnOK'
  BY <1>1, <1>3 DEF UsnOK
<1>5. DeletedSinceOK'
  BY <1>1 DEF DeletedSinceOK, Search, Live, Has
<1>6. RemovedOK' /\ MarkedDeletionsDone'
  BY <1>1 DEF RemovedOK, Processing, MarkedDeletionsDone, Has
<1> QED BY <1>4, <1>5, <1>6

\* The steps between the search and the end of a run: no user without an entry
\* gets a row, and none of the dead is taken off the list without losing its
\* row or being in trouble.
LEMMA FrameDeletion ==
    ASSUME DeletionInv, pc \notin {"idle", "search"}, pc' \notin {"idle", "search"},
           UNCHANGED <<ad, usn, hwm, top, found, full, dry>>,
           \A g \in Guids : rows'[g] # None => rows[g] # None \/ found[g] # None,
           \A g \in Guids : g \in trouble /\ rows'[g] # None => g \in trouble' \/ found[g] # None,
           \A g \in Guids : Dead(g) /\ rows'[g] # None /\ (Processing \/ Doomed(g)) =>
               dry \/ g \in trouble' \/ Processing' \/ Doomed(g)'
    PROVE  DeletionInv'
<1> USE DEF DeletionInv
<1>1. \A g \in Guids : Has(g, "deleted")' = Has(g, "deleted")
  BY DEF Has
<1>2. UsnOK' /\ DeletedSinceOK'
  BY <1>1 DEF UsnOK, DeletedSinceOK
<1>3. \A g \in Guids : Dead(g)' => Dead(g) /\ found[g] = None
  BY <1>1 DEF Dead, DeletedSinceOK, UsnOK
<1>4. RemovedOK'
  BY <1>3 DEF RemovedOK, Dead
<1>5. MarkedDeletionsDone'
  BY <1>1, <1>3 DEF MarkedDeletionsDone, Dead
<1> QED BY <1>2, <1>4, <1>5

LEMMA UserStepsDeletion ==
    ASSUME TypeInv, DeletionInv,
           \/ \E g \in Guids : LookUpUser(g)
           \/ CreateUser \/ PatchUserActive \/ UpdateUser \/ UpsertUser
    PROVE  DeletionInv'
<1>1. CASE \E g \in Guids : LookUpUser(g)
  <2>1. PICK g \in Guids : LookUpUser(g)
    BY <1>1
  <2>2. /\ pc = "users" /\ Processing' /\ found[g] # None
        /\ UNCHANGED <<ad, usn, hwm, top, found, rows, full, dry>>
    BY <2>1 DEF LookUpUser, FirstStep, TypeInv, PhaseOK, Processing, adVars, store, run
  <2>3. \A h \in Guids : h # g /\ h \in trouble => h \in trouble'
    BY <2>1 DEF LookUpUser, Failing, Settling
  <2> QED BY <2>2, <2>3, FrameDeletion DEF Processing
<1>2. CASE CreateUser \/ PatchUserActive \/ UpdateUser
  <2>1. /\ pc \in {"create", "patch", "put"} /\ Processing' /\ trouble \subseteq trouble'
        /\ UNCHANGED <<ad, usn, hwm, top, found, rows, full, dry>>
    BY <1>2 DEF CreateUser, PatchUserActive, UpdateUser, UserRequest, GiveUp, Proceed,
                Failing, Processing, adVars, store, run
  <2> QED BY <2>1, FrameDeletion DEF Processing
<1>3. CASE UpsertUser
  <2>1. /\ pc = "upsert" /\ Processing' /\ cur \in Guids /\ found[cur] # None
        /\ UNCHANGED <<ad, usn, hwm, top, found, full, dry>>
    BY <1>3 DEF UpsertUser, TypeInv, PhaseOK, UserSteps, Processing, adVars, run
  <2>2. \A h \in Guids : h # cur => rows'[h] = rows[h] /\ (h \in trouble => h \in trouble')
    BY <1>3, <2>1 DEF UpsertUser, Written, Failing, Settling, TypeInv, TypeOK
  <2> QED BY <2>1, <2>2, FrameDeletion DEF Processing
<1> QED BY <1>1, <1>2, <1>3

\* A full search is past every user deleted before it, and an incremental run
\* looks for the tombstones above the old mark: those below are in trouble.
LEMMA ListDeletionsDeletion == ASSUME TypeInv, DeletionInv, ListDeletions PROVE DeletionInv'
<1> USE DEF DeletionInv
<1>1. /\ pc = "users" /\ pc' = "deletions"
      /\ UNCHANGED <<ad, usn, hwm, top, found, rows, full, dry>>
      /\ trouble \subseteq trouble'
      /\ todo' = Departed \/ dry \/ Departed \subseteq trouble'
  BY DEF ListDeletions, adVars, store, run
<1>2. ASSUME NEW g \in Guids, Dead(g)
      PROVE  g \in Departed \/ g \in trouble
  <2>1. CASE full
    BY <1>1, <1>2, <2>1 DEF Departed, Missing, Dead, DeletedSinceOK
  <2>2. CASE ~full /\ ad[g].usn <= hwm
    BY <1>2, <2>2 DEF Dead, MarkedDeletionsDone
  <2>3. CASE ~full /\ ~(ad[g].usn <= hwm)
    <3>1. ad[g].usn \in Nat /\ hwm \in Nat
      BY <1>2 DEF Dead, Has, UsnOK, TypeInv, TypeOK
    <3> QED BY <1>2, <2>3, <3>1 DEF Departed, Buried, Tombstones, Dead
  <2> QED BY <2>1, <2>2, <2>3
<1> QED BY <1>1, <1>2, FrameDeletion DEF Doomed

LEMMA RemovalsDeletion ==
    ASSUME TypeInv, DeletionInv,
           ForgetUser \/ \E g \in Guids : RemoveUser(g) \/ SkipTombstone(g)
    PROVE  DeletionInv'
<1>1. CASE ForgetUser
  <2>1. /\ pc = "forget" /\ pc' = "deletions" /\ cur \in Guids /\ ~Processing
        /\ UNCHANGED <<ad, usn, hwm, top, found, full, dry, todo>>
    BY <1>1 DEF ForgetUser, TypeInv, PhaseOK, UserSteps, Processing, adVars, run
  <2>2. /\ \A h \in Guids : h # cur => rows'[h] = rows[h] /\ (h \in trouble => h \in trouble')
        /\ \/ rows'[cur] = None
           \/ rows' = rows /\ trouble \subseteq trouble' /\ (dry \/ cur \in trouble')
    BY <1>1, <2>1 DEF ForgetUser, Written, Settling, Failing, TypeInv, TypeOK
  <2> QED BY <2>1, <2>2, FrameDeletion DEF Doomed
<1>2. CASE \E g \in Guids : RemoveUser(g) \/ SkipTombstone(g)
  <2>1. PICK g \in Guids : RemoveUser(g) \/ SkipTombstone(g)
    BY <1>2
  <2>2. /\ pc = "deletions" /\ todo' = todo \ {g} /\ ~Processing
        /\ UNCHANGED <<ad, usn, hwm, top, found, rows, full, dry>>
        /\ trouble \subseteq trouble'
    BY <2>1 DEF RemoveUser, SkipTombstone, Failing, Processing, adVars, store, run
  <2>3. \/ pc' = "forget" /\ cur' = g
        \/ pc' = "deletions" /\ (dry \/ g \in trouble')
    BY <2>1, <2>2 DEF RemoveUser, SkipTombstone, Failing
  <2> QED BY <2>2, <2>3, FrameDeletion DEF Doomed
<1> QED BY <1>1, <1>2

LEMMA GroupStepsDeletion ==
    ASSUME TypeInv, DeletionInv,
           \/ SearchGroups \/ BeginMembership \/ LoadMembership \/ StoreMembers
           \/ \E gr \in Groups : SyncGroup(gr) \/ OpenGroup(gr)
           \/ \E g \in Guids : ChangeMember(g)
    PROVE  DeletionInv'
<1>1. /\ pc \in {"deletions", "groups", "membership", "group", "member"}
      /\ pc = "deletions" => todo = {}
      /\ pc' \in {"groups", "membership", "group", "member"}
  BY DEF SearchGroups, BeginMembership, LoadMembership, StoreMembers, SyncGroup,
         OpenGroup, ChangeMember
<1>2. UNCHANGED <<ad, usn, hwm, top, found, rows, full, dry, trouble>>
  BY DEF SearchGroups, BeginMembership, LoadMembership, StoreMembers, SyncGroup,
         OpenGroup, ChangeMember, adVars, store, run, loops
<1> QED BY <1>1, <1>2, FrameDeletion DEF Processing, Doomed

LEMMA EndsDeletion ==
    ASSUME TypeInv, DeletionInv, FinishRun \/ FailSearch \/ Crash
    PROVE  DeletionInv'
<1> USE DEF DeletionInv
<1>1. /\ pc' = "idle" /\ top' = 0 /\ UNCHANGED <<ad, usn, rows, trouble>>
      /\ hwm' = hwm \/ (hwm' = top /\ ~dry /\ pc = "group")
  BY DEF FinishRun, AtEnd, NewMark, Written, FailSearch, Crash, DropLocals, adVars, store
<1>2. UsnOK'
  BY <1>1 DEF UsnOK, TypeInv, TypeOK, AdTypeOK
<1>3. MarkedDeletionsDone'
  BY <1>1 DEF MarkedDeletionsDone, Has, RemovedOK, Dead, Processing, Doomed
<1> QED BY <1>1, <1>2, <1>3 DEF DeletedSinceOK, RemovedOK

LEMMA NextDeletion == ASSUME ~Paged, TypeInv, DeletionInv, [Next]_vars PROVE DeletionInv'
<1>1. CASE AdStep
  BY <1>1, AdStepDeletion
<1>2. CASE \E asked \in RunKinds : StartRun(asked)
  BY <1>2, StartRunDeletion
<1>3. CASE \E g \in Guids : LookUpUser(g) \/ RemoveUser(g) \/ SkipTombstone(g) \/ ChangeMember(g)
  BY <1>3, UserStepsDeletion, RemovalsDeletion, GroupStepsDeletion
<1>4. CASE \E gr \in Groups : SyncGroup(gr) \/ OpenGroup(gr)
  BY <1>4, GroupStepsDeletion
<1>5. CASE CreateUser \/ PatchUserActive \/ UpdateUser \/ UpsertUser
  BY <1>5, UserStepsDeletion
<1>6. CASE ReadAll \/ ListDeletions \/ ForgetUser
  BY <1>6, ReadAllDeletion, ListDeletionsDeletion, RemovalsDeletion
<1>7. CASE FinishRun \/ FailSearch \/ Crash
  BY <1>7, EndsDeletion
<1>8. CASE SearchGroups \/ BeginMembership \/ LoadMembership \/ StoreMembers
  BY <1>8, GroupStepsDeletion
<1>9. CASE UNCHANGED vars
  BY <1>9 DEF vars, adVars, apiVars, store, run, loops, DeletionInv, UsnOK, DeletedSinceOK,
              RemovedOK, Doomed, Processing, Dead, MarkedDeletionsDone, Has
<1>10. ~EndSearch /\ \A g \in Guids : ~ReadEntry(g)
  BY DEF EndSearch, ReadEntry
<1> QED BY <1>1, <1>2, <1>3, <1>4, <1>5, <1>6, <1>7, <1>8, <1>9, <1>10 DEF Next, Step

\* Whatever fails or dies, no deleted user keeps a row below the mark unless
\* the removal failed in a run.
THEOREM DeletionsCorrect == ASSUME ~Paged PROVE Spec => []MarkedDeletionsDone
<1>1. Init => TypeInv /\ DeletionInv
  <2>1. ASSUME Init PROVE DeletionInv
    BY <2>1 DEF Init, AdInit, DeletionInv, UsnOK, DeletedSinceOK, RemovedOK,
                MarkedDeletionsDone, Has
  <2> QED BY <2>1, InitType
<1>2. TypeInv /\ DeletionInv /\ [Next]_vars => (TypeInv /\ DeletionInv)'
  BY NextType, NextDeletion
<1>3. DeletionInv => MarkedDeletionsDone
  BY DEF DeletionInv
<1> QED BY <1>1, <1>2, <1>3, PTL DEF Spec

-----------------------------------------------------------------------------
(* A full run leaves no difference that nothing tells of. *)

InFullRun == full /\ ~dry /\ pc \notin {"idle", "search"}

\* Those the run found and is done with are stored as found, or in trouble.
HandledOK ==
    InFullRun => \A g \in Guids \ trouble :
        found[g] # None /\ ~Pending(g) => RowIs(g, found[g])

\* Once the removals are listed, who was not found is on the list, has no row
\* or is in trouble.
LeftOverOK ==
    InFullRun /\ ~Processing => \A g \in Guids \ trouble :
        found[g] = None /\ rows[g] # None => Doomed(g)

\* Nobody who was found is on the list.
DoomedMissing == full => \A g \in Guids : Doomed(g) => found[g] = None

StoresInv == HandledOK /\ LeftOverOK /\ DoomedMissing

\* A step that neither reads nor writes a user may finish with one in trouble.
LEMMA FrameStores ==
    ASSUME StoresInv, UNCHANGED <<rows, found, full, dry>>, trouble \subseteq trouble',
           InFullRun' => InFullRun, InFullRun' /\ Processing => Processing',
           \A g \in Guids : Pending(g) => Pending(g)' \/ g \in trouble' \/ ~InFullRun',
           \A g \in Guids : Doomed(g) => Doomed(g)' \/ g \in trouble' \/ ~InFullRun',
           \A g \in Guids : Doomed(g)' => Doomed(g)
    PROVE  StoresInv'
<1>1. \A g \in Guids : RowIs(g, found[g])' = RowIs(g, found[g])
  BY DEF RowIs, Agree
<1>2. HandledOK'
  BY <1>1 DEF StoresInv, HandledOK
<1>3. LeftOverOK'
  BY DEF StoresInv, LeftOverOK
<1>4. DoomedMissing'
  BY DEF StoresInv, DoomedMissing
<1> QED BY <1>2, <1>3, <1>4 DEF StoresInv

\* The search: all users found are still to be looked at.
LEMMA SearchStores ==
    ASSUME \/ \E asked \in RunKinds : StartRun(asked)
           \/ ReadAll \/ EndSearch \/ \E g \in Guids : ReadEntry(g)
    PROVE  StoresInv'
<1>1. /\ pc' \in {"search", "users"}
      /\ pc' = "users" => \A g \in Guids : found'[g] # None => g \in todo'
  <2>1. CASE \E asked \in RunKinds : StartRun(asked)
    BY <2>1 DEF StartRun
  <2>2. CASE ReadAll
    BY <2>2 DEF ReadAll, SearchAtOnce
  <2>3. CASE EndSearch
    BY <2>3 DEF EndSearch, run
  <2>4. CASE \E g \in Guids : ReadEntry(g)
    BY <2>4 DEF ReadEntry
  <2> QED BY <2>1, <2>2, <2>3, <2>4
<1> QED BY <1>1 DEF StoresInv, HandledOK, LeftOverOK, DoomedMissing, InFullRun, Pending,
                    Processing, Doomed

LEMMA LookUpUserStores ==
    ASSUME StoresInv, NEW g \in Guids, LookUpUser(g) PROVE StoresInv'
<1>1. /\ pc = "users" /\ g \in todo /\ todo' = todo \ {g}
      /\ UNCHANGED <<found, rows, full, dry>>
  BY DEF LookUpUser, store, run
<1>2. CASE Fault("store") /\ Failing(g) /\ UNCHANGED <<pc, cur>>
  BY <1>1, <1>2, FrameStores DEF Failing, Pending, Processing, Doomed, InFullRun
<1>3. CASE pc' = FirstStep(g) /\ pc' # "users" /\ cur' = g /\ UNCHANGED trouble
  <2>1. pc' \in {"create", "patch", "put"}
    BY <1>3 DEF FirstStep
  <2> QED BY <1>1, <1>3, <2>1, FrameStores DEF Pending, Processing, Doomed, InFullRun
<1>4. CASE pc' = FirstStep(g) /\ pc' = "users" /\ Settling(g) /\ UNCHANGED cur
  <2>1. RowIs(g, found[g])'
    BY <1>1, <1>4 DEF FirstStep, ActiveChanged, AttributesChanged, RowIs, Agree
  <2>2. \A h \in Guids : h # g => /\ Pending(h)' <=> Pending(h)
                                  /\ h \in trouble' <=> h \in trouble
                                  /\ RowIs(h, found[h])' <=> RowIs(h, found[h])
    BY <1>1, <1>4 DEF Settling, Pending, Processing, RowIs, Agree
  <2>3. HandledOK'
    BY <1>1, <1>4, <2>1, <2>2 DEF StoresInv, HandledOK, InFullRun
  <2> QED BY <1>4, <2>3 DEF StoresInv, LeftOverOK, DoomedMissing, Processing, Doomed
<1> QED BY <1>2, <1>3, <1>4 DEF LookUpUser

\* A request that fails leaves the user in trouble, one that does not pending.
LEMMA UserRequestStores ==
    ASSUME StoresInv, CreateUser \/ PatchUserActive \/ UpdateUser PROVE StoresInv'
<1>1. /\ pc \in {"create", "patch", "put"} /\ UNCHANGED <<rows, found, full, dry, todo>>
      /\ \/ pc' = "users" /\ Failing(cur)
         \/ pc' \in {"put", "upsert"} /\ UNCHANGED <<cur, trouble>>
  BY DEF CreateUser, PatchUserActive, UpdateUser, UserRequest, Proceed, GiveUp, store, run
<1> QED BY <1>1, FrameStores DEF Failing, Pending, Processing, Doomed, InFullRun

LEMMA UpsertUserStores == ASSUME TypeInv, StoresInv, UpsertUser PROVE StoresInv'
<1>1. /\ pc = "upsert" /\ pc' = "users" /\ cur \in Guids /\ found[cur] # None
      /\ UNCHANGED <<found, full, dry, todo>>
  BY DEF UpsertUser, TypeInv, PhaseOK, UserSteps, run
<1>2. CASE Failing(cur) /\ UNCHANGED rows
  BY <1>1, <1>2, FrameStores DEF Failing, Pending, Processing, Doomed, InFullRun
<1>3. CASE rows' = [rows EXCEPT ![cur] = found[cur]] /\ Settling(cur)
  <2>1. \A h \in Guids : rows'[h] = IF h = cur THEN found[cur] ELSE rows[h]
    BY <1>1, <1>3 DEF TypeInv, TypeOK
  <2>2. \A h \in Guids : h = cur => RowIs(h, found[h])'
    BY <1>1, <2>1 DEF RowIs, Agree
  <2>3. \A h \in Guids : h # cur => /\ Pending(h)' <=> Pending(h)
                                    /\ h \in trouble' <=> h \in trouble
                                    /\ RowIs(h, found[h])' <=> RowIs(h, found[h])
    BY <1>1, <1>3, <2>1 DEF Settling, Pending, Processing, RowIs, Agree
  <2>4. HandledOK'
    BY <1>1, <2>2, <2>3 DEF StoresInv, HandledOK, InFullRun
  <2> QED BY <1>1, <2>4 DEF StoresInv, LeftOverOK, DoomedMissing, Processing, Doomed
<1> QED BY <1>2, <1>3 DEF UpsertUser, Written

\* The users are done with; who was not found is listed or in trouble.
LEMMA ListDeletionsStores == ASSUME StoresInv, ListDeletions PROVE StoresInv'
<1>1. /\ pc = "users" /\ todo = {} /\ pc' = "deletions"
      /\ UNCHANGED <<found, rows, full, dry>> /\ trouble \subseteq trouble'
      /\ full => todo' = Missing \/ (todo' = {} /\ (dry \/ Missing \subseteq trouble'))
  BY DEF ListDeletions, Departed, store, run
<1>2. \A g \in Guids : RowIs(g, found[g])' <=> RowIs(g, found[g])
  BY <1>1 DEF RowIs, Agree
<1>3. HandledOK'
  BY <1>1, <1>2 DEF StoresInv, HandledOK, InFullRun, Pending, Processing
<1>4. LeftOverOK'
  BY <1>1 DEF LeftOverOK, InFullRun, Doomed, Missing
<1>5. DoomedMissing'
  BY <1>1 DEF DoomedMissing, Doomed, Missing
<1> QED BY <1>3, <1>4, <1>5 DEF StoresInv

\* A removal that fails leaves the user in trouble.
LEMMA RemovalsStores ==
    ASSUME TypeInv, StoresInv,
           ForgetUser \/ \E g \in Guids : RemoveUser(g) \/ SkipTombstone(g)
    PROVE  StoresInv'
<1>1. CASE \E g \in Guids : RemoveUser(g) \/ SkipTombstone(g)
  <2>1. PICK g \in Guids : RemoveUser(g) \/ SkipTombstone(g)
    BY <1>1
  <2>2. /\ pc = "deletions" /\ g \in todo /\ todo' = todo \ {g}
        /\ UNCHANGED <<rows, found, full, dry>>
        /\ \/ pc' = "deletions" /\ Failing(g)
           \/ pc' = "forget" /\ cur' = g /\ UNCHANGED trouble
    BY <2>1 DEF RemoveUser, SkipTombstone, store, run
  <2> QED BY <2>2, FrameStores DEF Failing, Pending, Processing, Doomed, InFullRun
<1>2. CASE ForgetUser
  <2>1. /\ pc = "forget" /\ pc' = "deletions" /\ cur \in Guids
        /\ UNCHANGED <<found, full, dry, todo>>
    BY <1>2 DEF ForgetUser, TypeInv, PhaseOK, UserSteps, run
  <2>2. CASE UNCHANGED rows /\ Failing(cur)
    BY <2>1, <2>2, FrameStores DEF Failing, Pending, Processing, Doomed, InFullRun
  <2>3. CASE rows' = [rows EXCEPT ![cur] = None] /\ Settling(cur)
    <3>1. \A h \in Guids : rows'[h] = IF h = cur THEN None ELSE rows[h]
      BY <2>1, <2>3 DEF TypeInv, TypeOK
    <3>2. full => found[cur] = None
      BY <2>1 DEF StoresInv, DoomedMissing, Doomed
    <3>3. \A h \in Guids : h # cur => /\ h \in trouble' <=> h \in trouble
                                      /\ RowIs(h, found[h])' <=> RowIs(h, found[h])
      BY <2>1, <2>3, <3>1 DEF Settling, RowIs, Agree
    <3>4. HandledOK'
      BY <2>1, <3>2, <3>3 DEF StoresInv, HandledOK, InFullRun, Pending, Processing
    <3>5. LeftOverOK'
      BY <2>1, <3>1, <3>3 DEF StoresInv, LeftOverOK, InFullRun, Processing, Doomed
    <3> QED BY <2>1, <3>4, <3>5 DEF StoresInv, DoomedMissing, Doomed
  <2> QED BY <1>2, <2>2, <2>3 DEF ForgetUser, Written
<1> QED BY <1>1, <1>2

LEMMA GroupStepsStores ==
    ASSUME StoresInv,
           \/ \E gr \in Groups : SyncGroup(gr) \/ OpenGroup(gr)
           \/ \E g \in Guids : ChangeMember(g)
           \/ SearchGroups \/ BeginMembership \/ LoadMembership \/ StoreMembers
    PROVE  StoresInv'
<1>1. /\ UNCHANGED <<rows, found, full, dry, trouble>>
      /\ \/ pc \in {"groups", "membership", "group", "member"}
         \/ pc = "deletions" /\ todo = {}
      /\ pc' \in {"groups", "membership", "group", "member"}
  BY DEF SyncGroup, OpenGroup, ChangeMember, SearchGroups, BeginMembership, LoadMembership,
         StoreMembers, store, run, loops
<1> QED BY <1>1, FrameStores DEF Pending, Processing, Doomed, InFullRun

LEMMA NextStores == ASSUME TypeInv, StoresInv, [Next]_vars PROVE StoresInv'
<1>1. CASE AdStep \/ UNCHANGED vars
  <2>1. UNCHANGED <<rows, found, full, dry, trouble, pc, todo, cur>>
    BY <1>1 DEF AdStep, vars, store, run, loops
  <2> QED BY <2>1, FrameStores DEF Pending, Processing, Doomed, InFullRun
<1>2. CASE \/ \E asked \in RunKinds : StartRun(asked)
           \/ ReadAll \/ EndSearch \/ \E g \in Guids : ReadEntry(g)
  BY <1>2, SearchStores
<1>3. CASE \E g \in Guids : LookUpUser(g)
  BY <1>3, LookUpUserStores
<1>4. CASE CreateUser \/ PatchUserActive \/ UpdateUser
  BY <1>4, UserRequestStores
<1>5. CASE UpsertUser \/ ListDeletions
  BY <1>5, UpsertUserStores, ListDeletionsStores
<1>6. CASE ForgetUser \/ \E g \in Guids : RemoveUser(g) \/ SkipTombstone(g)
  BY <1>6, RemovalsStores
<1>7. CASE \/ \E gr \in Groups : SyncGroup(gr) \/ OpenGroup(gr)
           \/ \E g \in Guids : ChangeMember(g)
           \/ SearchGroups \/ BeginMembership \/ LoadMembership \/ StoreMembers
  BY <1>7, GroupStepsStores
<1>8. CASE FinishRun \/ FailSearch \/ Crash
  BY <1>8 DEF FinishRun, FailSearch, Crash, DropLocals, StoresInv, HandledOK, LeftOverOK,
              DoomedMissing, InFullRun, Doomed
<1> QED BY <1>1, <1>2, <1>3, <1>4, <1>5, <1>6, <1>7, <1>8 DEF Next, Step

\* Whatever fails, and of however many pages the search, a full run that gets
\* to its end leaves the users table as it found the directory, but for users
\* whose processing or removal was logged as failed.
THEOREM FullRunCorrect == Spec => []FullRunStores
<1>1. Init => TypeInv /\ StoresInv
  BY InitType DEF Init, StoresInv, HandledOK, LeftOverOK, DoomedMissing, InFullRun, Doomed
<1>2. TypeInv /\ StoresInv /\ [Next]_vars => (TypeInv /\ StoresInv)'
  BY NextType, NextStores
<1>3. StoresInv => FullRunStores
  BY DEF StoresInv, HandledOK, LeftOverOK, InFullRun, FullRunStores, AtEnd, Pending,
         Processing, Doomed
<1> QED BY <1>1, <1>2, <1>3, PTL DEF Spec

-----------------------------------------------------------------------------
(* Dry runs. *)

\* A dry run sends no request and writes neither a row nor the mark, whatever
\* it finds; all it may write is last_error, when its search fails.
THEOREM DryRunCorrect == Spec => DryRunTouchesNothing
<1> USE DEF apiVars, store
<1> DEFINE Spared == UNCHANGED <<apiVars, rows, groupRows, hwm>>
<1> DEFINE Told == UNCHANGED lastError \/ (pc = "search" /\ lastError' = "search")
<1>1. ASSUME NEW first, NEW again, NEW status, dry, Request(first, again, status)
      PROVE  UNCHANGED accounts
  BY <1>1 DEF Request
<1>2. ASSUME dry, [Next]_vars
      PROVE  Spared /\ Told
  <2>1. CASE AdStep \/ UNCHANGED vars
    BY <2>1 DEF AdStep, vars
  <2>2. CASE ReadAll \/ EndSearch \/ FailSearch \/ \E asked \in RunKinds : StartRun(asked)
    BY <2>2 DEF StartRun, ReadAll, EndSearch, FailSearch, SetLastError
  <2>3. CASE \E g \in Guids : ReadEntry(g) \/ LookUpUser(g) \/ RemoveUser(g)
                                  \/ SkipTombstone(g) \/ ChangeMember(g)
    BY <1>1, <1>2, <2>3 DEF ReadEntry, LookUpUser, RemoveUser, SkipTombstone, ChangeMember
  <2>4. CASE \E gr \in Groups : SyncGroup(gr) \/ OpenGroup(gr)
    BY <1>2, <2>4 DEF SyncGroup, CreateGroup, RenameRow, Written, OpenGroup
  <2>5. CASE CreateUser \/ PatchUserActive \/ UpdateUser
    BY <1>1, <1>2, <2>5 DEF CreateUser, PatchUserActive, UpdateUser, UserRequest
  <2>6. CASE UpsertUser \/ ForgetUser \/ StoreMembers \/ FinishRun
    BY <1>2, <2>6 DEF UpsertUser, ForgetUser, StoreMembers, FinishRun, Written
  <2>7. CASE ListDeletions \/ SearchGroups \/ BeginMembership \/ LoadMembership \/ Crash
    BY <2>7 DEF ListDeletions, SearchGroups, BeginMembership, LoadMembership, Crash
  <2> QED BY <1>2, <2>1, <2>2, <2>3, <2>4, <2>5, <2>6, <2>7 DEF Next, Step
<1>3. [Next]_vars => [dry => Spared /\ Told]_vars
  BY <1>2
<1> QED BY <1>3, PTL DEF Spec, DryRunTouchesNothing
=============================================================================
