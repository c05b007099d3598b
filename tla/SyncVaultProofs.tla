--------------------------- MODULE SyncVaultProofs ---------------------------
(***************************************************************************)
(* Whom the vaults open to: membership requests reach the account of the   *)
(* identity they are meant for, and a name remembered as a member has been *)
(* added.  Each is proved under one of two hypotheses: Reliable (any       *)
(* renames, deletions and restorations, every answer and write arrives) or *)
(* NamesKept (whatever is lost, fails or dies, but usernames stay with     *)
(* their holders).                                                         *)
(***************************************************************************)
EXTENDS SyncKeptProofs

-----------------------------------------------------------------------------
(* The membership loop. *)

\* The loop addresses each row's own account.
RowsOwn ==
    pc = "member" =>
        \A g \in Guids : rows[g] # None =>
            accounts[rows[g].name] # None /\ accounts[rows[g].name].ext = g

LEMMA KeptRowsOwn == KeptInv => RowsOwn
<1> SUFFICES ASSUME KeptInv, NEW g \in Guids, rows[g] # None
             PROVE  accounts[rows[g].name] # None /\ accounts[rows[g].name].ext = g
  BY DEF RowsOwn
<1>1. accounts[rows[g].name] # None /\ Holds(g, rows[g].name) /\ rows[g].name \in Names
  BY DEF KeptInv, RowsHaveAccounts, NamesOK, TypeInv, TypeOK, UserData
<1>2. accounts[rows[g].name].ext \in Guids
  BY <1>1 DEF KeptInv, TypeInv, TypeOK, ApiTypeOK, Account
<1> QED BY <1>1, <1>2 DEF KeptInv, NamesOK, HoldersOK, Holds

\* Either hypothesis makes the membership loop address the right accounts.
LEMMA RowsOwnCorrect == ASSUME Reliable \/ NamesKept PROVE Spec => [](TypeInv /\ RowsOwn)
<1>1. CASE Reliable
  <2>1. Init => TrackInv
    BY InitType DEF Init, ApiInit, TrackInv, RowsTrackAccounts, Settled, StageOK
  <2>2. TrackInv /\ [Next]_vars => TrackInv'
    BY <1>1, NextTrack
  <2>3. TrackInv => TypeInv /\ RowsOwn
    BY QuietInStep DEF TrackInv, Quiet, InStep, RowsOwn, AccountIs
  <2> QED BY <2>1, <2>2, <2>3, PTL DEF Spec
<1>2. CASE NamesKept
  <2>1. Init => KeptInv
    BY InitKept
  <2>2. KeptInv /\ [Next]_vars => KeptInv'
    BY <1>2, NextKept
  <2>3. KeptInv => TypeInv /\ RowsOwn
    BY KeptRowsOwn DEF KeptInv
  <2> QED BY <2>1, <2>2, <2>3, PTL DEF Spec
<1> QED BY <1>1, <1>2

\* Accounts that are there before and after keep their vaults.
SameVaults(accts, made) ==
    \A n \in Names : accts[n] # None /\ made[n] # None => made[n].vaults = accts[n].vaults

\* A request about a user leaves the vaults of every account that stays alone.
LEMMA UserRepliesKeepVaults ==
    ASSUME NEW accts \in AccountMap, NEW g \in Guids, NEW u \in UserData, NEW n \in Names
    PROVE  /\ SameVaults(accts, PostUser(accts, g, u).accounts)
           /\ SameVaults(accts, PutUser(accts, n, g, u).accounts)
           /\ \A active \in BOOLEAN : SameVaults(accts, PatchActive(accts, n, active).accounts)
           /\ SameVaults(accts, DeleteAccount(accts, n).accounts)
<1>1. \A m \in Names : accts[m] # None => accts[m] \in Account /\ accts[m].vaults \in SUBSET Groups
  BY DEF AccountMap, Account
<1>2. u.name \in Names
  BY DEF UserData
<1>3. \A vs \in SUBSET Groups : [NewAccount(g, u) EXCEPT !.vaults = vs].vaults = vs
  BY NewAccountIs DEF NewAccount
<1>4. SameVaults(accts, PostUser(accts, g, u).accounts)
  BY <1>1, <1>2, <1>3 DEF AccountMap, PostUser, Answer, SameVaults
<1>5. SameVaults(accts, PutUser(accts, n, g, u).accounts)
  BY <1>1, <1>2, <1>3 DEF AccountMap, PutUser, Answer, SameVaults
<1>6. ASSUME NEW active \in BOOLEAN
      PROVE  SameVaults(accts, PatchActive(accts, n, active).accounts)
  <2>1. accts[n] # None => [accts[n] EXCEPT !.active = active].vaults = accts[n].vaults
    BY <1>1 DEF Account
  <2> QED BY <2>1 DEF AccountMap, PatchActive, Answer, SameVaults
<1>7. SameVaults(accts, DeleteAccount(accts, n).accounts)
  BY DEF AccountMap, DeleteAccount, Answer, SameVaults
<1> QED BY <1>4, <1>5, <1>6, <1>7

\* All steps but the membership requests leave the vaults of accounts that stay.
LEMMA OtherStepsKeepVaults ==
    ASSUME TypeInv, [Next]_vars, ~\E g \in Guids : ChangeMember(g)
    PROVE  SameVaults(accounts, accounts')
<1>1. CASE accounts' = accounts
  BY <1>1 DEF SameVaults
<1>2. CASE CreateUser
  <2>1. CurTypes
    BY <1>2, CurTyped DEF CreateUser
  <2>2. accounts' = accounts \/ accounts' = PostUser(accounts, cur, found[cur]).accounts
    BY <1>2 DEF CreateUser, UserRequest, Request
  <2> QED BY <1>1, <2>1, <2>2, UserRepliesKeepVaults DEF CurTypes
<1>3. CASE UpdateUser
  <2>1. CurTypes /\ rows[cur] # None
    BY <1>3, CurTyped DEF UpdateUser, TypeInv, PhaseOK
  <2>2. \/ accounts' = accounts
        \/ accounts' = PutUser(accounts, rows[cur].name, cur, found[cur]).accounts
    BY <1>3 DEF UpdateUser, UserRequest, Request
  <2> QED BY <1>1, <2>1, <2>2, UserRepliesKeepVaults DEF CurTypes
<1>4. CASE PatchUserActive
  <2>1. CurTypes /\ rows[cur] # None /\ (~found[cur].disabled) \in BOOLEAN
    BY <1>4, CurTyped DEF PatchUserActive, TypeInv, PhaseOK, CurTypes, UserData
  <2>2. \/ accounts' = accounts
        \/ accounts' = PatchActive(accounts, rows[cur].name, ~found[cur].disabled).accounts
    BY <1>4 DEF PatchUserActive, UserRequest, Request
  <2> QED BY <1>1, <2>1, <2>2, UserRepliesKeepVaults DEF CurTypes
<1>5. CASE \E g \in Guids : RemoveUser(g)
  <2>1. PICK g \in Guids : RemoveUser(g)
    BY <1>5
  <2>2. rows[g] \in UserData /\ rows[g].name \in Names /\ accounts \in AccountMap
    BY <2>1 DEF RemoveUser, TypeInv, TypeOK, PhaseOK, ApiTypeOK, AccountMap, UserData
  <2>3. accounts' = accounts \/ accounts' = DeleteAccount(accounts, rows[g].name).accounts
    BY <2>1 DEF RemoveUser, Request
  <2> QED BY <1>1, <2>1, <2>2, <2>3, UserRepliesKeepVaults
<1>6. CASE ~(\/ CreateUser \/ UpdateUser \/ PatchUserActive
             \/ \E g \in Guids : RemoveUser(g))
  <2>1. accounts' = accounts
    BY <1>6 DEF Next, vars, Step, AdStep, StartRun, ReadAll, EndSearch, ReadEntry, LookUpUser,
           SkipTombstone, SyncGroup, OpenGroup, UpsertUser, ListDeletions, ForgetUser,
           SearchGroups, BeginMembership, LoadMembership, StoreMembers, FinishRun, FailSearch,
           Crash, apiVars
  <2> QED BY <1>1, <2>1
<1> QED BY <1>2, <1>3, <1>4, <1>5, <1>6

\* Every membership request reaches the account of the identity whose row asks
\* for it and puts it right, whatever the groups row remembers and whichever
\* requests are refused: whatever renames, deletions and reuse of names there
\* are when nothing is lost (Reliable), and whatever is lost, fails or dies
\* when usernames stay with their holders (NamesKept).
THEOREM MembershipCorrect ==
    ASSUME Reliable \/ NamesKept PROVE Spec => MembershipFollowsRows
<1> DEFINE Follows(n, gr) ==
        LET g == accounts[n].ext
            before == gr \in accounts[n].vaults
            after == gr \in accounts'[n].vaults
        IN  accounts[n] # None /\ accounts'[n] # None
                /\ accounts'[n].ext = g /\ before # after =>
              /\ rows[g] # None /\ groupRows[gr] # None
              /\ after = (groupRows[gr].cn \in rows[g].memberOf)
           All == \A n \in Names, gr \in Groups : Follows(n, gr)
<1>1. ASSUME TypeInv, RowsOwn, [Next]_vars PROVE All
  <2>1. CASE ~\E g \in Guids : ChangeMember(g)
    BY <1>1, <2>1, OtherStepsKeepVaults DEF SameVaults
  <2>2. ASSUME NEW g \in Guids, ChangeMember(g), NEW n \in Names, NEW gr \in Groups
        PROVE  Follows(n, gr)
    <3>1. CASE n # rows[g].name \/ accounts[n] = None
      BY <1>1, <2>2, <3>1, ChangeMemberEffect
    <3>2. CASE n = rows[g].name /\ accounts[n] # None
      <4>1. /\ accounts[n].ext = g /\ rows[g] # None /\ cur \in Groups /\ groupRows[cur] # None
            /\ accounts'[n].vaults \in {accounts[n].vaults, Changed(g, accounts[n].vaults)}
        BY <1>1, <2>2, <3>2, ChangeMemberEffect DEF RowsOwn, TypeInv, PhaseOK
      <4>2. gr \in accounts[n].vaults <=> gr \notin accounts'[n].vaults =>
                gr = cur /\ (gr \in accounts'[n].vaults <=> IsMember(g, cur))
        BY <4>1 DEF Changed
      <4> QED BY <3>2, <4>1, <4>2 DEF IsMember
    <3> QED BY <3>1, <3>2
  <2> QED BY <2>1, <2>2
<1>2. Spec => [](TypeInv /\ RowsOwn)
  BY RowsOwnCorrect
<1>3. TypeInv /\ RowsOwn /\ [Next]_vars => [All]_vars
  BY <1>1
<1> QED BY <1>2, <1>3, PTL DEF Spec, MembershipFollowsRows

\* Listed users the loop is done with are remembered already, or in the vault.
AddedOK ==
    pc = "member" /\ ~dry =>
        \A g \in Guids : rows[g] # None /\ IsMember(g, cur) /\ g \notin todo =>
            WasKnown(g, cur) \/ cur \in accounts[rows[g].name].vaults

\* The loop's additions are made before the list is written.
LEMMA NextAdded ==
    ASSUME "refuse" \notin Faults, TypeInv, RowsOwn, AddedOK, [Next]_vars
    PROVE  AddedOK'
<1>1. CASE \E g \in Guids : ChangeMember(g)
  <2>1. PICK g \in Guids : ChangeMember(g)
    BY <1>1
  <2> DEFINE n == rows[g].name
  <2>2. /\ pc = "member" /\ cur \in Groups /\ todo' = todo \ {g} /\ rows[g] # None
        /\ UNCHANGED <<rows, groupRows, pc, dry, cur>>
        /\ \A m \in Names : m # n => accounts'[m] = accounts[m]
        /\ accounts[n] # None /\ ~dry => accounts'[n].vaults = Changed(g, accounts[n].vaults)
    BY <2>1, ChangeMemberEffect
  <2>3. accounts[n] # None /\ accounts[n].ext = g
    BY <2>2 DEF RowsOwn
  <2>4. ASSUME NEW h \in Guids, ~dry, rows[h] # None, IsMember(h, cur), h \notin todo'
        PROVE  WasKnown(h, cur) \/ cur \in accounts'[rows[h].name].vaults
    <3>1. CASE h = g
      BY <2>2, <2>3, <2>4, <3>1 DEF Changed
    <3>2. CASE h # g
      <4>1. rows[h].name \in Names /\ rows[h].name # n
        BY <2>2, <2>3, <2>4, <3>2 DEF RowsOwn, TypeInv, TypeOK, UserData
      <4> QED BY <2>2, <2>4, <3>2, <4>1 DEF AddedOK
    <3> QED BY <3>1, <3>2
  <2> QED BY <2>2, <2>4 DEF AddedOK, IsMember, WasKnown
<1>2. CASE \E gr \in Groups : OpenGroup(gr)
  BY <1>2 DEF OpenGroup, Mismatched, IsMember, WasKnown, AddedOK, apiVars, store, run
<1>3. CASE AdStep \/ UNCHANGED vars
  <2>1. UNCHANGED <<accounts, rows, groupRows, pc, dry, cur, todo>>
    BY <1>3 DEF AdStep, vars, apiVars, store, run, loops
  <2> QED BY <2>1 DEF AddedOK, IsMember, WasKnown
<1>4. CASE ~(\/ \E g \in Guids : ChangeMember(g)
             \/ \E gr \in Groups : OpenGroup(gr)
             \/ AdStep \/ UNCHANGED vars)
  <2>1. pc' # "member"
    BY <1>4 DEF Next, Step, StartRun, SearchAtOnce, ReadAll, EndSearch, ReadEntry, LookUpUser,
           FirstStep, RemoveUser, SkipTombstone, SyncGroup, CreateUser, PatchUserActive,
           UpdateUser, UserRequest, Proceed, GiveUp, UpsertUser, ListDeletions, ForgetUser,
           SearchGroups, BeginMembership, LoadMembership, StoreMembers, FinishRun, FailSearch,
           Crash, DropLocals
  <2> QED BY <2>1 DEF AddedOK
<1> QED BY <1>1, <1>2, <1>3, <1>4

\* The list written anew is that of the users whose rows list the group.
LEMMA StoredList ==
    ASSUME TypeInv, StoreMembers
    PROVE  \/ UNCHANGED groupRows /\ (dry \/ "store" \in Faults)
           \/ /\ ~dry
              /\ \A gr \in Groups : gr # cur => groupRows'[gr] = groupRows[gr]
              /\ \A n \in groupRows'[cur].members :
                    \E h \in Guids : rows[h] # None /\ IsMember(h, cur) /\ n = rows[h].name
<1> DEFINE listed == {rows[g].name : g \in {h \in Guids : rows[h] # None /\ IsMember(h, cur)}}
<1>1. \A n \in listed :
          \E h \in Guids : rows[h] # None /\ IsMember(h, cur) /\ n = rows[h].name
  OBVIOUS
<1>2. \/ UNCHANGED groupRows /\ (dry \/ "store" \in Faults)
      \/ ~dry /\ groupRows' = [groupRows EXCEPT ![cur].members = listed]
  BY Zenon DEF StoreMembers, Written, Fault
<1>3. /\ groupRows \in [Groups -> GroupRow \cup {None}]
      /\ cur \in Groups /\ groupRows[cur] \in GroupRow
  BY DEF StoreMembers, TypeInv, TypeOK, PhaseOK
<1> HIDE DEF listed
<1>4. groupRows' = [groupRows EXCEPT ![cur].members = listed] =>
          /\ \A gr \in Groups : gr # cur => groupRows'[gr] = groupRows[gr]
          /\ groupRows'[cur].members = listed
  BY <1>3 DEF GroupRow
<1> QED BY <1>1, <1>2, <1>4

\* The names a step makes a groups row remember are those of listed users.
LEMMA NewNames ==
    ASSUME TypeInv, [Next]_vars, NEW gr \in Groups, groupRows'[gr] # None,
           NEW n \in Names, n \in groupRows'[gr].members
    PROVE  \/ groupRows[gr] # None /\ n \in groupRows[gr].members
           \/ /\ pc = "member" /\ cur = gr /\ todo = {} /\ ~dry /\ StoreMembers
              /\ \E h \in Guids : rows[h] # None /\ IsMember(h, gr) /\ n = rows[h].name
<1>1. groupRows \in [Groups -> GroupRow \cup {None}]
  BY DEF TypeInv, TypeOK
<1>2. CASE UNCHANGED groupRows
  BY <1>2
<1>3. CASE StoreMembers
  BY <1>2, <1>3, StoredList DEF StoreMembers
<1>4. CASE \E g \in Groups : SyncGroup(g)
  <2>1. PICK g \in Groups : SyncGroup(g)
    BY <1>4
  <2>2. UNCHANGED groupRows
        \/ /\ gfound[g] # None
           /\ \E hasId : groupRows' = [groupRows EXCEPT ![g] = NewGroupRow(g, hasId)]
    BY <2>1 DEF SyncGroup, CreateGroup, RenameRow, Written, TypeInv, PhaseOK
  <2>3. gfound[g] # None => gfound[g].members \subseteq Guids
    BY DEF TypeInv, TypeOK, GroupData
  <2>4. ASSUME NEW hasId, groupRows' = [groupRows EXCEPT ![g] = NewGroupRow(g, hasId)],
               gfound[g] # None
        PROVE  groupRows[gr] # None /\ n \in groupRows[gr].members
    <3>1. CASE gr = g
      <4>1. groupRows'[gr].members = gfound[g].members
        BY <1>1, <2>4, <3>1 DEF NewGroupRow
      <4> QED BY <2>3, <2>4, <4>1, TypesAssumption
    <3>2. CASE gr # g
      BY <1>1, <2>4, <3>2
    <3> QED BY <3>1, <3>2
  <2> QED BY <1>2, <2>2, <2>4
<1>5. ~(StoreMembers \/ \E g \in Groups : SyncGroup(g)) => UNCHANGED groupRows
  BY DEF Next, vars, Step, AdStep, StartRun, ReadAll, EndSearch, ReadEntry, LookUpUser, RemoveUser,
         SkipTombstone, ChangeMember, OpenGroup, CreateUser, PatchUserActive, UpdateUser,
         UserRequest, UpsertUser, ListDeletions, ForgetUser, SearchGroups, BeginMembership,
         LoadMembership, FinishRun, FailSearch, Crash, store
<1> QED BY <1>2, <1>3, <1>4, <1>5

\* The names StoreMembers writes are in the vault, unless they were remembered
\* already: each is held by one row only.
LEMMA StoredNamesAreIn ==
    ASSUME TypeInv, RowsOwn, AddedOK, StoreMembers, ~dry,
           NEW h \in Guids, rows[h] # None, IsMember(h, cur)
    PROVE  /\ UNCHANGED <<accounts, rows>>
           /\ rows[h].name \in Names
           /\ accounts[rows[h].name] # None /\ accounts[rows[h].name].ext = h
           /\ rows[h].name \in groupRows[cur].members \/ cur \in accounts[rows[h].name].vaults
<1>1. pc = "member" /\ todo = {} /\ UNCHANGED <<accounts, rows>>
  BY DEF StoreMembers, apiVars
<1> QED BY <1>1 DEF TypeInv, TypeOK, UserData, RowsOwn, AddedOK, WasKnown

\* A username is remembered as a member only after the account of the row that
\* holds it was added to the vault, if nothing is refused (a refused addition
\* is remembered as done, groups.go:115-118): with any renames and reuse of
\* names when nothing is lost (Reliable), and whatever answers are lost, writes
\* fail and processes die when usernames stay with their holders (NamesKept).
THEOREM RememberedCorrect ==
    ASSUME "refuse" \notin Faults, Reliable \/ NamesKept
    PROVE  Spec => RememberedWhenAdded
<1> DEFINE In(g, gr) ==
        /\ rows'[g] # None /\ groupRows'[gr] # None
        /\ rows'[g].name \in groupRows'[gr].members
        /\ groupRows[gr] # None => rows'[g].name \notin groupRows[gr].members
        => /\ accounts'[rows'[g].name] # None
           /\ accounts'[rows'[g].name].ext = g
           /\ gr \in accounts'[rows'[g].name].vaults
           All == \A g \in Guids, gr \in Groups : In(g, gr)
<1>1. ASSUME TypeInv, RowsOwn, AddedOK, [Next]_vars PROVE All
  <2> SUFFICES ASSUME NEW g \in Guids, NEW gr \in Groups,
                      rows'[g] # None, groupRows'[gr] # None,
                      rows'[g].name \in groupRows'[gr].members,
                      groupRows[gr] # None => rows'[g].name \notin groupRows[gr].members
               PROVE  /\ accounts'[rows'[g].name] # None
                      /\ accounts'[rows'[g].name].ext = g
                      /\ gr \in accounts'[rows'[g].name].vaults
    OBVIOUS
  <2>1. rows'[g].name \in Names
    BY <1>1, NextType DEF TypeInv, TypeOK, UserData
  <2>2. /\ pc = "member" /\ cur = gr /\ todo = {} /\ ~dry /\ StoreMembers
        /\ \E h \in Guids : rows[h] # None /\ IsMember(h, gr) /\ rows'[g].name = rows[h].name
    BY <1>1, <2>1, NewNames
  <2>3. PICK h \in Guids : rows[h] # None /\ IsMember(h, gr) /\ rows'[g].name = rows[h].name
    BY <2>2
  <2>4. /\ UNCHANGED <<accounts, rows>>
        /\ accounts[rows[h].name] # None /\ accounts[rows[h].name].ext = h
        /\ rows[h].name \in groupRows[gr].members \/ gr \in accounts[rows[h].name].vaults
    BY <1>1, <2>2, <2>3, StoredNamesAreIn
  <2>5. accounts[rows[g].name].ext = g
    BY <1>1, <2>2, <2>4 DEF RowsOwn
  <2>6. groupRows[gr] # None
    BY <1>1, <2>2 DEF TypeInv, PhaseOK
  <2> QED BY <2>3, <2>4, <2>5, <2>6
<1>2. Spec => [](TypeInv /\ RowsOwn)
  BY RowsOwnCorrect
<1>3. Init => AddedOK
  BY DEF Init, AddedOK
<1>4. TypeInv /\ RowsOwn /\ AddedOK /\ [Next]_vars => AddedOK' /\ [All]_vars
  BY <1>1, NextAdded
<1> QED BY <1>2, <1>3, <1>4, PTL DEF Spec, RememberedWhenAdded

-----------------------------------------------------------------------------
(* Who is remembered as a member is in the vault. *)

\* n is remembered, its user is listed no more, and the list is about to be
\* written again.
Leaving(gr, n) ==
    /\ pc = "member" /\ cur = gr /\ ~dry
    /\ \E g \in Guids : rows[g] # None /\ rows[g].name = n /\ ~IsMember(g, gr)

\* Every remembered name is in the vault or on its way out.
MembersOK ==
    \A gr \in Groups, n \in Names :
        groupRows[gr] # None /\ n \in groupRows[gr].members =>
            \/ accounts[n] # None /\ gr \in accounts[n].vaults
            \/ Leaving(gr, n)

\* n is in the vault of gr.
InVault(gr, n) == accounts[n] # None /\ gr \in accounts[n].vaults

\* Nobody in a vault leaves it by a request about a user.
LEMMA UserRequestKeepsIn ==
    ASSUME KeptInv, CreateUser \/ PatchUserActive \/ UpdateUser,
           NEW n \in Names, NEW gr, InVault(gr, n)
    PROVE  InVault(gr, n)'
BY UserRequestEffect DEF InVault, ChangedAt

LEMMA ChangeMemberMembers ==
    ASSUME KeptInv, MembersOK, NEW g \in Guids, ChangeMember(g) PROVE MembersOK'
<1> DEFINE n == rows[g].name
<1>1. /\ pc = "member" /\ rows[g] # None
      /\ UNCHANGED <<rows, groupRows, pc, dry, cur>>
      /\ \A m \in Names : m # n \/ accounts[n] = None => accounts'[m] = accounts[m]
      /\ accounts[n] # None =>
            /\ accounts'[n] # None
            /\ accounts'[n].vaults \in {accounts[n].vaults, Changed(g, accounts[n].vaults)}
  BY ChangeMemberEffect DEF KeptInv
<1>2. \A gr, m : Leaving(gr, m)' <=> Leaving(gr, m)
  BY <1>1 DEF Leaving, IsMember
<1>3. ASSUME NEW gr \in Groups, NEW m \in Names, InVault(gr, m)
      PROVE  InVault(gr, m)' \/ Leaving(gr, m)
  <2>1. CASE m # n \/ accounts[n] = None
    BY <1>1, <1>3, <2>1 DEF InVault
  <2>2. CASE m = n /\ accounts[n] # None /\ accounts'[n].vaults = accounts[n].vaults
    BY <1>1, <1>3, <2>2 DEF InVault
  <2>3. CASE m = n /\ accounts[n] # None /\ (gr # cur \/ IsMember(g, cur))
    BY <1>1, <1>3, <2>3 DEF InVault, Changed
  <2>4. CASE m = n /\ gr = cur /\ ~IsMember(g, cur) /\ ~dry
    BY <1>1, <2>4 DEF Leaving
  <2>5. dry => accounts' = accounts
    BY DEF ChangeMember, Request
  <2> QED BY <1>1, <1>3, <2>1, <2>2, <2>3, <2>4, <2>5 DEF InVault
<1> QED BY <1>1, <1>2, <1>3 DEF MembersOK, InVault

\* The list written anew holds listed users only, and they are in.
LEMMA StoreMembersMembers ==
    ASSUME KeptInv, AddedOK, MembersOK, StoreMembers, "store" \notin Faults PROVE MembersOK'
<1>1. pc = "member" /\ pc' = "group" /\ UNCHANGED <<accounts, rows>> /\ TypeInv /\ RowsOwn
  BY KeptRowsOwn DEF StoreMembers, apiVars, KeptInv
<1>2. ASSUME NEW gr \in Groups, NEW n \in Names,
             groupRows'[gr] # None, n \in groupRows'[gr].members
      PROVE  InVault(gr, n)
  <2>1. CASE groupRows[gr] # None /\ n \in groupRows[gr].members /\ (gr # cur \/ dry)
    BY <2>1 DEF MembersOK, Leaving, InVault
  <2>2. CASE gr = cur /\ ~dry
    <3>1. PICK h \in Guids : rows[h] # None /\ IsMember(h, gr) /\ n = rows[h].name
      BY <1>1, <1>2, <2>2, StoredList
    <3>2. /\ accounts[n] # None
          /\ n \in groupRows[gr].members \/ gr \in accounts[n].vaults
      BY <1>1, <2>2, <3>1, StoredNamesAreIn
    <3>3. groupRows[gr] # None
      BY <1>1, <2>2 DEF TypeInv, PhaseOK
    <3>4. ~Leaving(gr, n)
      BY <1>1, <3>1 DEF Leaving, RowsOwn
    <3> QED BY <3>2, <3>3, <3>4 DEF MembersOK, InVault
  <2>3. gr # cur \/ dry => groupRows[gr] # None /\ n \in groupRows[gr].members
    <3>1. [Next]_vars
      BY DEF Next, Step
    <3> QED BY <1>1, <1>2, <3>1, NewNames
  <2> QED BY <2>1, <2>2, <2>3
<1> QED BY <1>1, <1>2 DEF MembersOK, InVault

LEMMA NextMembers ==
    ASSUME NamesKept, Faults \cap {"refuse", "store", "crash"} = {},
           KeptInv, AddedOK, MembersOK, [Next]_vars
    PROVE  MembersOK'
<1>1. CASE \E g \in Guids : ChangeMember(g)
  BY <1>1, ChangeMemberMembers
<1>2. CASE StoreMembers
  BY <1>2, StoreMembersMembers
<1>3. CASE AdStep \/ UNCHANGED vars
  <2>1. UNCHANGED <<accounts, rows, groupRows, pc, dry, cur>>
    BY <1>3 DEF AdStep, vars, apiVars, store, run, loops
  <2> QED BY <2>1 DEF MembersOK, Leaving, IsMember
<1>4. ASSUME Next, ~\E g \in Guids : ChangeMember(g), ~StoreMembers, ~AdStep
      PROVE  MembersOK'
  <2>1. pc # "member"
    BY <1>4 DEF Next, Step, StartRun, ReadAll, EndSearch, ReadEntry, LookUpUser, RemoveUser,
           SkipTombstone, SyncGroup, OpenGroup, CreateUser, PatchUserActive, UpdateUser,
           UpsertUser, ListDeletions, ForgetUser, SearchGroups, BeginMembership, LoadMembership,
           FinishRun, AtEnd, FailSearch, Crash, Fault
  <2>2. \A gr \in Groups, n \in Names :
            groupRows'[gr] # None /\ n \in groupRows'[gr].members =>
                groupRows[gr] # None /\ n \in groupRows[gr].members
    BY <1>4, NewNames DEF KeptInv
  <2>3. \A gr \in Groups, n \in Names :
            groupRows[gr] # None /\ n \in groupRows[gr].members => InVault(gr, n)
    BY <2>1 DEF MembersOK, Leaving, InVault
  <2>4. ASSUME NEW gr \in Groups, NEW n \in Names, InVault(gr, n) PROVE InVault(gr, n)'
    <3>1. CASE CreateUser \/ PatchUserActive \/ UpdateUser
      BY <2>4, <3>1, UserRequestKeepsIn
    <3>2. CASE ~(CreateUser \/ PatchUserActive \/ UpdateUser)
      <4>1. accounts' = accounts
        BY <1>4, <3>2, NoRemovals DEF Next, Step, StartRun, ReadAll, EndSearch, ReadEntry,
               LookUpUser, SyncGroup, OpenGroup, UpsertUser, ListDeletions, SearchGroups,
               BeginMembership, LoadMembership, FinishRun, FailSearch, Crash, apiVars
      <4> QED BY <2>4, <4>1 DEF InVault
    <3> QED BY <3>1, <3>2
  <2> QED BY <2>2, <2>3, <2>4 DEF MembersOK, InVault
<1> QED BY <1>1, <1>2, <1>3, <1>4

\* A username remembered as a member, held by a row that lists the group, is
\* in the vault, whatever answers are lost, searches fail and vaults are made
\* with no id, as long as names stay with their holders and no addition is
\* refused, no write fails and no process dies.
THEOREM RememberedStayIn ==
    ASSUME NamesKept, Faults \cap {"refuse", "store", "crash"} = {}
    PROVE  Spec => []RememberedMembersAreIn
<1>1. Init => KeptInv /\ AddedOK /\ MembersOK
  BY InitKept DEF Init, AddedOK, MembersOK
<1>2. KeptInv /\ AddedOK /\ MembersOK /\ [Next]_vars => KeptInv' /\ AddedOK' /\ MembersOK'
  BY NextKept, KeptRowsOwn, NextAdded, NextMembers DEF KeptInv
<1>3. ASSUME KeptInv, MembersOK PROVE RememberedMembersAreIn
  <2> SUFFICES ASSUME NEW g \in Guids, NEW gr \in Groups,
                      rows[g] # None, groupRows[gr] # None, IsMember(g, gr),
                      rows[g].name \in groupRows[gr].members
               PROVE  /\ accounts[rows[g].name] # None
                      /\ accounts[rows[g].name].ext = g
                      /\ gr \in accounts[rows[g].name].vaults
    BY DEF RememberedMembersAreIn, Settled, IsMember
  <2>1. rows[g].name \in Names /\ Holds(g, rows[g].name)
    BY <1>3 DEF KeptInv, NamesOK, TypeInv, TypeOK, UserData
  <2>2. ~Leaving(gr, rows[g].name)
    BY <1>3, <2>1 DEF Leaving, KeptInv, NamesOK, HoldersOK, Holds
  <2>3. InVault(gr, rows[g].name)
    BY <1>3, <2>1, <2>2 DEF MembersOK, InVault
  <2>4. accounts[rows[g].name].ext \in Guids
    BY <1>3, <2>1, <2>3 DEF InVault, KeptInv, TypeInv, TypeOK, ApiTypeOK, Account
  <2> QED BY <1>3, <2>1, <2>3, <2>4 DEF InVault, KeptInv, NamesOK, HoldersOK, Holds
<1> QED BY <1>1, <1>2, <1>3, PTL DEF Spec
=============================================================================
