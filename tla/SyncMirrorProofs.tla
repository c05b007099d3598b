-------------------------- MODULE SyncMirrorProofs --------------------------
(***************************************************************************)
(* Rows, accounts and identities stay in step, the engine implements       *)
(* DirectoryMirror, and a clean full run leaves the accounts of the users  *)
(* it found, when every request is answered, every write of the state      *)
(* database succeeds and the process does not die between the two: for any *)
(* number of users, names, refused requests, failed searches, pages and    *)
(* runs, dry runs included.                                                *)
(***************************************************************************)
EXTENDS SyncEngineProofs

Reliable == Faults \cap {"lose", "store", "crash"} = {}

-----------------------------------------------------------------------------
(* The inductive invariant: RowsTrackAccounts and what the stages of a user  *)
(* add to it.                                                                *)

\* The account at n is g's and has the attributes of u.
AccountIs(n, g, u) == accounts[n] # None /\ accounts[n].ext = g /\ accounts[n].attr = u.attr

StageOK ==
    /\ pc = "create" => rows[cur] = None
    /\ pc = "put" => rows[cur] # None
    /\ pc = "upsert" /\ ~dry => AccountIs(found[cur].name, cur, found[cur])
    /\ full /\ pc \in {"deletions", "forget"} => \A g \in todo : found[g] = None
    /\ full /\ pc = "forget" => found[cur] = None

TrackInv == TypeInv /\ RowsTrackAccounts /\ StageOK

-----------------------------------------------------------------------------
(* What the service's answers do, by account. *)

LEMMA PostEffect ==
    ASSUME NEW accts \in AccountMap, NEW g \in Guids, NEW u \in UserData
    PROVE  /\ PostUser(accts, g, u).status # "ok" => PostUser(accts, g, u).accounts = accts
           /\ PostUser(accts, g, u).status = "ok" =>
                 accts[u.name] = None \/ accts[u.name].ext = g
           /\ accts[u.name] = None =>
                 PostUser(accts, g, u).accounts = [accts EXCEPT ![u.name] = NewAccount(g, u)]
BY DEF PostUser, Answer

\* Without lost answers a request that did not succeed did nothing.
LEMMA RequestEffect ==
    ASSUME Reliable, NEW first, NEW again, NEW status, Request(first, again, status),
           first.status # "ok" => first.accounts = accounts
    PROVE  \/ status = "ok" /\ dry /\ accounts' = accounts
           \/ status = "ok" /\ ~dry /\ first.status = "ok" /\ accounts' = first.accounts
           \/ status # "ok" /\ accounts' = accounts
BY DEF Request, Fault, Reliable

\* A new account is an account, of this identity and with these attributes ...
LEMMA NewAccountIs ==
    ASSUME NEW g \in Guids, NEW u \in UserData
    PROVE  /\ NewAccount(g, u) \in Account /\ NewAccount(g, u) # None
           /\ NewAccount(g, u).ext = g /\ NewAccount(g, u).attr = u.attr
           /\ NewAccount(g, u).active = ~u.disabled
<1>1. NewAccount(g, u) \in Account
  BY DEF NewAccount, Account, UserData
<1> QED BY <1>1, ApiAssumption DEF NewAccount

\* ... and one that takes over the vaults of an old one is such an account too.
KeptAccount(g, u, vs) == [NewAccount(g, u) EXCEPT !.vaults = vs]

LEMMA KeptAccountIs ==
    ASSUME NEW g \in Guids, NEW u \in UserData, NEW vs \in SUBSET Groups,
           NEW a, a = KeptAccount(g, u, vs)
    PROVE  /\ a \in Account /\ a # None
           /\ a.ext = g /\ a.attr = u.attr /\ a.active = ~u.disabled /\ a.vaults = vs
<1>1. NewAccount(g, u) \in Account
  BY NewAccountIs
<1>2. a = [ext |-> g, attr |-> u.attr, active |-> ~u.disabled, vaults |-> vs]
  BY DEF NewAccount, KeptAccount
<1>3. a \in Account
  BY <1>1 DEF Account, KeptAccount
<1>4. a # None
  BY <1>3, ApiAssumption
<1>5. a.ext = g /\ a.attr = u.attr /\ a.active = ~u.disabled /\ a.vaults = vs
  BY <1>2
<1> QED BY <1>3, <1>4, <1>5

-----------------------------------------------------------------------------
(* Steps that keep rows and accounts. *)

\* The account at n is its holder's, by the row or by the row to be.
HasHolder(n) ==
    LET g == accounts[n].ext IN
      \/ Settled(g) /\ rows[g].name = n
      \/ ~dry /\ pc = "upsert" /\ cur = g /\ found[g].name = n

\* No step is between an account and its row.
Quiet == dry \/ pc \notin {"upsert", "forget"}

\* What RowsTrackAccounts is then.
InStep ==
    /\ \A g \in Guids : rows[g] # None => AccountIs(rows[g].name, g, rows[g])
    /\ \A n \in Names : accounts[n] # None =>
          rows[accounts[n].ext] # None /\ rows[accounts[n].ext].name = n

LEMMA QuietInStep == Quiet => (RowsTrackAccounts <=> InStep)
<1> SUFFICES ASSUME Quiet PROVE RowsTrackAccounts <=> InStep
  OBVIOUS
<1>1. \A g : Settled(g) <=> rows[g] # None
  BY DEF Settled, Quiet
<1>2. ~(~dry /\ pc = "upsert")
  BY DEF Quiet
<1> QED BY <1>1, <1>2 DEF RowsTrackAccounts, InStep, AccountIs

\* Every account stays where it is, with its identity and attributes.
SameHolders ==
    \A n \in Names :
        /\ accounts'[n] = None <=> accounts[n] = None
        /\ accounts[n] # None => /\ accounts'[n].ext = accounts[n].ext
                                 /\ accounts'[n].attr = accounts[n].attr

LEMMA FrameTrack ==
    ASSUME TypeInv, RowsTrackAccounts, UNCHANGED rows, SameHolders, Quiet, Quiet'
    PROVE  RowsTrackAccounts'
<1>1. InStep
  BY QuietInStep
<1>2. \A g \in Guids : rows[g] # None => rows[g].name \in Names
  BY DEF TypeInv, TypeOK, UserData
<1>3. InStep'
  BY <1>1, <1>2 DEF InStep, AccountIs, SameHolders
<1>4. Quiet' => (RowsTrackAccounts' <=> InStep')
  BY QuietInStep, PTL
<1> QED BY <1>3, <1>4

-----------------------------------------------------------------------------
(* One lemma per step that changes an account or a row. *)

CurTypes ==
    /\ cur \in Guids /\ found[cur] \in UserData /\ found[cur].name \in Names
    /\ accounts \in AccountMap
    /\ rows[cur] # None => rows[cur] \in UserData /\ rows[cur].name \in Names

LEMMA CurTyped == ASSUME TypeInv, pc \in {"create", "patch", "put", "upsert"} PROVE CurTypes
BY DEF TypeInv, TypeOK, ApiTypeOK, AccountMap, PhaseOK, UserSteps, UserData, CurTypes

\* A request that did nothing, or was not sent, leaves all in step; the next
\* step comes after it only if it was not refused.
LEMMA IdleRequest ==
    ASSUME TrackInv, pc \in {"create", "patch", "put"}, NEW first, NEW again,
           NEW next \in {"put", "upsert"}, next = "put" => rows[cur] # None,
           UserRequest(first, again, next), accounts' = accounts,
           dry \/ pc' # "upsert"
    PROVE  RowsTrackAccounts' /\ StageOK'
<1>1. /\ pc' \in {"users", next} /\ UNCHANGED rows /\ UNCHANGED dry
      /\ cur' = cur \/ pc' = "users"
  BY DEF UserRequest, Proceed, GiveUp, store, run
<1>2. Quiet /\ Quiet'
  BY <1>1 DEF Quiet
<1>3. SameHolders
  BY DEF SameHolders
<1>4. RowsTrackAccounts'
  BY <1>1, <1>2, <1>3, FrameTrack DEF TrackInv
<1>5. StageOK'
  BY <1>1 DEF StageOK
<1> QED BY <1>4, <1>5

LEMMA CreateUserTrack == ASSUME Reliable, TrackInv, CreateUser PROVE RowsTrackAccounts' /\ StageOK'
<1> DEFINE first == PostUser(accounts, cur, found[cur])
           again == PostUser(first.accounts, cur, found[cur])
           n == found[cur].name
<1>1. CurTypes /\ rows[cur] = None /\ InStep
  BY CurTyped, QuietInStep DEF CreateUser, TrackInv, StageOK, Quiet
<1>2. UserRequest(first, again, "upsert")
  BY DEF CreateUser
<1>3. CASE accounts' = accounts /\ (dry \/ pc' # "upsert")
  BY <1>2, <1>3, IdleRequest DEF CreateUser
<1>4. CASE ~(accounts' = accounts /\ (dry \/ pc' # "upsert"))
  <2>1. /\ ~dry /\ first.status = "ok" /\ accounts' = first.accounts
        /\ pc' = "upsert" /\ UNCHANGED <<rows, found, full, dry, cur, todo>>
    <3>1. first.status # "ok" => first.accounts = accounts
      BY DEF PostUser, Answer
    <3> QED BY <1>2, <1>4, <3>1, RequestEffect DEF UserRequest, Proceed, GiveUp, store, run
  <2>2. accounts[n] = None
    <3>1. first.status = "ok" => accounts[n] = None \/ accounts[n].ext = cur
      BY DEF PostUser, Answer
    <3>2. first.status = "ok"
      BY <2>1
    <3> QED BY <1>1, <3>1, <3>2 DEF CurTypes, InStep
  <2>3. accounts' = [accounts EXCEPT ![n] = NewAccount(cur, found[cur])]
    BY <1>1, <2>1, <2>2, PostEffect DEF CurTypes
  <2>4. AccountIs(n, cur, found[cur])'
    <3>1. accounts'[n] = NewAccount(cur, found[cur])
      BY <1>1, <2>3 DEF CurTypes, AccountMap
    <3>2. /\ NewAccount(cur, found[cur]) # None /\ NewAccount(cur, found[cur]).ext = cur
          /\ NewAccount(cur, found[cur]).attr = found[cur].attr
      BY <1>1, NewAccountIs DEF CurTypes
    <3> QED BY <2>1, <3>1, <3>2 DEF AccountIs
  <2>5. \A g \in Guids : Settled(g)' <=> rows[g] # None
    BY <1>1, <2>1 DEF Settled
  <2>6. \A g \in Guids : rows[g] # None => AccountIs(rows[g].name, g, rows[g])'
    BY <1>1, <2>1, <2>2, <2>3 DEF CurTypes, InStep, AccountIs, AccountMap
  <2>7. RowsTrackAccounts'
    <3>1. ASSUME NEW m \in Names, accounts'[m] # None
          PROVE  HasHolder(m)'
      <4>1. CASE m = n
        BY <2>1, <2>4, <4>1 DEF AccountIs, HasHolder
      <4>2. CASE m # n
        <5>1. accounts'[m] = accounts[m] /\ accounts[m].ext \in Guids
          BY <1>1, <2>3, <3>1, <4>2 DEF CurTypes, AccountMap, Account
        <5>2. rows[accounts[m].ext] # None /\ rows[accounts[m].ext].name = m
          BY <1>1, <3>1, <5>1 DEF InStep
        <5> QED BY <2>1, <2>5, <5>1, <5>2 DEF HasHolder
      <4> QED BY <4>1, <4>2
    <3>2. ASSUME NEW g \in Guids, Settled(g)'
          PROVE  AccountIs(rows[g].name, g, rows[g])'
      BY <2>5, <2>6, <3>2
    <3> QED BY <3>1, <3>2 DEF RowsTrackAccounts, AccountIs, HasHolder
  <2>8. StageOK'
    BY <2>1, <2>4 DEF StageOK
  <2> QED BY <2>7, <2>8
<1> QED BY <1>3, <1>4

\* PATCH, and every other request that only changes flags of an account.
LEMMA PatchUserActiveTrack ==
    ASSUME Reliable, TrackInv, PatchUserActive PROVE RowsTrackAccounts' /\ StageOK'
<1> DEFINE n == rows[cur].name
           active == ~found[cur].disabled
           first == PatchActive(accounts, n, active)
           again == PatchActive(first.accounts, n, active)
           next == IF AttributesChanged(cur) THEN "put" ELSE "upsert"
<1>1. CurTypes /\ rows[cur] # None /\ InStep
  BY CurTyped, QuietInStep DEF PatchUserActive, TrackInv, TypeInv, PhaseOK, Quiet
<1>2. UserRequest(first, again, next) /\ pc = "patch"
  BY DEF PatchUserActive
<1>3. CASE accounts' = accounts /\ (dry \/ pc' # "upsert")
  <2>1. next \in {"put", "upsert"}
    OBVIOUS
  <2> QED BY <1>1, <1>2, <1>3, <2>1, IdleRequest
<1>4. CASE ~(accounts' = accounts /\ (dry \/ pc' # "upsert"))
  <2>1. /\ ~dry /\ first.status = "ok" /\ accounts' = first.accounts
        /\ pc' = next /\ UNCHANGED <<rows, found, full, dry, cur, todo>>
    <3>1. first.status # "ok" => first.accounts = accounts
      BY DEF PatchActive, Answer
    <3> QED BY <1>2, <1>4, <3>1, RequestEffect DEF UserRequest, Proceed, GiveUp, store, run
  <2>2. accounts' = [accounts EXCEPT ![n] = [accounts[n] EXCEPT !.active = active]]
    BY <2>1 DEF PatchActive, Answer
  <2>3. SameHolders
    <3>1. accounts[n] \in Account
      BY <1>1 DEF CurTypes, InStep, AccountIs, AccountMap
    <3>2. [accounts[n] EXCEPT !.active = active] \in Account
      BY <1>1, <3>1 DEF Account
    <3> QED BY <1>1, <2>2, <3>1, <3>2, ApiAssumption DEF SameHolders, CurTypes, AccountMap, Account
  <2>4. CASE next = "put"
    <3>1. RowsTrackAccounts'
      BY <1>2, <2>1, <2>3, <2>4, FrameTrack DEF TrackInv, Quiet
    <3> QED BY <1>1, <2>1, <2>4, <3>1 DEF StageOK
  <2>5. CASE next = "upsert"
    <3>1. found[cur].name = n /\ found[cur].attr = rows[cur].attr
      BY <2>5 DEF AttributesChanged
    <3>2. InStep'
      <4>1. \A g \in Guids : rows[g] # None => rows[g].name \in Names
        BY DEF TrackInv, TypeInv, TypeOK, UserData
      <4>2. ASSUME NEW g \in Guids, rows'[g] # None
            PROVE  AccountIs(rows[g].name, g, rows[g])'
        <5>1. rows[g].name \in Names /\ AccountIs(rows[g].name, g, rows[g])
          BY <1>1, <2>1, <4>1, <4>2 DEF InStep
        <5> QED BY <2>1, <2>3, <5>1 DEF AccountIs, SameHolders
      <4>3. ASSUME NEW m \in Names, accounts'[m] # None
            PROVE  rows'[accounts'[m].ext] # None /\ rows'[accounts'[m].ext].name = m
        <5>1. accounts[m] # None /\ accounts'[m].ext = accounts[m].ext
          BY <2>3, <4>3 DEF SameHolders
        <5> QED BY <1>1, <2>1, <5>1 DEF InStep
      <4> QED BY <2>1, <4>2, <4>3 DEF InStep, AccountIs
    <3>3. \A g \in Guids : Settled(g)' <=> rows[g] # None /\ g # cur
      BY <2>1, <2>5 DEF Settled
    <3>4. AccountIs(found[cur].name, cur, found[cur])'
      <4>1. AccountIs(rows[cur].name, cur, rows[cur])'
        BY <1>1, <2>1, <3>2 DEF InStep, CurTypes
      <4> QED BY <2>1, <3>1, <4>1 DEF AccountIs
    <3>5. \A m \in Names : accounts'[m] # None => accounts'[m].ext \in Guids
      BY <1>1, <2>3 DEF SameHolders, CurTypes, AccountMap, Account
    <3>6. RowsTrackAccounts'
      <4>1. \A g \in Guids : Settled(g)' => AccountIs(rows[g].name, g, rows[g])'
        BY <2>1, <3>2, <3>3 DEF InStep, AccountIs
      <4>2. ASSUME NEW m \in Names, accounts'[m] # None
            PROVE  HasHolder(m)'
        <5>1. /\ accounts'[m].ext \in Guids /\ rows[accounts'[m].ext] # None
              /\ rows[accounts'[m].ext].name = m
          BY <2>1, <3>2, <3>5, <4>2 DEF InStep
        <5>2. CASE accounts'[m].ext = cur
          BY <2>1, <2>5, <3>1, <5>1, <5>2 DEF HasHolder
        <5>3. CASE accounts'[m].ext # cur
          BY <2>1, <3>3, <5>1, <5>3 DEF HasHolder
        <5> QED BY <5>2, <5>3
      <4> QED BY <4>1, <4>2 DEF RowsTrackAccounts, AccountIs, HasHolder
    <3> QED BY <2>1, <2>5, <3>4, <3>6 DEF StageOK
  <2> QED BY <2>4, <2>5
<1> QED BY <1>3, <1>4

LEMMA UpdateUserTrack == ASSUME Reliable, TrackInv, UpdateUser PROVE RowsTrackAccounts' /\ StageOK'
<1> DEFINE n == rows[cur].name
           u == found[cur]
           first == PutUser(accounts, n, cur, u)
           again == PutUser(first.accounts, n, cur, u)
<1>1. CurTypes /\ rows[cur] # None /\ InStep
  BY CurTyped, QuietInStep DEF UpdateUser, TrackInv, TypeInv, PhaseOK, Quiet
<1>2. UserRequest(first, again, "upsert") /\ pc = "put"
  BY DEF UpdateUser
<1>3. CASE accounts' = accounts /\ (dry \/ pc' # "upsert")
  BY <1>1, <1>2, <1>3, IdleRequest
<1>4. CASE ~(accounts' = accounts /\ (dry \/ pc' # "upsert"))
  <2>1. /\ ~dry /\ first.status = "ok" /\ accounts' = first.accounts
        /\ pc' = "upsert" /\ UNCHANGED <<rows, found, full, dry, cur, todo>>
    <3>1. first.status # "ok" => first.accounts = accounts
      BY DEF PutUser, Answer
    <3> QED BY <1>2, <1>4, <3>1, RequestEffect DEF UserRequest, Proceed, GiveUp, store, run
  <2>2. /\ AccountIs(n, cur, rows[cur]) /\ n \in Names /\ u.name \in Names
        /\ accounts[n] \in Account
    BY <1>1 DEF CurTypes, InStep, AccountIs, AccountMap
  <2>3. /\ u.name = n \/ accounts[u.name] = None
        /\ accounts' = [[accounts EXCEPT ![n] = None] EXCEPT
                           ![u.name] = [NewAccount(cur, u) EXCEPT !.vaults = accounts[n].vaults]]
    BY <2>1 DEF PutUser, Answer
  <2>4. AccountIs(u.name, cur, u)'
    <3>1. accounts'[u.name] = [NewAccount(cur, u) EXCEPT !.vaults = accounts[n].vaults]
      BY <1>1, <2>2, <2>3 DEF CurTypes, AccountMap
    <3>2. accounts[n].vaults \in SUBSET Groups
      BY <2>2 DEF Account
    <3>3. LET a == [NewAccount(cur, u) EXCEPT !.vaults = accounts[n].vaults]
          IN  a # None /\ a.ext = cur /\ a.attr = u.attr
      <4>1. NewAccount(cur, u) \in Account
        BY <1>1, NewAccountIs DEF CurTypes
      <4>2. [NewAccount(cur, u) EXCEPT !.vaults = accounts[n].vaults] \in Account
        BY <3>2, <4>1 DEF Account
      <4> QED BY <4>2, ApiAssumption DEF NewAccount
    <3> QED BY <2>1, <3>1, <3>3 DEF AccountIs
  <2>5. \A m \in Names : m # u.name => accounts'[m] = IF m = n THEN None ELSE accounts[m]
    BY <1>1, <2>2, <2>3 DEF CurTypes, AccountMap
  <2>6. \A g \in Guids : Settled(g)' <=> rows[g] # None /\ g # cur
    BY <2>1 DEF Settled
  <2>7. ASSUME NEW g \in Guids, rows[g] # None, g # cur
        PROVE  rows[g].name \in Names /\ accounts'[rows[g].name] = accounts[rows[g].name]
    <3>1. rows[g].name \in Names /\ AccountIs(rows[g].name, g, rows[g])
      BY <1>1, <2>7 DEF TrackInv, TypeInv, TypeOK, UserData, InStep
    <3>2. rows[g].name # n /\ rows[g].name # u.name
      BY <2>2, <2>3, <2>7, <3>1 DEF AccountIs
    <3> QED BY <2>5, <3>1, <3>2
  <2>8. \A g \in Guids : rows[g] # None /\ g # cur => AccountIs(rows[g].name, g, rows[g])'
    BY <1>1, <2>1, <2>7 DEF InStep, AccountIs
  <2>9. ASSUME NEW m \in Names, accounts'[m] # None
        PROVE  HasHolder(m)'
    <3>1. CASE m = u.name
      BY <2>1, <2>4, <3>1 DEF AccountIs, HasHolder
    <3>2. CASE m # u.name
      <4>1. m # n /\ accounts'[m] = accounts[m] /\ accounts[m].ext \in Guids
        BY <1>1, <2>5, <2>9, <3>2 DEF CurTypes, AccountMap, Account
      <4>2. rows[accounts[m].ext] # None /\ rows[accounts[m].ext].name = m
        BY <1>1, <2>9, <4>1 DEF InStep
      <4>3. accounts[m].ext # cur
        BY <4>1, <4>2
      <4>4. Settled(accounts[m].ext)' /\ rows'[accounts[m].ext].name = m
        BY <2>1, <2>6, <4>1, <4>2, <4>3
      <4> QED BY <4>1, <4>4 DEF HasHolder
    <3> QED BY <3>1, <3>2
  <2>10. RowsTrackAccounts'
    <3>1. ASSUME NEW g \in Guids, Settled(g)'
          PROVE  AccountIs(rows[g].name, g, rows[g])'
      BY <2>6, <2>8, <3>1
    <3> QED BY <2>9, <3>1 DEF RowsTrackAccounts, AccountIs, HasHolder
  <2> QED BY <2>1, <2>4, <2>10 DEF StageOK
<1> QED BY <1>3, <1>4

LEMMA UpsertUserTrack == ASSUME Reliable, TrackInv, UpsertUser PROVE RowsTrackAccounts' /\ StageOK'
<1>1. CurTypes /\ pc = "upsert" /\ pc' = "users" /\ UNCHANGED <<accounts, dry>>
  BY CurTyped DEF UpsertUser, TrackInv, apiVars, run
<1>2. StageOK'
  BY <1>1 DEF StageOK
<1>3. CASE dry
  <2>1. UNCHANGED rows
    BY <1>3 DEF UpsertUser, Written
  <2> QED BY <1>1, <1>2, <1>3, <2>1, FrameTrack DEF TrackInv, Quiet, SameHolders
<1>4. CASE ~dry
  <2>1. rows' = [rows EXCEPT ![cur] = found[cur]]
    BY <1>4 DEF UpsertUser, Written, Fault, Reliable
  <2>2. \A g \in Guids : rows'[g] = IF g = cur THEN found[cur] ELSE rows[g]
    BY <1>1, <2>1 DEF TrackInv, TypeInv, TypeOK
  <2>3. AccountIs(found[cur].name, cur, found[cur]) /\ found[cur] # None
    BY <1>1, <1>4, TypesAssumption DEF TrackInv, StageOK, CurTypes
  <2>4. \A g \in Guids : Settled(g) <=> rows[g] # None /\ g # cur
    BY <1>1, <1>4 DEF Settled
  <2>5. \A g \in Guids : rows[g] # None /\ g # cur => AccountIs(rows[g].name, g, rows[g])
    BY <2>4 DEF TrackInv, RowsTrackAccounts, AccountIs
  <2>6. ASSUME NEW m \in Names, accounts[m] # None
        PROVE  rows'[accounts[m].ext] # None /\ rows'[accounts[m].ext].name = m
    <3>1. accounts[m].ext \in Guids
      BY <1>1, <2>6 DEF CurTypes, AccountMap, Account
    <3>2. \/ Settled(accounts[m].ext) /\ rows[accounts[m].ext].name = m
          \/ cur = accounts[m].ext /\ found[cur].name = m
      BY <2>6 DEF TrackInv, RowsTrackAccounts
    <3> QED BY <2>2, <2>3, <2>4, <3>1, <3>2
  <2>7. InStep'
    BY <1>1, <2>2, <2>3, <2>5, <2>6 DEF InStep, AccountIs
  <2>8. Quiet' => (RowsTrackAccounts' <=> InStep')
    BY QuietInStep, PTL
  <2> QED BY <1>1, <1>2, <2>7, <2>8 DEF Quiet
<1> QED BY <1>3, <1>4

LEMMA RemoveUserTrack ==
    ASSUME Reliable, TrackInv, NEW g \in Guids, RemoveUser(g) PROVE RowsTrackAccounts' /\ StageOK'
<1> DEFINE n == rows[g].name
           first == DeleteAccount(accounts, n)
           again == DeleteAccount(first.accounts, n)
<1>1. /\ pc = "deletions" /\ g \in todo /\ todo' = todo \ {g}
      /\ UNCHANGED <<rows, found, full, dry>> /\ InStep
  BY QuietInStep DEF RemoveUser, TrackInv, Quiet, store, run
<1>2. PICK status \in Statuses :
          /\ Request(first, again, status)
          /\ IF status = "ok"
             THEN pc' = "forget" /\ cur' = g /\ UNCHANGED <<clean, trouble>>
             ELSE clean' = FALSE /\ Failing(g) /\ UNCHANGED <<pc, cur>>
  BY DEF RemoveUser
<1>3. first.status # "ok" => first.accounts = accounts
  BY DEF DeleteAccount, Answer
<1>4. \/ status = "ok" /\ dry /\ accounts' = accounts
      \/ status = "ok" /\ ~dry /\ first.status = "ok" /\ accounts' = first.accounts
      \/ status # "ok" /\ accounts' = accounts
  BY <1>2, <1>3, RequestEffect
<1>5. StageOK'
  BY <1>1, <1>2 DEF TrackInv, StageOK
<1>6. CASE accounts' = accounts /\ (dry \/ pc' = "deletions")
  <2>1. Quiet /\ Quiet' /\ SameHolders
    BY <1>1, <1>6 DEF Quiet, SameHolders
  <2> QED BY <1>1, <1>5, <2>1, FrameTrack DEF TrackInv
<1>7. CASE ~(accounts' = accounts /\ (dry \/ pc' = "deletions"))
  <2>1. /\ ~dry /\ pc' = "forget" /\ cur' = g
        /\ accounts' = [accounts EXCEPT ![n] = None]
    BY <1>1, <1>2, <1>4, <1>7 DEF DeleteAccount, Answer
  <2>2. rows[g] # None /\ AccountIs(n, g, rows[g]) /\ n \in Names
    BY <1>1 DEF InStep, TrackInv, TypeInv, TypeOK, PhaseOK, UserData
  <2>3. accounts \in AccountMap
    BY DEF TrackInv, TypeInv, TypeOK, ApiTypeOK, AccountMap
  <2>4. \A h \in Guids : Settled(h)' <=> rows[h] # None /\ h # g
    BY <1>1, <2>1 DEF Settled
  <2>5. \A m \in Names : accounts'[m] = IF m = n THEN None ELSE accounts[m]
    BY <2>1, <2>3 DEF AccountMap
  <2>6. ASSUME NEW h \in Guids, rows[h] # None, h # g
        PROVE  AccountIs(rows[h].name, h, rows[h])'
    <3>1. rows[h].name \in Names /\ AccountIs(rows[h].name, h, rows[h])
      BY <1>1, <2>6 DEF TrackInv, TypeInv, TypeOK, UserData, InStep
    <3>2. rows[h].name # n
      BY <2>2, <2>6, <3>1 DEF AccountIs
    <3> QED BY <1>1, <2>5, <3>1, <3>2 DEF AccountIs
  <2>7. ASSUME NEW m \in Names, accounts'[m] # None
        PROVE  \E h \in Guids : h = accounts'[m].ext /\ Settled(h)' /\ rows'[h].name = m
    <3>1. m # n /\ accounts'[m] = accounts[m] /\ accounts[m].ext \in Guids
      BY <2>3, <2>5, <2>7 DEF AccountMap, Account
    <3>2. rows[accounts[m].ext] # None /\ rows[accounts[m].ext].name = m
      BY <1>1, <2>7, <3>1 DEF InStep
    <3> QED BY <1>1, <2>4, <3>1, <3>2
  <2>8. RowsTrackAccounts'
    BY <1>1, <2>4, <2>6, <2>7 DEF RowsTrackAccounts, AccountIs
  <2> QED BY <1>5, <2>8
<1> QED BY <1>5, <1>6, <1>7

LEMMA ForgetUserTrack == ASSUME Reliable, TrackInv, ForgetUser PROVE RowsTrackAccounts' /\ StageOK'
<1>1. /\ pc = "forget" /\ pc' = "deletions" /\ UNCHANGED <<accounts, found, full, dry, todo>>
      /\ cur \in Guids
  BY DEF ForgetUser, TrackInv, TypeInv, PhaseOK, UserSteps, apiVars, run
<1>2. StageOK'
  BY <1>1 DEF TrackInv, StageOK
<1>3. CASE dry
  <2>1. UNCHANGED rows
    BY <1>3 DEF ForgetUser, Written
  <2> QED BY <1>1, <1>2, <1>3, <2>1, FrameTrack DEF TrackInv, Quiet, SameHolders
<1>4. CASE ~dry
  <2>1. rows' = [rows EXCEPT ![cur] = None]
    BY <1>4 DEF ForgetUser, Written, Fault, Reliable
  <2>2. \A g \in Guids : rows'[g] = IF g = cur THEN None ELSE rows[g]
    BY <1>1, <2>1 DEF TrackInv, TypeInv, TypeOK
  <2>3. \A g \in Guids : Settled(g) <=> rows[g] # None /\ g # cur
    BY <1>1, <1>4 DEF Settled
  <2>4. \A g \in Guids : rows'[g] # None => AccountIs(rows'[g].name, g, rows'[g])
    BY <2>2, <2>3 DEF TrackInv, RowsTrackAccounts, AccountIs
  <2>5. ASSUME NEW m \in Names, accounts[m] # None
        PROVE  rows'[accounts[m].ext] # None /\ rows'[accounts[m].ext].name = m
    <3>1. accounts[m].ext \in Guids
      BY <2>5 DEF TrackInv, TypeInv, TypeOK, ApiTypeOK, Account
    <3>2. Settled(accounts[m].ext) /\ rows[accounts[m].ext].name = m
      BY <1>1, <2>5 DEF TrackInv, RowsTrackAccounts
    <3> QED BY <2>2, <2>3, <3>1, <3>2
  <2>6. InStep'
    BY <1>1, <2>4, <2>5 DEF InStep, AccountIs
  <2>7. Quiet' => (RowsTrackAccounts' <=> InStep')
    BY QuietInStep, PTL
  <2> QED BY <1>1, <1>2, <2>6, <2>7 DEF Quiet
<1> QED BY <1>3, <1>4

-----------------------------------------------------------------------------
(* All steps. *)

LEMMA ChangeMemberTrack ==
    ASSUME TrackInv, NEW g \in Guids, ChangeMember(g) PROVE RowsTrackAccounts' /\ StageOK'
<1> DEFINE n == rows[g].name
<1>1. /\ pc = "member" /\ pc' = "member" /\ UNCHANGED <<rows, dry>>
      /\ accounts \in AccountMap /\ n \in Names
  BY DEF ChangeMember, TrackInv, TypeInv, TypeOK, ApiTypeOK, AccountMap, PhaseOK, UserData,
         store, run
<1>2. \/ accounts' = accounts
      \/ accounts[n] # None
         /\ \E vs \in SUBSET Groups :
               accounts' = [accounts EXCEPT ![n] = [accounts[n] EXCEPT !.vaults = vs]]
  <2>1. cur \in Groups /\ (accounts[n] # None => accounts[n].vaults \in SUBSET Groups)
    BY <1>1 DEF ChangeMember, TrackInv, TypeInv, PhaseOK, AccountMap, Account
  <2>2. \/ accounts' = accounts
        \/ accounts[n] # None /\ accounts' = [accounts EXCEPT ![n] =
              [accounts[n] EXCEPT !.vaults = accounts[n].vaults \cup {cur}]]
        \/ accounts[n] # None /\ accounts' = [accounts EXCEPT ![n] =
              [accounts[n] EXCEPT !.vaults = accounts[n].vaults \ {cur}]]
    BY DEF ChangeMember, Request, AddMember, RemoveMember, Answer
  <2> QED BY <2>1, <2>2
<1>3. SameHolders
  <2>1. CASE accounts' = accounts
    BY <2>1 DEF SameHolders
  <2>2. CASE accounts[n] # None
             /\ \E vs \in SUBSET Groups :
                   accounts' = [accounts EXCEPT ![n] = [accounts[n] EXCEPT !.vaults = vs]]
    <3>1. PICK vs \in SUBSET Groups :
            accounts' = [accounts EXCEPT ![n] = [accounts[n] EXCEPT !.vaults = vs]]
      BY <2>2
    <3>2. accounts[n] \in Account
      BY <1>1, <2>2 DEF AccountMap
    <3>3. \A m \in Names :
            accounts'[m] = IF m = n THEN [accounts[n] EXCEPT !.vaults = vs] ELSE accounts[m]
      BY <1>1, <3>1 DEF AccountMap
    <3>4. /\ [accounts[n] EXCEPT !.vaults = vs].ext = accounts[n].ext
          /\ [accounts[n] EXCEPT !.vaults = vs].attr = accounts[n].attr
          /\ [accounts[n] EXCEPT !.vaults = vs] \in Account
      BY <3>2 DEF Account
    <3> QED BY <2>2, <3>3, <3>4, ApiAssumption DEF SameHolders
  <2> QED BY <1>2, <2>1, <2>2
<1> QED BY <1>1, <1>3, FrameTrack DEF TrackInv, Quiet, StageOK

\* Steps that leave accounts and rows alone, outside the two that are between them.
LEMMA OtherStepsTrack ==
    ASSUME Reliable, TrackInv,
           \/ \E asked \in RunKinds : StartRun(asked)
           \/ ReadAll \/ EndSearch \/ ListDeletions
           \/ \E g \in Guids : ReadEntry(g) \/ LookUpUser(g) \/ SkipTombstone(g)
           \/ \E gr \in Groups : SyncGroup(gr) \/ OpenGroup(gr)
           \/ SearchGroups \/ BeginMembership \/ LoadMembership \/ StoreMembers
           \/ FinishRun \/ FailSearch \/ Crash
    PROVE  RowsTrackAccounts' /\ StageOK'
<1>1. UNCHANGED <<rows, accounts>>
  BY DEF StartRun, ReadAll, EndSearch, ListDeletions, ReadEntry, LookUpUser, SkipTombstone,
         SyncGroup, OpenGroup, SearchGroups, BeginMembership, LoadMembership, StoreMembers, FinishRun,
         FailSearch, Crash, apiVars, store
<1>2. ~Crash
  BY DEF Crash, Fault, Reliable
<1>3. pc \notin {"upsert", "forget"} /\ pc' \notin {"upsert", "forget"}
  BY <1>2 DEF StartRun, SearchAtOnce, ReadAll, EndSearch, ListDeletions, ReadEntry, LookUpUser,
         FirstStep, SkipTombstone, SyncGroup, OpenGroup, SearchGroups, BeginMembership,
         LoadMembership, StoreMembers, FinishRun, AtEnd, FailSearch, DropLocals, run, loops
<1>4. RowsTrackAccounts'
  BY <1>1, <1>3, FrameTrack DEF TrackInv, Quiet, SameHolders
<1>5. StageOK'
  <2>1. CASE ListDeletions
    BY <2>1 DEF ListDeletions, Departed, Missing, StageOK, run
  <2>2. CASE \E g \in Guids : LookUpUser(g)
    BY <1>1, <2>2 DEF LookUpUser, FirstStep, StageOK, store, run
  <2>3. CASE \E g \in Guids : SkipTombstone(g)
    BY <2>3 DEF TrackInv, SkipTombstone, StageOK, store, run
  <2>4. CASE /\ ~ListDeletions
             /\ ~\E g \in Guids : LookUpUser(g) \/ SkipTombstone(g)
    <3>1. pc' \notin {"create", "put", "upsert", "deletions", "forget"}
      BY <1>2, <2>4 DEF StartRun, SearchAtOnce, ReadAll, EndSearch, ReadEntry, SyncGroup, OpenGroup,
             SearchGroups, BeginMembership, LoadMembership, StoreMembers, FinishRun, FailSearch,
             DropLocals, run, loops
    <3> QED BY <3>1 DEF StageOK
  <2> QED BY <2>1, <2>2, <2>3, <2>4
<1> QED BY <1>4, <1>5

LEMMA NextTrack == ASSUME Reliable, TrackInv, [Next]_vars PROVE TrackInv'
<1>1. TypeInv'
  BY NextType DEF TrackInv
<1>2. CASE AdStep \/ UNCHANGED vars
  <2>1. UNCHANGED <<accounts, rows, pc, dry, full, found, cur, todo>>
    BY <1>2 DEF AdStep, vars, apiVars, store, run, loops
  <2>2. \A g : Settled(g)' <=> Settled(g)
    BY <2>1 DEF Settled
  <2>3. RowsTrackAccounts' /\ StageOK'
    BY <2>1, <2>2 DEF TrackInv, RowsTrackAccounts, StageOK, AccountIs
  <2> QED BY <1>1, <2>3 DEF TrackInv
<1>3. CASE CreateUser \/ PatchUserActive \/ UpdateUser
  BY <1>1, <1>3, CreateUserTrack, PatchUserActiveTrack, UpdateUserTrack DEF TrackInv
<1>4. CASE UpsertUser \/ ForgetUser
  BY <1>1, <1>4, UpsertUserTrack, ForgetUserTrack DEF TrackInv
<1>5. CASE \E g \in Guids : RemoveUser(g) \/ ChangeMember(g)
  BY <1>1, <1>5, RemoveUserTrack, ChangeMemberTrack DEF TrackInv
<1>6. CASE ~(AdStep \/ UNCHANGED vars \/ CreateUser \/ PatchUserActive \/ UpdateUser
             \/ UpsertUser \/ ForgetUser \/ \E g \in Guids : RemoveUser(g) \/ ChangeMember(g))
  <2>1. \/ \E asked \in RunKinds : StartRun(asked)
        \/ ReadAll \/ EndSearch \/ ListDeletions
        \/ \E g \in Guids : ReadEntry(g) \/ LookUpUser(g) \/ SkipTombstone(g)
        \/ \E gr \in Groups : SyncGroup(gr) \/ OpenGroup(gr)
        \/ SearchGroups \/ BeginMembership \/ LoadMembership \/ StoreMembers
        \/ FinishRun \/ FailSearch \/ Crash
    BY <1>6 DEF Next, Step
  <2> QED BY <1>1, <2>1, OtherStepsTrack DEF TrackInv
<1> QED BY <1>2, <1>3, <1>4, <1>5, <1>6

\* A row tells where its user's account is and what it holds, and there is no
\* account without a row, however often requests are refused and runs fail or
\* overlap with renames: any number of users may swap names.
THEOREM RowsTrackCorrect == ASSUME Reliable PROVE Spec => []RowsTrackAccounts
<1>1. Init => TrackInv
  BY InitType DEF Init, ApiInit, TrackInv, RowsTrackAccounts, Settled, StageOK
<1>2. TrackInv /\ [Next]_vars => TrackInv'
  BY NextTrack
<1>3. TrackInv => RowsTrackAccounts
  BY DEF TrackInv
<1> QED BY <1>1, <1>2, <1>3, PTL DEF Spec

-----------------------------------------------------------------------------
(* The refinement.  Sequence numbers start at 1, so that a full search, which *)
(* asks for those from 1 on, returns every live user.                        *)

Numbered == \A g \in Guids : ad[g] # None => ad[g].usn >= 1

LEMMA NextNumbered == ASSUME TypeInv, Numbered, [Next]_vars PROVE Numbered'
<1>1. CASE AdStep
  <2>1. AdTypeOK /\ AdNext /\ usn \in Nat
    BY <1>1 DEF AdStep, TypeInv, TypeOK, AdTypeOK
  <2>2. CASE \E gr \in Groups : RenameGroup(gr)
    BY <2>2 DEF RenameGroup, Numbered
  <2>3. CASE \E g \in Guids, entry \in Entry : Write(g, entry)
    <3>1. PICK g \in Guids, entry \in Entry : Write(g, entry)
      BY <2>3
    <3>2. ad' = [ad EXCEPT ![g] = [entry EXCEPT !.usn = usn + 1]]
      BY <3>1 DEF Write
    <3>3. [entry EXCEPT !.usn = usn + 1].usn = usn + 1
      BY DEF Entry
    <3> QED BY <2>1, <3>2, <3>3 DEF Numbered, AdTypeOK
  <2> QED BY <2>1, <2>2, <2>3, AdNextWrites
<1>2. CASE ~AdStep
  <2>1. UNCHANGED ad
    BY <1>2 DEF Next, Step, vars, adVars, StartRun, ReadAll, EndSearch, ReadEntry, LookUpUser,
           RemoveUser, SkipTombstone, ChangeMember, SyncGroup, OpenGroup, CreateUser,
           PatchUserActive, UpdateUser, UserRequest, UpsertUser, ListDeletions, ForgetUser,
           SearchGroups, BeginMembership, LoadMembership, StoreMembers, FinishRun, FailSearch,
           Crash
  <2> QED BY <2>1 DEF Numbered
<1> QED BY <1>1, <1>2

\* The abstract variables.
Registry == [g \in Guids |-> HeldBy(accounts, g)]

\* An identity's accounts are the one at its row's name, or none.
LEMMA HeldAtRow ==
    ASSUME TypeInv, InStep, NEW g \in Guids
    PROVE  HeldBy(accounts, g) =
              IF rows[g] = None THEN {}
              ELSE {[name |-> rows[g].name, attr |-> accounts[rows[g].name].attr,
                     active |-> accounts[rows[g].name].active]}
<1> DEFINE at == {m \in Names : accounts[m] # None /\ accounts[m].ext = g}
<1>1. at = IF rows[g] = None THEN {} ELSE {rows[g].name}
  BY DEF InStep, AccountIs, TypeInv, TypeOK, UserData
<1>2. HeldBy(accounts, g) =
        {[name |-> n, attr |-> accounts[n].attr, active |-> accounts[n].active] : n \in at}
  BY DEF HeldBy
<1> HIDE DEF at
<1> QED BY <1>1, <1>2

\* A step that reads some of the directory, forgets some of what was read, or
\* does neither.
LEMMA ReadMaps ==
    ASSUME TypeInv, TypeInv', UNCHANGED <<ad, cn, accounts>>,
           \A g \in Guids : found'[g] \in {found[g], LiveUsers[g], None},
           \A g \in FoundMissing' : g \in FoundMissing \/ LiveUsers[g] = None
    PROVE  Mirror!Read
<1>1. UNCHANGED <<LiveUsers, Registry>>
  BY DEF LiveUsers, Live, Has, UserOf, Registry, HeldBy
<1>2. FoundMissing' \subseteq Guids
  BY DEF FoundMissing, TypeInv, TypeOK
<1>3. found' \in [Guids -> UserData \cup {None}]
  BY DEF TypeInv, TypeOK
<1> QED BY <1>1, <1>2, <1>3 DEF Mirror!Read, Mirror!Users, Mirror!UserData, UserData, Registry

\* A search without a mark returns every live user.
LEMMA SearchAll == ASSUME TypeInv, Numbered PROVE \A g \in Guids : g \in Search(0) <=> Live(g)
<1>1. \A g \in Guids : Live(g) => ad[g].usn \in Nat /\ ad[g].usn >= 1
  BY DEF Numbered, Live, Has, TypeInv, TypeOK, AdTypeOK, Entry
<1>2. \A u \in Nat : u >= 1 <=> u >= 0 + 1
  OBVIOUS
<1>3. \A g \in Guids : g \in Search(0) <=> Live(g) /\ ad[g].usn >= 0 + 1
  BY DEF Search
<1> QED BY <1>1, <1>2, <1>3

\* The steps that ask the service for nothing about an account.
LEMMA SearchesRead ==
    ASSUME TypeInv, TypeInv', Numbered,
           \/ \E asked \in RunKinds : StartRun(asked)
           \/ ReadAll \/ EndSearch \/ \E g \in Guids : ReadEntry(g)
    PROVE  Mirror!Read
<1>1. UNCHANGED <<ad, cn, accounts>>
  BY DEF StartRun, ReadAll, EndSearch, ReadEntry, adVars, apiVars
<1>2. \A g \in Guids : Live(g) => UserOf(g) # None
  BY UserOfType DEF TypeInv, TypeOK, Live, Has
<1>3. \A g \in Guids : g \in Search(0) <=> Live(g)
  BY SearchAll
<1>4. \A low : \A g \in Guids : g \in Search(low) => LiveUsers[g] = UserOf(g)
  BY DEF Search, LiveUsers
<1>5. CASE \E asked \in RunKinds : StartRun(asked)
  <2>1. found' = found /\ pc' = "search" /\ todo' = Guids
    BY <1>5 DEF StartRun
  <2>2. FoundMissing' = {}
    BY <2>1 DEF FoundMissing
  <2> QED BY <1>1, <2>1, <2>2, ReadMaps
<1>6. CASE ReadAll
  <2> DEFINE low == IF full THEN 0 ELSE hwm
  <2>1. SearchAtOnce(low) /\ UNCHANGED full
    BY <1>6 DEF ReadAll
  <2>2. /\ pc' = "users"
        /\ \A g \in Guids : found'[g] = IF g \in Search(low) THEN UserOf(g) ELSE None
    BY <2>1 DEF SearchAtOnce
  <2>3. \A g \in FoundMissing' : full /\ g \in Guids /\ found'[g] = None
    BY <2>1, <2>2 DEF FoundMissing
  <2>4. \A g \in FoundMissing' : LiveUsers[g] = None
    BY <1>2, <1>3, <2>2, <2>3 DEF LiveUsers
  <2>5. \A g \in Guids : found'[g] \in {found[g], LiveUsers[g], None}
    BY <1>4, <2>2
  <2> QED BY <1>1, <2>4, <2>5, ReadMaps
<1>7. CASE EndSearch
  <2>1. UNCHANGED <<found, full>> /\ pc = "search" /\ todo = {} /\ pc' = "users"
    BY <1>7 DEF EndSearch, run
  <2>2. FoundMissing' = FoundMissing
    BY <2>1 DEF FoundMissing
  <2> QED BY <1>1, <2>1, <2>2, ReadMaps
<1>8. CASE \E g \in Guids : ReadEntry(g)
  <2>1. PICK g \in Guids : ReadEntry(g)
    BY <1>8
  <2> DEFINE hit == g \in Search(IF full THEN 0 ELSE hwm)
  <2>2. /\ pc = "search" /\ pc' = "search" /\ UNCHANGED full /\ todo' = todo \ {g}
        /\ found' = IF hit THEN [found EXCEPT ![g] = UserOf(g)] ELSE found
    BY <2>1 DEF ReadEntry
  <2>3. \A h \in Guids : found'[h] \in {found[h], LiveUsers[h], None}
    BY <1>4, <2>2 DEF TypeInv, TypeOK
  <2>4. \A h \in FoundMissing' : full /\ h \in Guids /\ found'[h] = None /\ h \notin todo \ {g}
    BY <2>2 DEF FoundMissing
  <2>5. \A h \in Guids : h # g => found'[h] = found[h]
    BY <2>2 DEF TypeInv, TypeOK
  <2>6. hit => found'[g] = UserOf(g) /\ Live(g)
    BY <2>2 DEF Search, TypeInv, TypeOK
  <2>7. hit => found'[g] # None
    BY <2>6, UserOfType DEF TypeInv, TypeOK
  <2>8. full /\ ~hit => LiveUsers[g] = None
    BY <1>3 DEF LiveUsers
  <2>9. \A h \in FoundMissing' : h \in FoundMissing \/ LiveUsers[h] = None
    BY <2>2, <2>4, <2>5, <2>7, <2>8 DEF FoundMissing
  <2> QED BY <1>1, <2>3, <2>9, ReadMaps
<1> QED BY <1>5, <1>6, <1>7, <1>8

\* A step within the run that asks for nothing and finds nobody missing.
LEMMA WithinRunReads ==
    ASSUME TypeInv, TypeInv', UNCHANGED <<ad, cn, accounts, found, full>>,
           pc # "search", pc' # "search",
           \/ full \/ pc' \notin {"deletions", "forget"}
           \/ pc \in {"deletions", "forget"} /\ todo' \subseteq todo
    PROVE  Mirror!Read
<1>1. \A g \in FoundMissing' : g \in FoundMissing
  BY DEF FoundMissing
<1> QED BY <1>1, ReadMaps

LEMMA OtherStepsRead ==
    ASSUME TypeInv, TypeInv',
           \/ \E g \in Guids : LookUpUser(g) \/ SkipTombstone(g)
           \/ \E gr \in Groups : SyncGroup(gr) \/ OpenGroup(gr)
           \/ UpsertUser \/ ForgetUser \/ ListDeletions
           \/ SearchGroups \/ BeginMembership \/ LoadMembership \/ StoreMembers
           \/ FinishRun \/ FailSearch \/ Crash
    PROVE  Mirror!Read
<1>1. UNCHANGED <<ad, cn, accounts>>
  BY DEF LookUpUser, SkipTombstone, SyncGroup, OpenGroup, UpsertUser, ForgetUser, ListDeletions,
         SearchGroups, BeginMembership, LoadMembership, StoreMembers, FinishRun, FailSearch,
         Crash, adVars, apiVars
<1>2. CASE FinishRun \/ FailSearch \/ Crash
  <2>1. pc' = "idle" /\ ~full' /\ \A g \in Guids : found'[g] = None
    BY <1>2 DEF FinishRun, FailSearch, Crash, DropLocals
  <2>2. FoundMissing' = {}
    BY <2>1 DEF FoundMissing
  <2> QED BY <1>1, <2>1, <2>2, ReadMaps
<1>3. CASE ListDeletions
  <2>1. /\ UNCHANGED <<found, full>> /\ pc = "users" /\ pc' = "deletions"
        /\ todo' \subseteq Departed
    BY <1>3 DEF ListDeletions, run
  <2>2. CASE full
    BY <1>1, <2>1, <2>2, WithinRunReads
  <2>3. CASE ~full
    <3>1. \A g \in FoundMissing' : g \in Buried
      BY <2>1, <2>3 DEF FoundMissing, Departed
    <3>2. \A g \in Buried : LiveUsers[g] = None
      BY DEF Buried, Tombstones, Has, Live, LiveUsers
    <3> QED BY <1>1, <2>1, <3>1, <3>2, ReadMaps
  <2> QED BY <2>2, <2>3
<1>4. CASE \/ \E g \in Guids : LookUpUser(g) \/ SkipTombstone(g)
           \/ \E gr \in Groups : SyncGroup(gr) \/ OpenGroup(gr)
           \/ UpsertUser \/ ForgetUser
           \/ SearchGroups \/ BeginMembership \/ LoadMembership \/ StoreMembers
  <2>1. /\ UNCHANGED <<found, full>> /\ pc # "search" /\ pc' # "search"
        /\ \/ pc' \notin {"deletions", "forget"}
           \/ pc \in {"deletions", "forget"} /\ todo' \subseteq todo
    BY <1>4 DEF LookUpUser, FirstStep, SkipTombstone, SyncGroup, OpenGroup, UpsertUser, ForgetUser,
           SearchGroups, BeginMembership, LoadMembership, StoreMembers, run, loops
  <2> QED BY <1>1, <2>1, WithinRunReads
<1> QED BY <1>2, <1>3, <1>4

\* An administrator's change.
LEMMA AdStepChanges == ASSUME TypeInv, TypeInv', AdStep PROVE Mirror!Change
<1>1. UNCHANGED <<found, accounts, pc, full, todo>>
  BY DEF AdStep, apiVars, run, loops
<1>2. UNCHANGED <<FoundMissing, Registry>>
  BY <1>1 DEF FoundMissing, Registry, HeldBy
<1>3. \A g \in Guids : Live(g)' => UserOf(g)' \in UserData
  BY DEF TypeInv, TypeOK, AdTypeOK, Live, Has, Entry, UserOf, UserData
<1>4. LiveUsers' \in [Guids -> UserData \cup {None}]
  BY <1>3 DEF LiveUsers
<1> QED BY <1>1, <1>2, <1>4
     DEF Mirror!Change, Mirror!Users, Mirror!UserData, UserData, Registry

-----------------------------------------------------------------------------
(* The accounts an identity holds, from a table of accounts. *)

LEMMA HeldSame ==
    ASSUME NEW old, NEW new, NEW g,
           \A n \in Names :
               /\ (new[n] # None /\ new[n].ext = g) <=> (old[n] # None /\ old[n].ext = g)
               /\ old[n] # None /\ old[n].ext = g =>
                     new[n].attr = old[n].attr /\ new[n].active = old[n].active
    PROVE  HeldBy(new, g) = HeldBy(old, g)
BY DEF HeldBy

LEMMA HeldOne ==
    ASSUME NEW accts, NEW g, NEW n \in Names, accts[n] # None, accts[n].ext = g,
           \A m \in Names : accts[m] # None /\ accts[m].ext = g => m = n
    PROVE  HeldBy(accts, g) = {[name |-> n, attr |-> accts[n].attr, active |-> accts[n].active]}
BY DEF HeldBy

LEMMA HeldNone ==
    ASSUME NEW accts, NEW g, \A m \in Names : ~(accts[m] # None /\ accts[m].ext = g)
    PROVE  HeldBy(accts, g) = {}
BY DEF HeldBy

\* One account is made or replaced, under a name nobody else has.
LEMMA FollowMaps ==
    ASSUME NEW g \in Guids, found[g] \in UserData, found[g] # None, found[g].name \in Names,
           UNCHANGED <<ad, cn, found, FoundMissing>>,
           accounts[found[g].name] = None \/ accounts[found[g].name].ext = g,
           accounts'[found[g].name] # None, accounts'[found[g].name].ext = g,
           accounts'[found[g].name].attr = found[g].attr,
           accounts'[found[g].name].active = ~found[g].disabled,
           \A m \in Names : m # found[g].name =>
               /\ \/ accounts'[m] = accounts[m]
                  \/ accounts'[m] = None /\ accounts[m].ext = g
               /\ ~(accounts'[m] # None /\ accounts'[m].ext = g)
    PROVE  Mirror!Follow(g)
<1> DEFINE n == found[g].name
<1>1. UNCHANGED LiveUsers
  BY DEF LiveUsers, Live, Has, UserOf
<1>2. HeldBy(accounts', g) = {Mirror!AccountOf(found[g])}
  <2>1. \A m \in Names : accounts'[m] # None /\ accounts'[m].ext = g => m = n
    OBVIOUS
  <2>2. HeldBy(accounts', g) =
          {[name |-> n, attr |-> accounts'[n].attr, active |-> accounts'[n].active]}
    BY <2>1, HeldOne
  <2> QED BY <2>2 DEF Mirror!AccountOf
<1>3. \A h \in Guids : h # g => HeldBy(accounts', h) = HeldBy(accounts, h)
  <2>1. ASSUME NEW h \in Guids, h # g, NEW m \in Names
        PROVE  /\ (accounts'[m] # None /\ accounts'[m].ext = h)
                    <=> (accounts[m] # None /\ accounts[m].ext = h)
               /\ accounts[m] # None /\ accounts[m].ext = h => accounts'[m] = accounts[m]
    BY <2>1
  <2> QED BY <2>1, HeldSame
<1>4. Registry' = [Registry EXCEPT ![g] = {Mirror!AccountOf(found[g])}]
  BY <1>2, <1>3 DEF Registry
<1>5. ASSUME NEW h \in Guids \ {g}, NEW a \in Registry[h]
      PROVE  a.name # n
  BY <1>5 DEF Registry, HeldBy
<1>6. Mirror!FreeFor(g, n)
  BY <1>5 DEF Mirror!FreeFor, Registry
<1>7. Mirror!Give(g, Mirror!AccountOf(found[g]))
  BY <1>1, <1>4 DEF Mirror!Give, Registry
<1> QED BY <1>6, <1>7 DEF Mirror!Follow

-----------------------------------------------------------------------------
(* The steps that ask for something. *)

\* A request about the current user reads nothing and finds nobody missing.
LEMMA UserRequestFrame ==
    ASSUME TypeInv, pc \in {"create", "patch", "put"}, NEW first, NEW again,
           NEW next \in {"put", "upsert"}, UserRequest(first, again, next)
    PROVE  UNCHANGED <<ad, cn, rows, found, FoundMissing>>
<1>1. UNCHANGED <<ad, cn, rows, found, full>> /\ pc' \in {"users", next}
  BY DEF UserRequest, Proceed, GiveUp, adVars, store, run
<1> QED BY <1>1 DEF FoundMissing

LEMMA Stutters ==
    ASSUME TypeInv, TypeInv', UNCHANGED <<ad, cn, found, FoundMissing, accounts>>
    PROVE  Mirror!Read
BY ReadMaps

LEMMA CreateUserMaps ==
    ASSUME Reliable, TrackInv, TypeInv', CreateUser PROVE Mirror!Read \/ Mirror!Follow(cur)
<1> DEFINE n == found[cur].name
           first == PostUser(accounts, cur, found[cur])
           again == PostUser(first.accounts, cur, found[cur])
<1>1. CurTypes /\ rows[cur] = None /\ InStep /\ TypeInv /\ pc = "create"
  BY CurTyped, QuietInStep DEF CreateUser, TrackInv, StageOK, Quiet
<1>2. UserRequest(first, again, "upsert")
  BY DEF CreateUser
<1>3. UNCHANGED <<ad, cn, rows, found, FoundMissing>>
  BY <1>1, <1>2, UserRequestFrame
<1>4. CASE accounts' = accounts
  BY <1>1, <1>3, <1>4, Stutters
<1>5. CASE accounts' # accounts
  <2>1. first.status = "ok" /\ accounts' = first.accounts
    <3>1. first.status # "ok" => first.accounts = accounts
      BY DEF PostUser, Answer
    <3> QED BY <1>2, <1>5, <3>1, RequestEffect DEF UserRequest
  <2>2. accounts[n] = None
    <3>1. first.status = "ok" => accounts[n] = None \/ accounts[n].ext = cur
      BY DEF PostUser, Answer
    <3>2. first.status = "ok"
      BY <2>1
    <3> QED BY <1>1, <3>1, <3>2 DEF CurTypes, InStep
  <2>3. accounts' = [accounts EXCEPT ![n] = NewAccount(cur, found[cur])]
    BY <2>1, <2>2 DEF PostUser, Answer
  <2>4. accounts'[n] = NewAccount(cur, found[cur])
    BY <1>1, <2>3 DEF CurTypes, AccountMap
  <2>5. \A m \in Names : m # n => accounts'[m] = accounts[m]
    BY <1>1, <2>3 DEF CurTypes, AccountMap
  <2>6. \A m \in Names : ~(accounts[m] # None /\ accounts[m].ext = cur)
    BY <1>1 DEF InStep
  <2>7. /\ NewAccount(cur, found[cur]) # None
        /\ NewAccount(cur, found[cur]).ext = cur
        /\ NewAccount(cur, found[cur]).attr = found[cur].attr
        /\ NewAccount(cur, found[cur]).active = ~found[cur].disabled
    BY <1>1, NewAccountIs DEF CurTypes
  <2>8. found[cur] # None
    BY <1>1, TypesAssumption DEF CurTypes
  <2> QED BY <1>1, <1>3, <2>2, <2>4, <2>5, <2>6, <2>7, <2>8, FollowMaps DEF CurTypes
<1> QED BY <1>4, <1>5

LEMMA UpdateUserMaps ==
    ASSUME Reliable, TrackInv, TypeInv', UpdateUser PROVE Mirror!Read \/ Mirror!Follow(cur)
<1> DEFINE n == rows[cur].name
           u == found[cur]
           first == PutUser(accounts, n, cur, u)
           again == PutUser(first.accounts, n, cur, u)
           made == [NewAccount(cur, u) EXCEPT !.vaults = accounts[n].vaults]
<1>1. CurTypes /\ rows[cur] # None /\ InStep /\ TypeInv /\ pc = "put"
  BY CurTyped, QuietInStep DEF UpdateUser, TrackInv, TypeInv, PhaseOK, Quiet
<1>2. UserRequest(first, again, "upsert")
  BY DEF UpdateUser
<1>3. UNCHANGED <<ad, cn, rows, found, FoundMissing>>
  BY <1>1, <1>2, UserRequestFrame
<1>4. CASE accounts' = accounts
  BY <1>1, <1>3, <1>4, Stutters
<1>5. CASE accounts' # accounts
  <2>1. first.status = "ok" /\ accounts' = first.accounts
    <3>1. first.status # "ok" => first.accounts = accounts
      BY DEF PutUser, Answer
    <3> QED BY <1>2, <1>5, <3>1, RequestEffect DEF UserRequest
  <2>2. /\ n \in Names /\ u.name \in Names
        /\ accounts[n] \in Account /\ accounts[n].ext = cur
    BY <1>1 DEF CurTypes, InStep, AccountIs, AccountMap
  <2>3. /\ u.name = n \/ accounts[u.name] = None
        /\ accounts' = [[accounts EXCEPT ![n] = None] EXCEPT ![u.name] = made]
    BY <2>1 DEF PutUser, Answer
  <2>4. accounts'[u.name] = made
    BY <1>1, <2>2, <2>3 DEF CurTypes, AccountMap
  <2>5. made # None /\ made.ext = cur /\ made.attr = u.attr /\ made.active = ~u.disabled
    <3>1. NewAccount(cur, u) \in Account /\ NewAccount(cur, u).active = ~u.disabled
      BY <1>1, NewAccountIs DEF CurTypes
    <3>2. made \in Account /\ made.active = NewAccount(cur, u).active
      BY <2>2, <3>1 DEF Account
    <3> QED BY <3>1, <3>2, ApiAssumption DEF NewAccount
  <2>6. \A m \in Names : m # u.name => accounts'[m] = IF m = n THEN None ELSE accounts[m]
    BY <1>1, <2>2, <2>3 DEF CurTypes, AccountMap
  <2>7. \A m \in Names : m # n => ~(accounts[m] # None /\ accounts[m].ext = cur)
    BY <1>1 DEF InStep
  <2>8. \A m \in Names : m # u.name =>
            /\ accounts'[m] = accounts[m] \/ (accounts'[m] = None /\ accounts[m].ext = cur)
            /\ ~(accounts'[m] # None /\ accounts'[m].ext = cur)
    BY <2>2, <2>6, <2>7
  <2>9. accounts[u.name] = None \/ accounts[u.name].ext = cur
    BY <2>2, <2>3
  <2>10. u # None
    BY <1>1, TypesAssumption DEF CurTypes
  <2> HIDE DEF made
  <2> QED BY <1>1, <1>3, <2>4, <2>5, <2>8, <2>9, <2>10, FollowMaps DEF CurTypes
<1> QED BY <1>4, <1>5

LEMMA PatchUserActiveMaps ==
    ASSUME Reliable, TrackInv, TypeInv', PatchUserActive PROVE Mirror!Read \/ Mirror!Switch(cur)
<1> DEFINE n == rows[cur].name
           active == ~found[cur].disabled
           first == PatchActive(accounts, n, active)
           again == PatchActive(first.accounts, n, active)
           next == IF AttributesChanged(cur) THEN "put" ELSE "upsert"
           made == [accounts[n] EXCEPT !.active = active]
           account == [name |-> n, attr |-> accounts[n].attr, active |-> accounts[n].active]
<1>1. CurTypes /\ rows[cur] # None /\ InStep /\ TypeInv /\ pc = "patch"
  BY CurTyped, QuietInStep DEF PatchUserActive, TrackInv, TypeInv, PhaseOK, Quiet
<1>2. UserRequest(first, again, next) /\ next \in {"put", "upsert"}
  BY DEF PatchUserActive
<1>3. UNCHANGED <<ad, cn, rows, found, FoundMissing>>
  BY <1>1, <1>2, UserRequestFrame
<1>4. CASE accounts' = accounts
  BY <1>1, <1>3, <1>4, Stutters
<1>5. CASE accounts' # accounts
  <2>1. accounts' = [accounts EXCEPT ![n] = made]
    <3>1. first.status # "ok" => first.accounts = accounts
      BY DEF PatchActive, Answer
    <3>2. first.status = "ok" /\ accounts' = first.accounts
      BY <1>2, <1>5, <3>1, RequestEffect DEF UserRequest
    <3> QED BY <3>2 DEF PatchActive, Answer
  <2>2. n \in Names /\ accounts[n] \in Account /\ accounts[n] # None /\ accounts[n].ext = cur
    BY <1>1 DEF CurTypes, InStep, AccountIs, AccountMap
  <2>3. /\ made # None /\ made.ext = cur /\ made.attr = accounts[n].attr
        /\ made.active = active
    <3>1. made \in Account /\ made.active = active
      BY <2>2 DEF Account
    <3> QED BY <2>2, <3>1, ApiAssumption DEF Account
  <2>4. accounts'[n] = made /\ \A m \in Names : m # n => accounts'[m] = accounts[m]
    BY <1>1, <2>1, <2>2 DEF CurTypes, AccountMap
  <2>5. \A m \in Names : accounts[m] # None /\ accounts[m].ext = cur => m = n
    BY <1>1 DEF InStep
  <2> HIDE DEF made
  <2>6. HeldBy(accounts, cur) = {account}
    BY <2>2, <2>5, HeldOne
  <2>7. HeldBy(accounts', cur) = {[account EXCEPT !.active = active]}
    <3>1. \A m \in Names : accounts'[m] # None /\ accounts'[m].ext = cur => m = n
      BY <2>4, <2>5
    <3>2. HeldBy(accounts', cur) =
            {[name |-> n, attr |-> accounts'[n].attr, active |-> accounts'[n].active]}
      BY <2>2, <2>3, <2>4, <3>1, HeldOne
    <3> QED BY <2>3, <2>4, <3>2
  <2>8. \A h \in Guids : h # cur => HeldBy(accounts', h) = HeldBy(accounts, h)
    <3>1. ASSUME NEW h \in Guids, h # cur, NEW m \in Names
          PROVE  /\ (accounts'[m] # None /\ accounts'[m].ext = h)
                      <=> (accounts[m] # None /\ accounts[m].ext = h)
                 /\ accounts[m] # None /\ accounts[m].ext = h => accounts'[m] = accounts[m]
      BY <2>2, <2>3, <2>4, <3>1
    <3> QED BY <3>1, HeldSame
  <2>9. UNCHANGED LiveUsers
    BY <1>3 DEF LiveUsers, Live, Has, UserOf
  <2>10. Registry' = [Registry EXCEPT ![cur] = {[account EXCEPT !.active = active]}]
    BY <2>7, <2>8 DEF Registry
  <2>11. account \in Registry[cur]
    BY <1>1, <2>6 DEF Registry, CurTypes
  <2>12. Mirror!Give(cur, [account EXCEPT !.active = active])
    BY <1>3, <2>9, <2>10 DEF Mirror!Give, Registry
  <2>13. found[cur] # None
    BY <1>1, TypesAssumption DEF CurTypes
  <2> HIDE DEF account
  <2> QED BY <2>11, <2>12, <2>13 DEF Mirror!Switch, Registry
<1> QED BY <1>4, <1>5

LEMMA RemoveUserMaps ==
    ASSUME Reliable, TrackInv, TypeInv', NEW g \in Guids, RemoveUser(g)
    PROVE  Mirror!Read \/ Mirror!Retire(g)
<1> DEFINE n == rows[g].name
           first == DeleteAccount(accounts, n)
           again == DeleteAccount(first.accounts, n)
<1>1. /\ pc = "deletions" /\ pc' \in {"deletions", "forget"} /\ g \in todo /\ todo' = todo \ {g}
      /\ UNCHANGED <<ad, cn, rows, found, full>> /\ InStep /\ TypeInv
  BY QuietInStep DEF RemoveUser, TrackInv, Quiet, adVars, store, run
<1>2. CASE accounts' = accounts
  BY <1>1, <1>2, WithinRunReads
<1>3. CASE accounts' # accounts
  <2>1. accounts' = [accounts EXCEPT ![n] = None]
    <3>1. first.status # "ok" => first.accounts = accounts
      BY DEF DeleteAccount, Answer
    <3>2. first.status = "ok" /\ accounts' = first.accounts
      BY <1>3, <3>1, RequestEffect DEF RemoveUser
    <3> QED BY <3>2 DEF DeleteAccount, Answer
  <2>2. rows[g] # None /\ AccountIs(n, g, rows[g]) /\ n \in Names
    BY <1>1 DEF InStep, TypeInv, TypeOK, PhaseOK, UserData
  <2>3. \A m \in Names : accounts'[m] = IF m = n THEN None ELSE accounts[m]
    BY <2>1 DEF TrackInv, TypeInv, TypeOK, ApiTypeOK
  <2>4. \A m \in Names : accounts[m] # None /\ accounts[m].ext = g => m = n
    BY <1>1 DEF InStep
  <2>5. HeldBy(accounts', g) = {}
    BY <2>3, <2>4, HeldNone
  <2>6. \A h \in Guids : h # g => HeldBy(accounts', h) = HeldBy(accounts, h)
    <3>1. ASSUME NEW h \in Guids, h # g, NEW m \in Names
          PROVE  /\ (accounts'[m] # None /\ accounts'[m].ext = h)
                      <=> (accounts[m] # None /\ accounts[m].ext = h)
                 /\ accounts[m] # None /\ accounts[m].ext = h => accounts'[m] = accounts[m]
      BY <2>2, <2>3, <3>1 DEF AccountIs
    <3> QED BY <3>1, HeldSame
  <2>7. UNCHANGED LiveUsers
    BY <1>1 DEF LiveUsers, Live, Has, UserOf
  <2>8. Registry' = [Registry EXCEPT ![g] = {}]
    BY <2>5, <2>6 DEF Registry
  <2>9. g \in FoundMissing /\ (FoundMissing' = FoundMissing \/ FoundMissing' = FoundMissing \ {g})
    <3>1. CASE full
      BY <1>1, <3>1 DEF FoundMissing, TrackInv, StageOK
    <3>2. CASE ~full
      BY <1>1, <3>2 DEF FoundMissing
    <3> QED BY <3>1, <3>2
  <2> QED BY <1>1, <2>7, <2>8, <2>9 DEF Mirror!Retire, Registry
<1> QED BY <1>2, <1>3

\* Membership of vaults is no part of an account here.
LEMMA ChangeMemberMaps ==
    ASSUME TypeInv, TypeInv', NEW g \in Guids, ChangeMember(g)
    PROVE  UNCHANGED <<LiveUsers, found, FoundMissing, Registry>>
<1> DEFINE n == rows[g].name
<1>1. /\ pc = "member" /\ pc' = "member" /\ UNCHANGED <<ad, cn, found, full>>
      /\ accounts \in AccountMap /\ n \in Names
  BY DEF ChangeMember, TypeInv, TypeOK, ApiTypeOK, AccountMap, PhaseOK, UserData,
         adVars, store, run
<1>2. UNCHANGED <<LiveUsers, FoundMissing>>
  BY <1>1 DEF LiveUsers, Live, Has, UserOf, FoundMissing
<1>3. \/ accounts' = accounts
      \/ accounts[n] # None
         /\ \E vs : accounts' = [accounts EXCEPT ![n] = [accounts[n] EXCEPT !.vaults = vs]]
  BY DEF ChangeMember, Request, AddMember, RemoveMember, Answer
<1>4. CASE accounts' = accounts
  BY <1>1, <1>2, <1>4 DEF Registry
<1>5. CASE accounts[n] # None
           /\ \E vs : accounts' = [accounts EXCEPT ![n] = [accounts[n] EXCEPT !.vaults = vs]]
  <2>1. PICK vs : accounts' = [accounts EXCEPT ![n] = [accounts[n] EXCEPT !.vaults = vs]]
    BY <1>5
  <2> DEFINE made == [accounts[n] EXCEPT !.vaults = vs]
  <2>2. accounts[n] \in Account /\ accounts' \in AccountMap
    BY <1>1, <1>5 DEF AccountMap, TypeInv, TypeOK, ApiTypeOK
  <2>3. /\ made.ext = accounts[n].ext /\ made.attr = accounts[n].attr
        /\ made.active = accounts[n].active
    BY <2>2 DEF Account
  <2>4. \A m \in Names : accounts'[m] = IF m = n THEN made ELSE accounts[m]
    BY <1>1, <2>1 DEF AccountMap
  <2>5. made # None
    <3>1. made.vaults \subseteq Groups
      <4>1. cur \in Groups /\ accounts[n].vaults \subseteq Groups
        BY <1>1, <2>2 DEF ChangeMember, TypeInv, PhaseOK, Account
      <4>2. \/ accounts' = accounts
            \/ accounts'[n].vaults \in {accounts[n].vaults \cup {cur}, accounts[n].vaults \ {cur}}
        <5>1. \/ accounts' = accounts
              \/ accounts' = [accounts EXCEPT ![n].vaults = @ \cup {cur}]
              \/ accounts' = [accounts EXCEPT ![n].vaults = @ \ {cur}]
          BY DEF ChangeMember, Request, AddMember, RemoveMember, Answer
        <5>2. ASSUME NEW ws, accounts' = [accounts EXCEPT ![n].vaults = ws]
              PROVE  accounts'[n].vaults = ws
          BY <1>1, <2>2, <5>2 DEF AccountMap, Account
        <5> QED BY <5>1, <5>2
      <4> QED BY <1>1, <2>2, <2>4, <4>1, <4>2
    <3>2. made \in Account
      BY <2>2, <3>1 DEF Account
    <3> QED BY <3>2, ApiAssumption
  <2> HIDE DEF made
  <2>6. \A h \in Guids : HeldBy(accounts', h) = HeldBy(accounts, h)
    <3>1. ASSUME NEW h \in Guids, NEW m \in Names
          PROVE  /\ (accounts'[m] # None /\ accounts'[m].ext = h)
                      <=> (accounts[m] # None /\ accounts[m].ext = h)
                 /\ accounts[m] # None /\ accounts[m].ext = h =>
                       /\ accounts'[m].attr = accounts[m].attr
                       /\ accounts'[m].active = accounts[m].active
      BY <1>5, <2>3, <2>4, <2>5
    <3> QED BY <3>1, HeldSame
  <2> QED BY <1>1, <1>2, <2>6 DEF Registry
<1> QED BY <1>3, <1>4, <1>5

LEMMA NextMaps ==
    ASSUME Reliable, TrackInv, TypeInv', Numbered, [Next]_vars PROVE [Mirror!Next]_(Mirror!vars)
<1>1. CASE UNCHANGED vars
  <2>1. UNCHANGED <<ad, cn, found, pc, full, todo, accounts>>
    BY <1>1 DEF vars, adVars, apiVars, run, loops
  <2>2. UNCHANGED <<LiveUsers, FoundMissing, Registry>>
    BY <2>1 DEF LiveUsers, Live, Has, UserOf, FoundMissing, Registry
  <2> QED BY <2>1, <2>2 DEF Mirror!vars, Registry
<1>2. CASE \E g \in Guids : ChangeMember(g)
  BY <1>2, ChangeMemberMaps DEF TrackInv, Mirror!vars, Registry
<1>3. CASE AdStep
  BY <1>3, AdStepChanges DEF TrackInv, Mirror!Next
<1>4. CASE CreateUser \/ PatchUserActive \/ UpdateUser
  <2>1. cur \in Guids
    BY <1>4 DEF TrackInv, TypeInv, PhaseOK, UserSteps, CreateUser, PatchUserActive, UpdateUser
  <2> QED BY <1>4, <2>1, CreateUserMaps, PatchUserActiveMaps, UpdateUserMaps DEF Mirror!Next
<1>5. CASE \E g \in Guids : RemoveUser(g)
  BY <1>5, RemoveUserMaps DEF Mirror!Next
<1>6. CASE \/ \E asked \in RunKinds : StartRun(asked)
           \/ ReadAll \/ EndSearch \/ \E g \in Guids : ReadEntry(g)
  BY <1>6, SearchesRead DEF TrackInv, Mirror!Next
<1>7. CASE \/ \E g \in Guids : LookUpUser(g) \/ SkipTombstone(g)
           \/ \E gr \in Groups : SyncGroup(gr) \/ OpenGroup(gr)
           \/ UpsertUser \/ ForgetUser \/ ListDeletions
           \/ SearchGroups \/ BeginMembership \/ LoadMembership \/ StoreMembers
           \/ FinishRun \/ FailSearch \/ Crash
  BY <1>7, OtherStepsRead DEF TrackInv, Mirror!Next
<1> QED BY <1>1, <1>2, <1>3, <1>4, <1>5, <1>6, <1>7 DEF Next, Step

LEMMA InitMaps == ASSUME Init PROVE Mirror!Init
<1>1. /\ LiveUsers = [g \in Guids |-> None]
      /\ FoundMissing = {}
      /\ Registry = [g \in Guids |-> {}]
  BY HeldNone DEF Init, AdInit, ApiInit, LiveUsers, Live, Has, FoundMissing, Registry
<1> QED BY <1>1 DEF Mirror!Init, Mirror!Users, Registry, Init

\* The engine implements the specification by identities: for any directory,
\* any renames, swaps and restorations of users, any refused requests, failed
\* searches and overlapping changes.
THEOREM EngineRefinesMirror == ASSUME Reliable PROVE Spec => MirrorsDirectory
<1>1. Init => TrackInv /\ Numbered
  BY InitType DEF Init, AdInit, ApiInit, TrackInv, RowsTrackAccounts, Settled, StageOK, Numbered
<1>2. TrackInv /\ Numbered /\ [Next]_vars => TrackInv' /\ Numbered'
  BY NextTrack, NextNumbered DEF TrackInv
<1>3. Init => Mirror!Init
  BY InitMaps
<1>4. TrackInv /\ Numbered /\ [Next]_vars => [Mirror!Next]_(Mirror!vars)
  <2>1. TrackInv /\ [Next]_vars => TypeInv'
    BY NextType DEF TrackInv
  <2> QED BY <2>1, NextMaps
<1> QED BY <1>1, <1>2, <1>3, <1>4, PTL DEF Spec, MirrorsDirectory, Mirror!Spec

-----------------------------------------------------------------------------
(* What a full run that counted no error leaves on the service: the         *)
(* accounts of the users its search found, and no others.                    *)

\* A full run, not dry, that has counted no error or skipped user yet.
CleanSoFar == full /\ ~dry /\ clean

\* The row of g is what the search said of it, the flag aside.
RowFound(g) ==
    /\ rows[g] # None
    /\ rows[g].name = found[g].name
    /\ rows[g].attr = found[g].attr

\* The users such a run is done with have their rows ...
FoundStored ==
    CleanSoFar /\ pc \notin {"idle", "search"} =>
        \A g \in Guids : found[g] # None /\ ~Pending(g) => RowFound(g)

\* ... and every row of a user it did not find is listed for removal, and
\* gone once the removals are over.
NotFoundListed ==
    CleanSoFar /\ pc \in {"deletions", "forget", "groups", "membership", "group", "member"} =>
        \A g \in Guids :
            rows[g] # None /\ found[g] = None =>
                \/ pc \in {"deletions", "forget"} /\ g \in todo
                \/ pc = "forget" /\ g = cur

CleanInv == FoundStored /\ NotFoundListed

-----------------------------------------------------------------------------
(* One lemma per kind of step. *)

\* The search: all users found are still to be looked at.
LEMMA SearchClean ==
    ASSUME TrackInv,
           \/ \E asked \in RunKinds : StartRun(asked)
           \/ ReadAll \/ EndSearch \/ \E g \in Guids : ReadEntry(g)
    PROVE  CleanInv'
<1>1. /\ pc' \in {"search", "users"}
      /\ pc' = "users" => \A g \in Guids : found'[g] # None => g \in todo'
  <2>1. CASE \E asked \in RunKinds : StartRun(asked)
    BY <2>1 DEF StartRun
  <2>2. CASE ReadAll
    BY <2>2 DEF ReadAll, SearchAtOnce
  <2>3. CASE EndSearch
    BY <2>3 DEF EndSearch, run
  <2>4. CASE \E g \in Guids : ReadEntry(g)
    BY <2>4 DEF ReadEntry
  <2> QED BY <2>1, <2>2, <2>3, <2>4
<1> QED BY <1>1 DEF CleanInv, FoundStored, NotFoundListed, Pending, Processing

\* A user without a difference is stored as found.
LEMMA LookUpUserClean ==
    ASSUME TrackInv, CleanInv, NEW g \in Guids, LookUpUser(g) PROVE CleanInv'
<1>1. pc = "users" /\ todo' = todo \ {g} /\ UNCHANGED <<rows, found, full, dry>>
  BY DEF LookUpUser, store, run
<1>2. CASE Fault("store") /\ clean' = FALSE
  BY <1>2 DEF CleanInv, CleanSoFar, FoundStored, NotFoundListed
<1>3. CASE /\ pc' = FirstStep(g) /\ UNCHANGED clean
           /\ IF pc' = "users" THEN UNCHANGED cur ELSE cur' = g
  <2>1. pc' \in {"create", "patch", "put", "users"}
    BY <1>3 DEF FirstStep
  <2>2. NotFoundListed'
    BY <2>1 DEF NotFoundListed
  <2>3. ASSUME NEW h \in Guids, CleanSoFar', found[h] # None, ~Pending(h)'
        PROVE  RowFound(h)'
    <3>1. CASE h = g
      <4>1. pc' = "users"
        BY <1>3, <2>1, <2>3, <3>1 DEF Pending, Processing
      <4> QED BY <1>1, <1>3, <3>1, <4>1 DEF FirstStep, AttributesChanged, RowFound
    <3>2. CASE h # g
      <4>1. ~Pending(h)
        BY <1>1, <1>3, <2>1, <2>3, <3>2 DEF Pending, Processing
      <4>2. CleanSoFar /\ pc \notin {"idle", "search"}
        BY <1>1, <1>3, <2>3 DEF CleanSoFar
      <4> QED BY <1>1, <2>3, <4>1, <4>2 DEF CleanInv, FoundStored, RowFound
    <3> QED BY <3>1, <3>2
  <2> QED BY <1>1, <2>2, <2>3 DEF CleanInv, FoundStored
<1> QED BY <1>2, <1>3 DEF LookUpUser

\* A request that fails is counted, one that does not leaves the user pending.
LEMMA UserRequestClean ==
    ASSUME CleanInv, CreateUser \/ PatchUserActive \/ UpdateUser PROVE CleanInv'
<1>1. /\ pc \in {"create", "patch", "put"} /\ UNCHANGED <<rows, found, full, dry, todo>>
      /\ \/ clean' = FALSE
         \/ pc' \in {"put", "upsert"} /\ UNCHANGED <<cur, clean>>
  BY DEF CreateUser, PatchUserActive, UpdateUser, UserRequest, Proceed, GiveUp, store, run
<1>2. CASE clean' = FALSE
  BY <1>2 DEF CleanInv, CleanSoFar, FoundStored, NotFoundListed
<1>3. CASE pc' \in {"put", "upsert"} /\ UNCHANGED <<cur, clean>>
  <2>1. \A g \in Guids : Pending(g)' <=> Pending(g)
    BY <1>1, <1>3 DEF Pending, Processing
  <2>2. FoundStored'
    BY <1>1, <1>3, <2>1 DEF CleanInv, CleanSoFar, FoundStored, RowFound
  <2> QED BY <1>3, <2>2 DEF CleanInv, NotFoundListed
<1> QED BY <1>1, <1>2, <1>3

LEMMA UpsertUserClean == ASSUME Reliable, TrackInv, CleanInv, UpsertUser PROVE CleanInv'
<1>1. /\ pc = "upsert" /\ pc' = "users" /\ UNCHANGED <<found, full, dry, todo>>
      /\ cur \in Guids /\ found[cur] # None
  BY DEF UpsertUser, TrackInv, TypeInv, PhaseOK, UserSteps, run
<1>2. NotFoundListed'
  BY <1>1 DEF NotFoundListed
<1>3. ASSUME NEW g \in Guids, CleanSoFar', found[g] # None, ~Pending(g)'
      PROVE  RowFound(g)'
  <2>1. ~dry /\ rows' = [rows EXCEPT ![cur] = found[cur]] /\ UNCHANGED clean
    BY <1>1, <1>3 DEF CleanSoFar, UpsertUser, Written, Fault, Reliable
  <2>2. rows'[g] = IF g = cur THEN found[cur] ELSE rows[g]
    BY <2>1 DEF TrackInv, TypeInv, TypeOK
  <2>3. g # cur => ~Pending(g)
    BY <1>1, <1>3 DEF Pending, Processing
  <2> QED BY <1>1, <1>3, <2>1, <2>2, <2>3 DEF CleanInv, CleanSoFar, FoundStored, RowFound
<1> QED BY <1>1, <1>2, <1>3 DEF CleanInv, FoundStored

\* The users are done with; who was not found is on the list.
LEMMA ListDeletionsClean == ASSUME Reliable, CleanInv, ListDeletions PROVE CleanInv'
<1>1. /\ pc = "users" /\ todo = {} /\ pc' = "deletions"
      /\ UNCHANGED <<rows, found, full, dry, clean>>
      /\ full => todo' = Missing
  BY DEF ListDeletions, Departed, Fault, Reliable, store, run
<1>2. FoundStored'
  BY <1>1 DEF CleanInv, CleanSoFar, FoundStored, Pending, Processing, RowFound
<1>3. NotFoundListed'
  BY <1>1 DEF CleanSoFar, NotFoundListed, Missing
<1> QED BY <1>2, <1>3 DEF CleanInv

\* A removal that fails is counted; the row goes with the account.
LEMMA RemovalsClean ==
    ASSUME Reliable, TrackInv, CleanInv,
           ForgetUser \/ \E g \in Guids : RemoveUser(g) \/ SkipTombstone(g)
    PROVE  CleanInv'
<1>1. CASE \E g \in Guids : RemoveUser(g) \/ SkipTombstone(g)
  <2>1. PICK g \in Guids : RemoveUser(g) \/ SkipTombstone(g)
    BY <1>1
  <2>2. /\ pc = "deletions" /\ todo' = todo \ {g} /\ UNCHANGED <<rows, found, full, dry>>
        /\ \/ ~CleanSoFar'
           \/ pc' = "forget" /\ cur' = g /\ UNCHANGED clean
    BY <2>1 DEF RemoveUser, SkipTombstone, CleanSoFar, store, run
  <2> QED BY <2>2 DEF CleanInv, CleanSoFar, FoundStored, NotFoundListed, Pending, Processing,
                      RowFound
<1>2. CASE ForgetUser
  <2>1. /\ pc = "forget" /\ pc' = "deletions" /\ cur \in Guids
        /\ UNCHANGED <<found, full, dry, clean, todo>>
    BY <1>2 DEF ForgetUser, TrackInv, TypeInv, PhaseOK, UserSteps, run
  <2>2. ASSUME CleanSoFar'
        PROVE  /\ found[cur] = None
               /\ \A g \in Guids : rows'[g] = IF g = cur THEN None ELSE rows[g]
    <3>1. full /\ ~dry
      BY <2>1, <2>2 DEF CleanSoFar
    <3>2. rows' = [rows EXCEPT ![cur] = None]
      BY <1>2, <3>1 DEF ForgetUser, Written, Fault, Reliable
    <3> QED BY <2>1, <3>1, <3>2 DEF TrackInv, TypeInv, TypeOK, StageOK
  <2>3. FoundStored'
    BY <2>1, <2>2 DEF CleanInv, CleanSoFar, FoundStored, Pending, Processing, RowFound
  <2>4. NotFoundListed'
    BY <2>1, <2>2 DEF CleanInv, CleanSoFar, NotFoundListed
  <2> QED BY <2>3, <2>4 DEF CleanInv
<1> QED BY <1>1, <1>2

\* Groups and vaults come after the removals and leave the users' rows alone.
LEMMA GroupStepsClean ==
    ASSUME CleanInv,
           \/ \E gr \in Groups : SyncGroup(gr) \/ OpenGroup(gr)
           \/ \E g \in Guids : ChangeMember(g)
           \/ SearchGroups \/ BeginMembership \/ LoadMembership \/ StoreMembers
    PROVE  CleanInv'
<1>1. /\ UNCHANGED <<rows, found, full, dry>>
      /\ \/ pc \in {"groups", "membership", "group", "member"}
         \/ pc = "deletions" /\ todo = {}
      /\ pc' \in {"groups", "membership", "group", "member"}
  BY DEF SyncGroup, OpenGroup, ChangeMember, SearchGroups, BeginMembership, LoadMembership,
         StoreMembers, store, run
<1>2. clean' => clean
  <2>1. CASE \E g \in Guids : ChangeMember(g)
    BY <2>1, Zenon DEF ChangeMember
  <2>2. CASE ~\E g \in Guids : ChangeMember(g)
    BY <2>2 DEF SyncGroup, OpenGroup, SearchGroups, BeginMembership, LoadMembership,
                StoreMembers, loops
  <2> QED BY <2>1, <2>2
<1>3. FoundStored'
  BY <1>1, <1>2 DEF CleanInv, CleanSoFar, FoundStored, Pending, Processing, RowFound
<1>4. NotFoundListed'
  BY <1>1, <1>2 DEF CleanInv, CleanSoFar, NotFoundListed
<1> QED BY <1>3, <1>4 DEF CleanInv

LEMMA NextClean == ASSUME Reliable, TrackInv, CleanInv, [Next]_vars PROVE CleanInv'
<1>1. CASE AdStep \/ UNCHANGED vars
  <2>1. UNCHANGED <<rows, found, full, dry, clean, pc, todo, cur>>
    BY <1>1 DEF AdStep, vars, store, run, loops
  <2>2. \A g \in Guids : Pending(g)' <=> Pending(g)
    BY <2>1 DEF Pending, Processing
  <2> QED BY <2>1, <2>2 DEF CleanInv, CleanSoFar, FoundStored, NotFoundListed, RowFound
<1>2. CASE \/ \E asked \in RunKinds : StartRun(asked)
           \/ ReadAll \/ EndSearch \/ \E g \in Guids : ReadEntry(g)
  BY <1>2, SearchClean
<1>3. CASE \E g \in Guids : LookUpUser(g)
  BY <1>3, LookUpUserClean
<1>4. CASE CreateUser \/ PatchUserActive \/ UpdateUser
  BY <1>4, UserRequestClean
<1>5. CASE UpsertUser \/ ListDeletions
  BY <1>5, UpsertUserClean, ListDeletionsClean
<1>6. CASE ForgetUser \/ \E g \in Guids : RemoveUser(g) \/ SkipTombstone(g)
  BY <1>6, RemovalsClean
<1>7. CASE \/ \E gr \in Groups : SyncGroup(gr) \/ OpenGroup(gr)
           \/ \E g \in Guids : ChangeMember(g)
           \/ SearchGroups \/ BeginMembership \/ LoadMembership \/ StoreMembers
  BY <1>7, GroupStepsClean
<1>8. CASE FinishRun \/ FailSearch \/ Crash
  BY <1>8 DEF FinishRun, FailSearch, Crash, DropLocals, CleanInv, FoundStored, NotFoundListed
<1> QED BY <1>1, <1>2, <1>3, <1>4, <1>5, <1>6, <1>7, <1>8 DEF Next, Step

\* At the end of such a run the accounts are those of the users found: each
\* has its row, the row tells where the account is, and no row is left over.
LEMMA CleanMirrors == ASSUME TrackInv, CleanInv PROVE CleanFullRunMirrors
<1> SUFFICES ASSUME AtEnd, full, ~dry, clean PROVE Mirrors(found)
  BY DEF CleanFullRunMirrors
<1>1. InStep
  BY QuietInStep DEF TrackInv, Quiet, AtEnd
<1>2. \A g \in Guids : found[g] # None => RowFound(g)
  BY DEF CleanInv, CleanSoFar, FoundStored, AtEnd, Pending, Processing
<1>3. \A g \in Guids : rows[g] # None => found[g] # None
  BY DEF CleanInv, CleanSoFar, NotFoundListed, AtEnd
<1>4. \A n \in Names : accounts[n] # None => accounts[n].ext \in Guids
  BY DEF TrackInv, TypeInv, TypeOK, ApiTypeOK, Account
<1> QED BY <1>1, <1>2, <1>3, <1>4 DEF Mirrors, InStep, AccountIs, RowFound

\* A full run that counted no error has made the accounts those of the users
\* its search found, under their names and with their attributes, whatever the
\* state database and earlier runs left it to start from and however the
\* directory changes meanwhile.
THEOREM CleanRunCorrect == ASSUME Reliable PROVE Spec => []CleanFullRunMirrors
<1>1. Init => TrackInv /\ CleanInv
  BY InitType DEF Init, ApiInit, TrackInv, RowsTrackAccounts, Settled, StageOK,
                  CleanInv, FoundStored, NotFoundListed
<1>2. TrackInv /\ CleanInv /\ [Next]_vars => TrackInv' /\ CleanInv'
  BY NextTrack, NextClean
<1>3. TrackInv /\ CleanInv => CleanFullRunMirrors
  BY CleanMirrors
<1> QED BY <1>1, <1>2, <1>3, PTL DEF Spec

-----------------------------------------------------------------------------
(* A directory that has been synced stays so, whatever is lost. *)

AtRest == Synced /\ NothingPending

LEMMA SyncedKept == ASSUME Synced, UNCHANGED <<ad, rows>> PROVE Synced'
<1>1. \A g \in Guids : /\ Live(g)' <=> Live(g)
                       /\ RowMatches(g)' <=> RowMatches(g)
  BY DEF Live, Has, RowMatches, RowIs, Agree
<1> QED BY <1>1 DEF Synced

LEMMA FrameRest ==
    ASSUME AtRest, UNCHANGED <<ad, rows, found>>,
           pc' \notin UserSteps, pc' = "deletions" => todo' = {},
           full' /\ pc' # "idle" =>
               \A g \in Guids : Live(g) => found[g] # None \/ (pc' = "search" /\ g \in todo')
    PROVE  AtRest'
<1>1. \A g \in Guids : /\ Live(g)' <=> Live(g)
                       /\ Agree(found[g], ad[g])' <=> Agree(found[g], ad[g])
  BY DEF Live, Has, Agree
<1>2. Synced'
  BY SyncedKept DEF AtRest
<1>3. NothingPending'
  BY <1>1 DEF AtRest, NothingPending
<1> QED BY <1>2, <1>3 DEF AtRest

\* What a search has read after a step is so, and all of it when it is over.
ReadsWhatIs ==
    /\ pc' \in {"search", "users"}
    /\ \A g \in Guids : found'[g] # None => Live(g) /\ Agree(found'[g], ad[g])
    /\ full' => \A g \in Guids : Live(g) =>
                    found'[g] # None \/ (pc' = "search" /\ g \in todo')

LEMMA ReadRest == ASSUME AtRest, UNCHANGED <<ad, rows>>, ReadsWhatIs PROVE AtRest'
<1>1. Synced'
  BY SyncedKept DEF AtRest
<1>2. \A g \in Guids : Live(g)' <=> Live(g)
  BY DEF Live, Has
<1>3. \A g \in Guids : found'[g] # None => Live(g)' /\ Agree(found'[g], ad'[g])
  BY <1>2 DEF ReadsWhatIs
<1>4. pc' \notin UserSteps /\ pc' # "deletions"
  BY DEF ReadsWhatIs, UserSteps
<1>5. full' => \A g \in Guids : Live(g)' => found'[g] # None \/ (pc' = "search" /\ g \in todo')
  BY <1>2 DEF ReadsWhatIs
<1>6. NothingPending'
  BY <1>3, <1>4, <1>5 DEF NothingPending
<1> QED BY <1>1, <1>6 DEF AtRest

\* A search reads only what is so.
LEMMA SearchesRest ==
    ASSUME TypeInv, Numbered, AtRest,
           \/ \E asked \in RunKinds : StartRun(asked)
           \/ ReadAll \/ EndSearch \/ \E g \in Guids : ReadEntry(g)
    PROVE  AtRest' /\ accounts' = accounts
<1>1. UNCHANGED <<ad, rows, accounts>>
  BY DEF StartRun, ReadAll, EndSearch, ReadEntry, adVars, apiVars, store
<1>2. \A g \in Guids : g \in Search(0) <=> Live(g)
  BY SearchAll
<1>3. \A g \in Guids : Live(g) => UserOf(g) # None /\ Agree(UserOf(g), ad[g])
  <2>1. \A g \in Guids : Live(g) => UserOf(g) # None
    BY UserOfType DEF TypeInv, TypeOK, Live, Has
  <2>2. \A g \in Guids : Agree(UserOf(g), ad[g])
    BY DEF Agree, UserOf
  <2> QED BY <2>1, <2>2
<1>4. \A low : \A g \in Guids : g \in Search(low) => Live(g)
  BY DEF Search
<1>5. /\ \A g \in Guids : found[g] # None => Live(g) /\ Agree(found[g], ad[g])
      /\ full /\ pc # "idle" => \A g \in Guids : Live(g) =>
                                    found[g] # None \/ (pc = "search" /\ g \in todo)
  BY DEF AtRest, NothingPending
<1>6. CASE \E asked \in RunKinds : StartRun(asked)
  <2>1. pc' = "search" /\ todo' = Guids /\ found' = found
    BY <1>6 DEF StartRun
  <2>2. ReadsWhatIs
    BY <1>5, <2>1 DEF ReadsWhatIs
  <2> QED BY <1>1, <2>2, ReadRest
<1>7. CASE ReadAll
  <2> DEFINE low == IF full THEN 0 ELSE hwm
             seen == Search(low)
  <2>1. SearchAtOnce(low) /\ UNCHANGED full
    BY <1>7 DEF ReadAll
  <2>2. pc' = "users" /\ \A g \in Guids : found'[g] = IF g \in seen THEN UserOf(g) ELSE None
    BY <2>1 DEF SearchAtOnce
  <2>3. \A g \in Guids : g \in seen => Live(g)
    BY <1>4
  <2>4. full => \A g \in Guids : Live(g) => g \in seen
    <3>1. CASE full
      BY <1>2, <3>1
    <3> QED BY <3>1
  <2> HIDE DEF low, seen
  <2>5. \A g \in Guids : found'[g] # None => Live(g) /\ Agree(found'[g], ad[g])
    BY <1>3, <2>2, <2>3
  <2>6. full' => \A g \in Guids : Live(g) => found'[g] # None
    BY <1>3, <2>1, <2>2, <2>4
  <2>7. ReadsWhatIs
    BY <2>2, <2>5, <2>6 DEF ReadsWhatIs
  <2> QED BY <1>1, <2>7, ReadRest
<1>8. CASE EndSearch
  <2>1. pc = "search" /\ pc' = "users" /\ todo = {} /\ UNCHANGED <<found, full>>
    BY <1>8 DEF EndSearch, run
  <2>2. ReadsWhatIs
    BY <1>5, <2>1 DEF ReadsWhatIs
  <2> QED BY <1>1, <2>2, ReadRest
<1>9. CASE \E g \in Guids : ReadEntry(g)
  <2>1. PICK g \in Guids : ReadEntry(g)
    BY <1>9
  <2> DEFINE hit == g \in Search(IF full THEN 0 ELSE hwm)
  <2>2. /\ pc = "search" /\ pc' = "search" /\ todo' = todo \ {g} /\ UNCHANGED full
        /\ found' = IF hit THEN [found EXCEPT ![g] = UserOf(g)] ELSE found
    BY <2>1 DEF ReadEntry
  <2>3. hit => Live(g)
    BY <1>4
  <2>4. full => (Live(g) => hit)
    BY <1>2
  <2>5. \A h \in Guids : found'[h] = IF h = g /\ hit THEN UserOf(g) ELSE found[h]
    BY <2>2 DEF TypeInv, TypeOK
  <2> HIDE DEF hit
  <2>6. \A h \in Guids : found'[h] # None => Live(h) /\ Agree(found'[h], ad[h])
    BY <1>3, <1>5, <2>3, <2>5
  <2>7. full' => \A h \in Guids : Live(h) => found'[h] # None \/ h \in todo'
    BY <1>3, <1>5, <2>2, <2>4, <2>5
  <2>8. ReadsWhatIs
    BY <2>2, <2>6, <2>7 DEF ReadsWhatIs
  <2> QED BY <1>1, <2>8, ReadRest
<1> QED BY <1>6, <1>7, <1>8, <1>9, <1>1

\* Nobody who was found differs from the row.
LEMMA LookUpUserRest ==
    ASSUME TypeInv, AtRest, NEW g \in Guids, LookUpUser(g) PROVE AtRest' /\ accounts' = accounts
<1>1. /\ pc = "users" /\ g \in todo
      /\ UNCHANGED <<ad, rows, found, full, accounts>>
      /\ pc' \in {pc, FirstStep(g)}
  BY DEF LookUpUser, adVars, apiVars, store, run
<1>2. found[g] # None
  BY <1>1 DEF TypeInv, PhaseOK, Processing
<1>3. rows[g] # None /\ Agree(rows[g], found[g])
  BY <1>2 DEF AtRest, Synced, NothingPending, RowMatches, RowIs, Agree
<1>4. FirstStep(g) = "users"
  BY <1>3 DEF FirstStep, ActiveChanged, AttributesChanged, Agree
<1>5. full => \A h \in Guids : Live(h) => found[h] # None
  BY <1>1 DEF AtRest, NothingPending
<1> QED BY <1>1, <1>4, <1>5, FrameRest DEF UserSteps

\* Nobody who has a row is missing, or has a tombstone.
LEMMA ListDeletionsRest ==
    ASSUME AtRest, ListDeletions PROVE AtRest' /\ accounts' = accounts
<1>1. /\ pc = "users" /\ pc' = "deletions" /\ todo' \in {{}, Departed}
      /\ UNCHANGED <<ad, rows, found, full, accounts>>
  BY DEF ListDeletions, adVars, apiVars, store, run
<1>2. full => \A g \in Guids : Live(g) => found[g] # None
  BY <1>1 DEF AtRest, NothingPending
<1>3. full => Missing = {}
  BY <1>2 DEF AtRest, Synced, Missing
<1>4. Buried = {}
  BY DEF AtRest, Synced, Buried, Tombstones, Live, Has
<1>5. todo' = {}
  BY <1>1, <1>3, <1>4 DEF Departed
<1> QED BY <1>1, <1>2, <1>5, FrameRest DEF UserSteps

\* Membership requests leave the accounts as they are but for the vaults.
LEMMA GroupStepsRest ==
    ASSUME TypeInv, TypeInv', AtRest,
           \/ \E gr \in Groups : SyncGroup(gr) \/ OpenGroup(gr)
           \/ \E g \in Guids : ChangeMember(g)
           \/ SearchGroups \/ BeginMembership \/ LoadMembership \/ StoreMembers
    PROVE  AtRest' /\ Registry' = Registry
<1>1. /\ UNCHANGED <<ad, rows, found, full>>
      /\ pc \notin {"idle", "search"}
      /\ pc' \in {"groups", "membership", "group", "member"}
  BY DEF SyncGroup, OpenGroup, ChangeMember, SearchGroups, BeginMembership, LoadMembership,
         StoreMembers, adVars, store, run
<1>2. full => \A g \in Guids : Live(g) => found[g] # None
  BY <1>1 DEF AtRest, NothingPending
<1>3. AtRest'
  BY <1>1, <1>2, FrameRest DEF UserSteps
<1>4. Registry' = Registry
  <2>1. CASE \E g \in Guids : ChangeMember(g)
    BY <2>1, ChangeMemberMaps
  <2>2. CASE ~\E g \in Guids : ChangeMember(g)
    <3>1. accounts' = accounts
      BY <2>2 DEF SyncGroup, OpenGroup, SearchGroups, BeginMembership, LoadMembership,
                  StoreMembers, apiVars
    <3> QED BY <3>1 DEF Registry
  <2> QED BY <2>1, <2>2
<1> QED BY <1>3, <1>4

\* The end of a run, and the death of the process, leave the rows.
LEMMA EndsRest ==
    ASSUME AtRest, FinishRun \/ FailSearch \/ Crash PROVE AtRest' /\ accounts' = accounts
<1>1. /\ UNCHANGED <<ad, rows, accounts>>
      /\ pc' = "idle" /\ \A g \in Guids : found'[g] = None
  BY DEF FinishRun, FailSearch, Crash, DropLocals, adVars, apiVars, store
<1>2. Synced'
  BY <1>1, SyncedKept DEF AtRest
<1>3. NothingPending'
  BY <1>1 DEF NothingPending, UserSteps
<1> QED BY <1>1, <1>2, <1>3 DEF AtRest

LEMMA NextRest ==
    ASSUME TypeInv, TypeInv', Numbered, AtRest, UNCHANGED ad, Next
    PROVE  AtRest' /\ Registry' = Registry
<1>1. accounts' = accounts => Registry' = Registry
  BY DEF Registry
<1>2. CASE AdStep
  <2>1. UNCHANGED <<rows, found, full, pc, todo, accounts>>
    BY <1>2 DEF AdStep, apiVars, store, run, loops
  <2> QED BY <1>1, <2>1, FrameRest DEF AtRest, NothingPending
<1>3. CASE \/ \E asked \in RunKinds : StartRun(asked)
           \/ ReadAll \/ EndSearch \/ \E g \in Guids : ReadEntry(g)
  BY <1>1, <1>3, SearchesRest
<1>4. CASE ListDeletions \/ \E g \in Guids : LookUpUser(g)
  BY <1>1, <1>4, LookUpUserRest, ListDeletionsRest
<1>5. CASE CreateUser \/ PatchUserActive \/ UpdateUser \/ UpsertUser \/ ForgetUser
  <2>1. pc \in UserSteps
    BY <1>5 DEF CreateUser, PatchUserActive, UpdateUser, UpsertUser, ForgetUser, UserSteps
  <2> QED BY <2>1 DEF AtRest, NothingPending
<1>6. CASE \E g \in Guids : RemoveUser(g) \/ SkipTombstone(g)
  <2>1. pc = "deletions" /\ todo # {}
    BY <1>6 DEF RemoveUser, SkipTombstone
  <2> QED BY <2>1 DEF AtRest, NothingPending
<1>7. CASE \/ \E gr \in Groups : SyncGroup(gr) \/ OpenGroup(gr)
           \/ \E g \in Guids : ChangeMember(g)
           \/ SearchGroups \/ BeginMembership \/ LoadMembership \/ StoreMembers
  BY <1>7, GroupStepsRest
<1>8. CASE FinishRun \/ FailSearch \/ Crash
  BY <1>1, <1>8, EndsRest
<1> QED BY <1>2, <1>3, <1>4, <1>5, <1>6, <1>7, <1>8 DEF Next, Step

\* Once the users table is as the directory is, no run touches an account or a
\* row until an administrator changes a user: whatever is refused, lost or
\* dies, and of however many pages the searches are.
THEOREM SyncedCorrect == Spec => SyncedStays
<1>1. Init => TypeInv /\ Numbered
  BY InitType DEF Init, AdInit, Numbered
<1>2. TypeInv /\ Numbered /\ [Next]_vars => TypeInv' /\ Numbered'
  BY NextType, NextNumbered
<1>3. TypeInv /\ TypeInv' /\ Numbered /\ [Next]_vars =>
          [AtRest /\ UNCHANGED ad => AtRest' /\ Registry' = Registry]_vars
  BY NextRest
<1>4. ASSUME AtRest /\ UNCHANGED ad => AtRest' /\ Registry' = Registry,
             Synced, NothingPending, UNCHANGED ad
      PROVE  /\ Synced' /\ NothingPending'
             /\ \A g \in Guids : HeldBy(accounts', g) = HeldBy(accounts, g)
  <2>1. AtRest' /\ Registry' = Registry
    BY <1>4 DEF AtRest
  <2>2. \A g \in Guids : Registry'[g] = Registry[g]
    BY <2>1
  <2> QED BY <2>1, <2>2 DEF AtRest, Registry
<1>5. [AtRest /\ UNCHANGED ad => AtRest' /\ Registry' = Registry]_vars =>
          [Synced /\ NothingPending /\ UNCHANGED ad =>
              /\ Synced' /\ NothingPending'
              /\ \A g \in Guids : HeldBy(accounts', g) = HeldBy(accounts, g)]_vars
  BY <1>4
<1> QED BY <1>1, <1>2, <1>3, <1>5, PTL DEF Spec, SyncedStays
=============================================================================
