--------------------------- MODULE SyncKeptProofs ---------------------------
(***************************************************************************)
(* What holds however many answers are lost, writes fail and processes die *)
(* as long as usernames stay with their holders: everything on the service *)
(* and in the state database is under the name of its holder, nobody is    *)
(* removed, and the engine implements DirectoryMirror.                     *)
(***************************************************************************)
EXTENDS SyncMirrorProofs

\* No username changes hands: administrators add users, edit, disable and
\* regroup them, and rename groups.
NamesKept == Moves \cap {"rename", "delete", "hide"} = {}

-----------------------------------------------------------------------------
(* When names are kept, whatever else goes wrong. *)

\* Everybody in the directory is there to stay, under a name of his own.
HoldersOK ==
    /\ \A g \in Guids : ad[g] # None => Live(g) /\ ad[g].usn >= 1
    /\ \A g, h \in Guids :
          ad[g] # None /\ ad[h] # None /\ ad[g].name = ad[h].name => g = h

Holds(g, n) == ad[g] # None /\ ad[g].name = n

\* Rows, entries and accounts are under the names of their holders.
NamesOK ==
    /\ \A g \in Guids : rows[g] # None => Holds(g, rows[g].name)
    /\ \A g \in Guids : found[g] # None => Holds(g, found[g].name)
    /\ \A n \in Names : accounts[n] # None => Holds(accounts[n].ext, n)

\* A row, and a row about to be written, has its account (an account may have
\* no row: the answer to its POST was lost, or the process died).
RowsHaveAccounts ==
    /\ \A g \in Guids : rows[g] # None => accounts[rows[g].name] # None
    /\ pc = "upsert" /\ ~dry => accounts[found[cur].name] # None

\* A full search finds everybody with a row, and nobody is removed.
NobodyLeaves ==
    /\ full /\ pc = "search" => \A g \in Guids : rows[g] # None => g \in todo \/ found[g] # None
    /\ full /\ Processing => \A g \in Guids : rows[g] # None => found[g] # None
    /\ pc = "deletions" => todo = {}
    /\ pc # "forget"

KeptInv == TypeInv /\ HoldersOK /\ NamesOK /\ RowsHaveAccounts /\ NobodyLeaves

\* Administrators add users under free names and let the others keep theirs.
LEMMA AdNextKept ==
    ASSUME NamesKept, AdTypeOK, HoldersOK, AdNext
    PROVE  /\ HoldersOK'
           /\ \A g \in Guids : ad[g] # None => ad'[g] # None /\ ad'[g].name = ad[g].name
<1>1. CASE \E gr \in Groups : RenameGroup(gr)
  BY <1>1 DEF RenameGroup, HoldersOK, Live, Has
<1>2. ASSUME NEW g \in Guids, NEW entry \in Entry, Write(g, entry), entry.status = "live",
             \/ ad[g] # None /\ entry.name = ad[g].name
             \/ ad[g] = None /\ FreeInAd(entry.name)
      PROVE  /\ HoldersOK'
             /\ \A h \in Guids : ad[h] # None => ad'[h] # None /\ ad'[h].name = ad[h].name
  <2> DEFINE made == [entry EXCEPT !.usn = usn + 1]
  <2>1. made \in Entry /\ made.status = "live" /\ made.name = entry.name /\ made.usn >= 1
    BY <1>2 DEF Entry, AdTypeOK
  <2>2. made # None
    BY <2>1, DirectoryAssumption
  <2>3. \A h \in Guids : ad'[h] = IF h = g THEN made ELSE ad[h]
    BY <1>2 DEF Write, AdTypeOK
  <2> HIDE DEF made
  <2>4. \A h \in Guids : h # g /\ ad[h] # None => ad[h].name # entry.name
    BY <1>2 DEF HoldersOK, FreeInAd, Present
  <2>5. \A h \in Guids : ad'[h] # None => Live(h)' /\ ad'[h].usn >= 1
    BY <2>1, <2>2, <2>3 DEF HoldersOK, Live, Has
  <2>6. \A h, k \in Guids :
            ad'[h] # None /\ ad'[k] # None /\ ad'[h].name = ad'[k].name => h = k
    BY <2>1, <2>3, <2>4 DEF HoldersOK
  <2> QED BY <1>2, <2>1, <2>2, <2>3, <2>5, <2>6 DEF HoldersOK
<1>3. ASSUME NEW g \in Guids, AddUser(g)
      PROVE  \E entry \in Entry : /\ Write(g, entry) /\ entry.status = "live"
                                  /\ ad[g] = None /\ FreeInAd(entry.name)
  <2>1. PICK n \in Names, a \in Attrs, d \in BOOLEAN, m \in SUBSET Groups :
            /\ FreeInAd(n)
            /\ Write(g, [status |-> "live", name |-> n, attr |-> a,
                         disabled |-> d, memberOf |-> m, usn |-> 0])
    BY <1>3 DEF AddUser
  <2> DEFINE entry == [status |-> "live", name |-> n, attr |-> a,
                       disabled |-> d, memberOf |-> m, usn |-> 0]
  <2>2. entry \in Entry /\ entry.status = "live" /\ entry.name = n
    BY DEF Entry
  <2> QED BY <1>3, <2>1, <2>2 DEF AddUser
<1>4. ASSUME NEW g \in Guids, EditUser(g) \/ ToggleDisabled(g) \/ Regroup(g)
      PROVE  \E entry \in Entry : /\ Write(g, entry) /\ entry.status = "live"
                                  /\ ad[g] # None /\ entry.name = ad[g].name
  <2>1. ad[g] \in Entry /\ ad[g] # None /\ ad[g].status = "live"
    BY <1>4 DEF EditUser, ToggleDisabled, Regroup, Live, Has, AdTypeOK
  <2>2. CASE EditUser(g)
    <3>1. PICK a \in Attrs : Write(g, [ad[g] EXCEPT !.attr = a])
      BY <2>2 DEF EditUser
    <3>2. /\ [ad[g] EXCEPT !.attr = a] \in Entry
          /\ [ad[g] EXCEPT !.attr = a].status = "live"
          /\ [ad[g] EXCEPT !.attr = a].name = ad[g].name
      BY <2>1 DEF Entry
    <3> QED BY <2>1, <3>1, <3>2
  <2>3. CASE ToggleDisabled(g)
    <3>1. /\ [ad[g] EXCEPT !.disabled = ~ad[g].disabled] \in Entry
          /\ [ad[g] EXCEPT !.disabled = ~ad[g].disabled].status = "live"
          /\ [ad[g] EXCEPT !.disabled = ~ad[g].disabled].name = ad[g].name
      BY <2>1 DEF Entry
    <3> QED BY <2>1, <2>3, <3>1 DEF ToggleDisabled
  <2>4. CASE Regroup(g)
    <3>1. PICK m \in SUBSET Groups : Write(g, [ad[g] EXCEPT !.memberOf = m])
      BY <2>4 DEF Regroup
    <3>2. /\ [ad[g] EXCEPT !.memberOf = m] \in Entry
          /\ [ad[g] EXCEPT !.memberOf = m].status = "live"
          /\ [ad[g] EXCEPT !.memberOf = m].name = ad[g].name
      BY <2>1 DEF Entry
    <3> QED BY <2>1, <3>1, <3>2
  <2> QED BY <1>4, <2>2, <2>3, <2>4
<1>5. \A g \in Guids :
          ~(RenameUser(g) \/ MoveOut(g) \/ MoveBack(g) \/ DeleteObject(g) \/ RestoreObject(g))
  BY DEF NamesKept, RenameUser, MoveOut, MoveBack, DeleteObject, RestoreObject, Has, HoldersOK,
         Live
<1> QED BY <1>1, <1>2, <1>3, <1>4, <1>5 DEF AdNext

LEMMA AdStepKept == ASSUME NamesKept, KeptInv, AdStep PROVE KeptInv'
<1>1. TypeInv'
  BY AdStepType DEF KeptInv
<1>2. /\ HoldersOK'
      /\ \A g \in Guids : ad[g] # None => ad'[g] # None /\ ad'[g].name = ad[g].name
  BY AdNextKept DEF AdStep, KeptInv, TypeInv, TypeOK
<1>3. UNCHANGED <<accounts, rows, found, pc, full, dry, todo, cur>>
  BY DEF AdStep, apiVars, store, run, loops
<1>4. \A n \in Names : accounts[n] # None => accounts[n].ext \in Guids
  BY DEF KeptInv, TypeInv, TypeOK, ApiTypeOK, Account
<1>5. NamesOK'
  BY <1>2, <1>3, <1>4 DEF KeptInv, NamesOK, Holds
<1>6. RowsHaveAccounts' /\ NobodyLeaves'
  BY <1>3 DEF KeptInv, RowsHaveAccounts, NobodyLeaves, Processing
<1> QED BY <1>1, <1>2, <1>5, <1>6 DEF KeptInv

\* The search returns every live user with a number from 1 on.
LEMMA SearchKept ==
    ASSUME KeptInv,
           \/ \E asked \in RunKinds : StartRun(asked)
           \/ ReadAll \/ EndSearch \/ \E g \in Guids : ReadEntry(g)
    PROVE  NamesOK' /\ RowsHaveAccounts' /\ NobodyLeaves'
<1>1. /\ UNCHANGED <<ad, rows, accounts>> /\ pc' \in {"search", "users"}
  BY DEF StartRun, SearchAtOnce, ReadAll, EndSearch, ReadEntry, adVars, apiVars, store
<1>2. \A g \in Guids : rows[g] # None => g \in Search(0)
  BY DEF KeptInv, HoldersOK, NamesOK, Holds, Search
<1>3. /\ \A g \in Guids : found'[g] # None => Holds(g, found'[g].name)
      /\ full' => \A g \in Guids : rows[g] # None =>
            (pc' = "search" /\ g \in todo') \/ found'[g] # None
  <2>1. \A g \in Guids : Live(g) => UserOf(g) # None /\ Holds(g, UserOf(g).name)
    BY UserOfType DEF KeptInv, TypeInv, TypeOK, Holds, Live, Has
  <2>2. CASE \E asked \in RunKinds : StartRun(asked)
    BY <2>2 DEF StartRun, KeptInv, NamesOK
  <2>3. CASE ReadAll
    <3> DEFINE seen == Search(IF full THEN 0 ELSE hwm)
    <3>1. /\ full' = full
          /\ \A g \in Guids : found'[g] = IF g \in seen THEN UserOf(g) ELSE None
      BY <2>3 DEF ReadAll, SearchAtOnce
    <3>2. \A g \in seen : Live(g)
      BY DEF Search
    <3> QED BY <1>2, <2>1, <3>1, <3>2
  <2>4. CASE EndSearch
    BY <2>4 DEF EndSearch, KeptInv, NamesOK, NobodyLeaves, run
  <2>5. CASE \E g \in Guids : ReadEntry(g)
    <3>1. PICK g \in Guids : ReadEntry(g)
      BY <2>5
    <3>2. CASE g \in Search(IF full THEN 0 ELSE hwm)
      <4>1. /\ UNCHANGED full /\ pc = "search" /\ pc' = "search" /\ todo' = todo \ {g}
            /\ found' = [found EXCEPT ![g] = UserOf(g)] /\ Live(g)
        BY <3>1, <3>2 DEF ReadEntry, Search
      <4>2. \A h \in Guids : found'[h] = IF h = g THEN UserOf(g) ELSE found[h]
        BY <4>1 DEF KeptInv, TypeInv, TypeOK
      <4> QED BY <2>1, <4>1, <4>2 DEF KeptInv, NamesOK, NobodyLeaves
    <3>3. CASE g \notin Search(IF full THEN 0 ELSE hwm)
      <4>1. /\ UNCHANGED <<full, found>> /\ pc = "search" /\ pc' = "search"
            /\ todo' = todo \ {g}
        BY <3>1, <3>3 DEF ReadEntry
      <4> QED BY <1>2, <3>3, <4>1 DEF KeptInv, NamesOK, NobodyLeaves
    <3> QED BY <3>2, <3>3
  <2> QED BY <2>2, <2>3, <2>4, <2>5
<1>4. NamesOK'
  BY <1>1, <1>3 DEF KeptInv, NamesOK, Holds
<1>5. RowsHaveAccounts'
  BY <1>1 DEF KeptInv, RowsHaveAccounts
<1>6. NobodyLeaves'
  BY <1>1, <1>3 DEF NobodyLeaves, Processing
<1> QED BY <1>4, <1>5, <1>6

\* made is accts with another account at n, of the identity g.
ChangedAt(accts, made, n, g) ==
    /\ \A m \in Names : m # n => made[m] = accts[m]
    /\ made[n] # None /\ made[n].ext = g

\* The account a is what the search said of its holder.
IsOf(a, u) == a.attr = u.attr /\ a.active = ~u.disabled

\* made is accts with the account of g brought up to u, or switched, at n; the
\* vaults it was in are kept.
Updated(accts, made, g, u) ==
    /\ ChangedAt(accts, made, u.name, g)
    /\ IsOf(made[u.name], u)
    /\ accts[u.name] # None => made[u.name].vaults = accts[u.name].vaults

Switched(accts, made, n, g, active) ==
    /\ ChangedAt(accts, made, n, g)
    /\ made[n].attr = accts[n].attr
    /\ made[n].active = active
    /\ made[n].vaults = accts[n].vaults

LEMMA KeptIsOf ==
    ASSUME NEW g \in Guids, NEW u \in UserData, NEW vs \in SUBSET Groups,
           NEW a, a = KeptAccount(g, u, vs)
    PROVE  a # None /\ a.ext = g /\ a.vaults = vs /\ IsOf(a, u)
BY KeptAccountIs DEF IsOf

\* POST, PUT and PATCH change the user's account, if the username is not in the
\* hands of somebody else.
LEMMA PostUpdates ==
    ASSUME NEW accts \in AccountMap, NEW g \in Guids, NEW u \in UserData,
           accts[u.name] = None \/ accts[u.name].ext = g
    PROVE  Updated(accts, PostUser(accts, g, u).accounts, g, u)
<1> DEFINE n == u.name
           fresh == NewAccount(g, u)
           kept == KeptAccount(g, u, accts[n].vaults)
<1>1. n \in Names /\ (accts[n] # None => accts[n].vaults \in SUBSET Groups)
  BY DEF UserData, AccountMap, Account
<1>2. fresh # None /\ fresh.ext = g /\ IsOf(fresh, u)
  BY NewAccountIs DEF IsOf
<1>3. accts[n] # None =>
          kept # None /\ kept.ext = g /\ kept.vaults = accts[n].vaults /\ IsOf(kept, u)
  BY <1>1, KeptIsOf
<1>4. CASE accts[n] = None
  <2>1. PostUser(accts, g, u).accounts = [accts EXCEPT ![n] = fresh]
    BY <1>4 DEF PostUser, Answer
  <2> HIDE DEF fresh
  <2> QED BY <1>1, <1>2, <1>4, <2>1 DEF ChangedAt, Updated, AccountMap
<1>5. CASE accts[n] # None
  <2>1. PostUser(accts, g, u).accounts = [accts EXCEPT ![n] = kept]
    BY <1>5 DEF PostUser, Answer, KeptAccount
  <2> HIDE DEF kept
  <2> QED BY <1>1, <1>3, <1>5, <2>1 DEF ChangedAt, Updated, AccountMap
<1> QED BY <1>4, <1>5

LEMMA PutUpdates ==
    ASSUME NEW accts \in AccountMap, NEW g \in Guids, NEW u \in UserData, accts[u.name] # None
    PROVE  Updated(accts, PutUser(accts, u.name, g, u).accounts, g, u)
<1> DEFINE n == u.name
           kept == KeptAccount(g, u, accts[n].vaults)
<1>1. n \in Names /\ accts[n].vaults \in SUBSET Groups
  BY DEF UserData, AccountMap, Account
<1>2. kept # None /\ kept.ext = g /\ kept.vaults = accts[n].vaults /\ IsOf(kept, u)
  BY <1>1, KeptIsOf
<1>3. PutUser(accts, n, g, u).accounts = [[accts EXCEPT ![n] = None] EXCEPT ![n] = kept]
  BY DEF PutUser, Answer, KeptAccount
<1> HIDE DEF kept
<1> QED BY <1>1, <1>2, <1>3 DEF ChangedAt, Updated, AccountMap

LEMMA PatchSwitches ==
    ASSUME NEW accts \in AccountMap, NEW g \in Guids, NEW n \in Names, NEW active \in BOOLEAN,
           accts[n] # None, accts[n].ext = g
    PROVE  Switched(accts, PatchActive(accts, n, active).accounts, n, g, active)
<1> DEFINE made == [accts[n] EXCEPT !.active = active]
<1>1. PatchActive(accts, n, active).accounts = [accts EXCEPT ![n] = made]
  BY DEF PatchActive, Answer
<1>2. accts[n] \in Account
  BY DEF AccountMap
<1>3. /\ made \in Account /\ made.ext = g /\ made.vaults = accts[n].vaults
      /\ made.attr = accts[n].attr /\ made.active = active
  BY <1>2 DEF Account
<1>4. made # None
  BY <1>3, ApiAssumption
<1> HIDE DEF made
<1> QED BY <1>1, <1>3, <1>4 DEF ChangedAt, Switched, AccountMap

\* A name has one holder, so a user's account is under the name found.
LEMMA OwnName ==
    ASSUME KeptInv, pc \in {"create", "patch", "put", "upsert"}
    PROVE  /\ CurTypes /\ Holds(cur, found[cur].name)
           /\ accounts[found[cur].name] # None => accounts[found[cur].name].ext = cur
           /\ rows[cur] # None =>
                 rows[cur].name = found[cur].name /\ accounts[rows[cur].name] # None
<1>1. CurTypes
  BY CurTyped DEF KeptInv
<1>2. Holds(cur, found[cur].name)
  BY <1>1 DEF KeptInv, NamesOK, TypeInv, PhaseOK, CurTypes
<1>3. accounts[found[cur].name] # None => accounts[found[cur].name].ext = cur
  <2>1. accounts[found[cur].name] # None => accounts[found[cur].name].ext \in Guids
    BY <1>1 DEF CurTypes, AccountMap, Account
  <2> QED BY <1>1, <1>2, <2>1 DEF KeptInv, NamesOK, HoldersOK, Holds, CurTypes
<1>4. rows[cur] # None => rows[cur].name = found[cur].name /\ accounts[rows[cur].name] # None
  BY <1>1, <1>2 DEF KeptInv, NamesOK, RowsHaveAccounts, Holds, CurTypes
<1> QED BY <1>1, <1>2, <1>3, <1>4

\* Whatever becomes of the answer, the request of a user did nothing, or what
\* it should; it did if the run goes on to write the row.
LEMMA UserRequestEffect ==
    ASSUME KeptInv, CreateUser \/ PatchUserActive \/ UpdateUser
    PROVE  /\ \/ accounts' = accounts /\ (dry \/ pc' # "upsert" \/ rows[cur] # None)
              \/ /\ ChangedAt(accounts, accounts', found[cur].name, cur)
                 /\ accounts[found[cur].name] # None =>
                       accounts'[found[cur].name].vaults = accounts[found[cur].name].vaults
           /\ UNCHANGED <<ad, rows, groupRows, found, full, dry, todo>>
           /\ pc \in {"create", "patch", "put"}
           /\ \/ pc' = "users"
              \/ pc' \in {"put", "upsert"} /\ cur' = cur
<1> DEFINE n == found[cur].name
<1>1. /\ pc \in {"create", "patch", "put"}
      /\ \/ pc' = "users"
         \/ pc' \in {"put", "upsert"} /\ cur' = cur
      /\ UNCHANGED <<ad, rows, groupRows, found, full, dry, todo>>
  BY DEF CreateUser, PatchUserActive, UpdateUser, UserRequest, Proceed, GiveUp, adVars, store, run
<1>2. /\ CurTypes
      /\ accounts[n] # None => accounts[n].ext = cur
      /\ rows[cur] # None => rows[cur].name = n /\ accounts[n] # None
  BY <1>1, OwnName
<1>3. pc \in {"patch", "put"} => rows[cur] # None
  BY DEF KeptInv, TypeInv, PhaseOK
<1>4. CASE CreateUser
  <2> DEFINE post == PostUser(accounts, cur, found[cur])
  <2>1. PICK again, status : Request(post, again, status) /\ (status # "ok" => pc' = "users")
    BY <1>4 DEF CreateUser, UserRequest, Proceed, GiveUp
  <2>2. \/ accounts' = post.accounts
        \/ accounts' = accounts /\ (dry \/ pc' # "upsert")
    BY <2>1 DEF Request
  <2>3. /\ ChangedAt(accounts, post.accounts, n, cur)
        /\ accounts[n] # None => post.accounts[n].vaults = accounts[n].vaults
    <3>1. Updated(accounts, post.accounts, cur, found[cur])
      BY <1>2, PostUpdates DEF CurTypes
    <3> QED BY <3>1 DEF Updated
  <2> QED BY <1>1, <2>2, <2>3
<1>5. CASE PatchUserActive
  <2> DEFINE patch == PatchActive(accounts, n, ~found[cur].disabled)
  <2>1. rows[cur] # None /\ rows[cur].name = n /\ accounts[n] # None
    BY <1>2, <1>3, <1>5 DEF PatchUserActive
  <2>2. accounts' = patch.accounts \/ accounts' = accounts
    BY <1>5, <2>1 DEF PatchUserActive, UserRequest, Request
  <2>3. (~found[cur].disabled) \in BOOLEAN
    BY <1>2 DEF CurTypes, UserData
  <2>4. /\ ChangedAt(accounts, patch.accounts, n, cur)
        /\ patch.accounts[n].vaults = accounts[n].vaults
    <3>1. Switched(accounts, patch.accounts, n, cur, ~found[cur].disabled)
      BY <1>2, <2>1, <2>3, PatchSwitches DEF CurTypes
    <3> QED BY <3>1 DEF Switched
  <2> QED BY <1>1, <2>1, <2>2, <2>4
<1>6. CASE UpdateUser
  <2> DEFINE put == PutUser(accounts, n, cur, found[cur])
  <2>1. rows[cur] # None /\ rows[cur].name = n /\ accounts[n] # None
    BY <1>2, <1>3, <1>6 DEF UpdateUser
  <2>2. accounts' = put.accounts \/ accounts' = accounts
    BY <1>6, <2>1 DEF UpdateUser, UserRequest, Request
  <2>3. /\ ChangedAt(accounts, put.accounts, n, cur)
        /\ put.accounts[n].vaults = accounts[n].vaults
    <3>1. Updated(accounts, put.accounts, cur, found[cur])
      BY <1>2, <2>1, PutUpdates DEF CurTypes
    <3> QED BY <2>1, <3>1 DEF Updated
  <2> QED BY <1>1, <2>1, <2>2, <2>3
<1> QED BY <1>4, <1>5, <1>6

LEMMA UserRequestKept ==
    ASSUME KeptInv, CreateUser \/ PatchUserActive \/ UpdateUser
    PROVE  NamesOK' /\ RowsHaveAccounts' /\ NobodyLeaves'
<1> DEFINE n == found[cur].name
<1>1. /\ UNCHANGED <<ad, rows, found, full, dry, todo>>
      /\ pc \in {"create", "patch", "put"}
      /\ \/ pc' = "users"
         \/ pc' \in {"put", "upsert"} /\ cur' = cur
  BY UserRequestEffect
<1>2. /\ Holds(cur, n) /\ n \in Names
      /\ rows[cur] # None => rows[cur].name = n /\ accounts[n] # None
  BY <1>1, OwnName DEF CurTypes
<1>3. \A g \in Guids : rows[g] # None => rows[g].name \in Names
  BY DEF KeptInv, TypeInv, TypeOK, UserData
<1>4. CASE accounts' = accounts /\ (dry \/ pc' # "upsert" \/ rows[cur] # None)
  BY <1>1, <1>2, <1>4 DEF KeptInv, NamesOK, RowsHaveAccounts, NobodyLeaves, Processing, Holds
<1>5. CASE ChangedAt(accounts, accounts', n, cur)
  <2>1. NamesOK'
    BY <1>1, <1>2, <1>5 DEF KeptInv, NamesOK, Holds, ChangedAt
  <2>2. RowsHaveAccounts'
    BY <1>1, <1>2, <1>3, <1>5 DEF KeptInv, RowsHaveAccounts, ChangedAt
  <2>3. NobodyLeaves'
    BY <1>1 DEF KeptInv, NobodyLeaves, Processing
  <2> QED BY <2>1, <2>2, <2>3
<1> QED BY <1>4, <1>5, UserRequestEffect

\* A new or newer row is the holder's, under his own name.
LEMMA UpsertUserKept ==
    ASSUME KeptInv, UpsertUser PROVE NamesOK' /\ RowsHaveAccounts' /\ NobodyLeaves'
<1>1. /\ UNCHANGED <<ad, accounts, found, full, dry, todo>>
      /\ pc = "upsert" /\ pc' = "users"
  BY DEF UpsertUser, adVars, apiVars, run
<1>2. /\ cur \in Guids /\ Holds(cur, found[cur].name) /\ found[cur] # None
  BY <1>1, OwnName DEF CurTypes, KeptInv, TypeInv, PhaseOK
<1>3. \A g \in Guids : rows'[g] # None =>
          \/ rows[g] # None /\ rows'[g] = rows[g]
          \/ ~dry /\ g = cur /\ rows'[g] = found[cur]
  BY <1>2 DEF UpsertUser, Written, KeptInv, TypeInv, TypeOK
<1>4. NamesOK'
  BY <1>1, <1>2, <1>3 DEF KeptInv, NamesOK, Holds
<1>5. RowsHaveAccounts'
  BY <1>1, <1>3 DEF KeptInv, RowsHaveAccounts
<1>6. NobodyLeaves'
  BY <1>1, <1>2, <1>3 DEF KeptInv, NobodyLeaves, Processing
<1> QED BY <1>4, <1>5, <1>6

\* Nobody is missing, and nobody has a tombstone.
LEMMA NoneDeparted == ASSUME KeptInv, pc = "users" PROVE Departed = {}
BY DEF KeptInv, HoldersOK, NobodyLeaves, Processing, Departed, Missing, Buried, Tombstones, Live,
       Has

\* The steps that leave directory, rows and accounts alone and write no row next.
LEMMA OtherStepsKept ==
    ASSUME KeptInv,
           \/ \E g \in Guids : LookUpUser(g)
           \/ \E gr \in Groups : SyncGroup(gr) \/ OpenGroup(gr)
           \/ ListDeletions \/ SearchGroups \/ BeginMembership \/ LoadMembership
           \/ StoreMembers \/ FinishRun \/ FailSearch \/ Crash
    PROVE  NamesOK' /\ RowsHaveAccounts' /\ NobodyLeaves'
<1>1. UNCHANGED <<ad, rows, accounts>>
  BY DEF LookUpUser, SyncGroup, OpenGroup, ListDeletions, SearchGroups, BeginMembership,
         LoadMembership, StoreMembers, FinishRun, FailSearch, Crash, adVars, apiVars, store
<1>2. \/ pc = "users" /\ pc' \in {"users", "create", "patch", "put"} /\ UNCHANGED <<found, full>>
      \/ pc' \in {"deletions", "groups", "membership", "group", "member"} /\ UNCHANGED found
      \/ pc' = "idle" /\ found' = [g \in Guids |-> None]
  BY DEF LookUpUser, FirstStep, SyncGroup, OpenGroup, ListDeletions, SearchGroups,
         BeginMembership, LoadMembership, StoreMembers, FinishRun, FailSearch, Crash, DropLocals,
         run
<1>3. pc' = "deletions" => todo' = {}
  BY NoneDeparted DEF LookUpUser, FirstStep, SyncGroup, OpenGroup, ListDeletions, SearchGroups,
         BeginMembership, LoadMembership, StoreMembers, FinishRun, FailSearch, Crash, DropLocals
<1>4. \A g \in Guids : found'[g] = found[g] \/ found'[g] = None
  BY <1>2
<1>5. NamesOK'
  BY <1>1, <1>4 DEF KeptInv, NamesOK, Holds
<1>6. RowsHaveAccounts'
  BY <1>1, <1>2 DEF KeptInv, RowsHaveAccounts
<1>7. NobodyLeaves'
  BY <1>1, <1>2, <1>3 DEF KeptInv, NobodyLeaves, Processing
<1> QED BY <1>5, <1>6, <1>7

\* There is nothing on the list of removals.
LEMMA NoRemovals ==
    ASSUME KeptInv
    PROVE  ~(ForgetUser \/ \E g \in Guids : RemoveUser(g) \/ SkipTombstone(g))
BY DEF KeptInv, NobodyLeaves, ForgetUser, RemoveUser, SkipTombstone

-----------------------------------------------------------------------------
(* A membership request, whatever becomes of its answer. *)

\* vs with the current group for a listed user, without it for another.
Changed(g, vs) == IF IsMember(g, cur) THEN vs \cup {cur} ELSE vs \ {cur}

\* It changes one account's vaults at most, and does what the row asks for
\* unless the run is dry or the service refuses.
LEMMA ChangeMemberEffect ==
    ASSUME TypeInv, NEW g \in Guids, ChangeMember(g)
    PROVE  LET n == rows[g].name IN
           /\ pc = "member" /\ cur \in Groups /\ g \in todo /\ todo' = todo \ {g}
           /\ UNCHANGED <<ad, rows, groupRows, pc, full, dry, found, cur>>
           /\ n \in Names /\ rows[g] # None
           /\ \A m \in Names : m # n \/ accounts[n] = None => accounts'[m] = accounts[m]
           /\ accounts[n] # None =>
                 /\ accounts'[n] # None
                 /\ accounts'[n].ext = accounts[n].ext
                 /\ accounts'[n].vaults \in {accounts[n].vaults, Changed(g, accounts[n].vaults)}
                 /\ ~dry /\ "refuse" \notin Faults =>
                       accounts'[n].vaults = Changed(g, accounts[n].vaults)
<1> DEFINE n == rows[g].name
           made == [accounts[n] EXCEPT !.vaults = Changed(g, accounts[n].vaults)]
<1>1. /\ pc = "member" /\ g \in todo /\ todo' = todo \ {g}
      /\ UNCHANGED <<ad, rows, groupRows, pc, full, dry, found, cur>>
  BY DEF ChangeMember, adVars, store, run
<1>2. /\ cur \in Groups /\ rows[g] # None /\ n \in Names
      /\ accounts \in AccountMap /\ (accounts[n] # None => accounts[n] \in Account)
  BY <1>1 DEF TypeInv, TypeOK, PhaseOK, ApiTypeOK, AccountMap, UserData
<1>3. \/ accounts' = accounts /\ (accounts[n] = None \/ dry \/ "refuse" \in Faults)
      \/ accounts[n] # None /\ accounts' = [accounts EXCEPT ![n] = made]
  BY DEF ChangeMember, Request, Fault, AddMember, RemoveMember, Answer, Changed
<1>4. accounts[n] # None =>
          /\ made \in Account /\ made # None
          /\ made.ext = accounts[n].ext /\ made.vaults = Changed(g, accounts[n].vaults)
  <2>1. accounts[n] # None =>
            /\ made \in Account
            /\ made.ext = accounts[n].ext /\ made.vaults = Changed(g, accounts[n].vaults)
    BY <1>2 DEF Account, Changed
  <2> QED BY <2>1, ApiAssumption
<1> HIDE DEF made
<1> QED BY <1>1, <1>2, <1>3, <1>4 DEF AccountMap

LEMMA ChangeMemberKept ==
    ASSUME KeptInv, NEW g \in Guids, ChangeMember(g)
    PROVE  NamesOK' /\ RowsHaveAccounts' /\ NobodyLeaves'
<1>1. /\ UNCHANGED <<ad, rows, pc, full, dry, found>> /\ pc = "member"
      /\ \A m \in Names : /\ accounts'[m] = None <=> accounts[m] = None
                          /\ accounts[m] # None => accounts'[m].ext = accounts[m].ext
  BY ChangeMemberEffect DEF KeptInv
<1>2. \A h \in Guids : rows[h] # None => rows[h].name \in Names
  BY DEF KeptInv, TypeInv, TypeOK, UserData
<1>3. NamesOK'
  BY <1>1 DEF KeptInv, NamesOK, Holds
<1>4. RowsHaveAccounts'
  BY <1>1, <1>2 DEF KeptInv, RowsHaveAccounts
<1>5. NobodyLeaves'
  BY <1>1 DEF KeptInv, NobodyLeaves, Processing
<1> QED BY <1>3, <1>4, <1>5

LEMMA NextKept == ASSUME NamesKept, KeptInv, [Next]_vars PROVE KeptInv'
<1>1. TypeInv'
  BY NextType DEF KeptInv
<1>2. CASE AdStep
  BY <1>2, AdStepKept
<1>3. CASE UNCHANGED vars
  <2>1. UNCHANGED <<ad, accounts, rows, found, pc, full, dry, todo, cur>>
    BY <1>3 DEF vars, adVars, apiVars, store, run, loops
  <2> QED BY <1>1, <2>1 DEF KeptInv, HoldersOK, NamesOK, Holds, RowsHaveAccounts, NobodyLeaves,
                            Processing, Live, Has
<1>4. ASSUME Next, ~AdStep PROVE HoldersOK'
  <2>1. UNCHANGED ad
    BY <1>4 DEF Next, Step, StartRun, ReadAll, EndSearch, ReadEntry, LookUpUser, RemoveUser,
           SkipTombstone, ChangeMember, SyncGroup, OpenGroup, CreateUser, PatchUserActive,
           UpdateUser, UserRequest, UpsertUser, ListDeletions, ForgetUser, SearchGroups,
           BeginMembership, LoadMembership, StoreMembers, FinishRun, FailSearch, Crash, adVars
  <2> QED BY <2>1 DEF KeptInv, HoldersOK, Live, Has
<1>5. ASSUME Next, ~AdStep PROVE NamesOK' /\ RowsHaveAccounts' /\ NobodyLeaves'
  BY <1>5, SearchKept, UserRequestKept, UpsertUserKept, OtherStepsKept, NoRemovals,
     ChangeMemberKept DEF Next, Step
<1> QED BY <1>1, <1>2, <1>3, <1>4, <1>5 DEF KeptInv

LEMMA InitKept == ASSUME Init PROVE KeptInv
BY InitType DEF Init, AdInit, ApiInit, KeptInv, HoldersOK, NamesOK, RowsHaveAccounts, NobodyLeaves,
                Processing

-----------------------------------------------------------------------------
(* The refinement: only the three requests about a user change what an       *)
(* identity holds.                                                           *)

LEMMA UserRequestMaps ==
    ASSUME KeptInv, TypeInv', CreateUser \/ PatchUserActive \/ UpdateUser
    PROVE  Mirror!Read \/ Mirror!Follow(cur) \/ Mirror!Switch(cur)
<1> DEFINE n == found[cur].name
           account == [name |-> n, attr |-> accounts[n].attr, active |-> accounts[n].active]
<1>1. /\ UNCHANGED <<ad, cn, found, full>>
      /\ pc \in {"create", "patch", "put"} /\ pc' \in {"users", "put", "upsert"}
  BY DEF CreateUser, PatchUserActive, UpdateUser, UserRequest, Proceed, GiveUp, adVars, run
<1>2. UNCHANGED FoundMissing
  BY <1>1 DEF FoundMissing
<1>3. /\ CurTypes /\ found[cur] # None
      /\ accounts[n] # None => accounts[n].ext = cur
      /\ rows[cur] # None => rows[cur].name = n /\ accounts[n] # None
  BY <1>1, OwnName DEF KeptInv, TypeInv, PhaseOK
<1>4. \A m \in Names : accounts[m] # None /\ accounts[m].ext = cur => m = n
  BY <1>1, OwnName DEF KeptInv, NamesOK, Holds
<1>5. CASE accounts' = accounts
  BY <1>1, <1>2, <1>5, Stutters DEF KeptInv
<1>6. ASSUME ChangedAt(accounts, accounts', n, cur), IsOf(accounts'[n], found[cur])
      PROVE  Mirror!Follow(cur)
  <2>1. /\ accounts'[n] # None /\ accounts'[n].ext = cur
        /\ accounts'[n].attr = found[cur].attr /\ accounts'[n].active = ~found[cur].disabled
        /\ \A m \in Names : m # n => accounts'[m] = accounts[m]
    BY <1>6 DEF ChangedAt, IsOf
  <2>2. \A m \in Names : m # n => ~(accounts'[m] # None /\ accounts'[m].ext = cur)
    BY <1>4, <2>1
  <2> QED BY <1>1, <1>2, <1>3, <2>1, <2>2, FollowMaps DEF CurTypes
<1>7. ASSUME accounts[n] # None, ChangedAt(accounts, accounts', n, cur),
             accounts'[n].attr = accounts[n].attr, accounts'[n].active = ~found[cur].disabled
      PROVE  Mirror!Switch(cur)
  <2>1. n \in Names /\ cur \in Guids /\ accounts[n].ext = cur
    BY <1>3, <1>7 DEF CurTypes
  <2>2. /\ accounts'[n] # None /\ accounts'[n].ext = cur
        /\ \A m \in Names : m # n => accounts'[m] = accounts[m]
    BY <1>7 DEF ChangedAt
  <2>3. HeldBy(accounts, cur) = {account}
    BY <1>4, <1>7, <2>1, HeldOne
  <2>4. HeldBy(accounts', cur) = {[account EXCEPT !.active = ~found[cur].disabled]}
    <3>1. \A m \in Names : accounts'[m] # None /\ accounts'[m].ext = cur => m = n
      BY <1>4, <2>2
    <3>2. HeldBy(accounts', cur) =
            {[name |-> n, attr |-> accounts'[n].attr, active |-> accounts'[n].active]}
      BY <2>1, <2>2, <3>1, HeldOne
    <3> QED BY <1>7, <3>2
  <2>5. \A h \in Guids : h # cur => HeldBy(accounts', h) = HeldBy(accounts, h)
    <3>1. ASSUME NEW h \in Guids, h # cur, NEW m \in Names
          PROVE  /\ (accounts'[m] # None /\ accounts'[m].ext = h)
                      <=> (accounts[m] # None /\ accounts[m].ext = h)
                 /\ accounts[m] # None /\ accounts[m].ext = h => accounts'[m] = accounts[m]
      BY <2>1, <2>2, <3>1
    <3> QED BY <3>1, HeldSame
  <2>6. UNCHANGED LiveUsers
    BY <1>1 DEF LiveUsers, Live, Has, UserOf
  <2>7. Registry' = [Registry EXCEPT ![cur] = {[account EXCEPT !.active = ~found[cur].disabled]}]
    BY <2>4, <2>5 DEF Registry
  <2>8. account \in Registry[cur]
    BY <2>1, <2>3 DEF Registry
  <2>9. Mirror!Give(cur, [account EXCEPT !.active = ~found[cur].disabled])
    BY <1>1, <1>2, <2>6, <2>7 DEF Mirror!Give, Registry
  <2> HIDE DEF account
  <2> QED BY <1>3, <2>8, <2>9 DEF Mirror!Switch, Registry
<1>8. CASE CreateUser
  <2>1. accounts' = accounts \/ accounts' = PostUser(accounts, cur, found[cur]).accounts
    BY <1>8 DEF CreateUser, UserRequest, Request
  <2>2. Updated(accounts, PostUser(accounts, cur, found[cur]).accounts, cur, found[cur])
    BY <1>3, PostUpdates DEF CurTypes
  <2> QED BY <1>5, <1>6, <2>1, <2>2 DEF Updated
<1>9. CASE UpdateUser
  <2>1. rows[cur] # None
    BY <1>9 DEF UpdateUser, KeptInv, TypeInv, PhaseOK
  <2>2. accounts' = accounts \/ accounts' = PutUser(accounts, n, cur, found[cur]).accounts
    BY <1>3, <1>9, <2>1 DEF UpdateUser, UserRequest, Request
  <2>3. Updated(accounts, PutUser(accounts, n, cur, found[cur]).accounts, cur, found[cur])
    BY <1>3, <2>1, PutUpdates DEF CurTypes
  <2> QED BY <1>5, <1>6, <2>2, <2>3 DEF Updated
<1>10. CASE PatchUserActive
  <2> DEFINE active == ~found[cur].disabled
             patch == PatchActive(accounts, n, active)
  <2>1. rows[cur] # None /\ active \in BOOLEAN
    BY <1>3, <1>10 DEF PatchUserActive, KeptInv, TypeInv, PhaseOK, CurTypes, UserData
  <2>2. accounts' = accounts \/ accounts' = patch.accounts
    BY <1>3, <1>10, <2>1 DEF PatchUserActive, UserRequest, Request
  <2>3. /\ accounts[n] # None /\ ChangedAt(accounts, patch.accounts, n, cur)
        /\ patch.accounts[n].attr = accounts[n].attr
        /\ patch.accounts[n].active = active
    <3> HIDE DEF active
    <3>1. accounts[n] # None /\ accounts[n].ext = cur
      BY <1>3, <2>1
    <3>2. Switched(accounts, patch.accounts, n, cur, active)
      BY <1>3, <2>1, <3>1, PatchSwitches DEF CurTypes
    <3> QED BY <3>1, <3>2 DEF Switched
  <2> QED BY <1>5, <1>7, <2>2, <2>3
<1> QED BY <1>8, <1>9, <1>10

LEMMA NextKeptMaps ==
    ASSUME KeptInv, TypeInv', Numbered, [Next]_vars PROVE [Mirror!Next]_(Mirror!vars)
<1>1. CASE UNCHANGED vars
  <2>1. UNCHANGED <<ad, cn, found, pc, full, todo, accounts>>
    BY <1>1 DEF vars, adVars, apiVars, run, loops
  <2>2. UNCHANGED <<LiveUsers, FoundMissing, Registry>>
    BY <2>1 DEF LiveUsers, Live, Has, UserOf, FoundMissing, Registry
  <2> QED BY <2>1, <2>2 DEF Mirror!vars, Registry
<1>2. CASE \E g \in Guids : ChangeMember(g)
  BY <1>2, ChangeMemberMaps DEF KeptInv, Mirror!vars, Registry
<1>3. CASE AdStep
  BY <1>3, AdStepChanges DEF KeptInv, Mirror!Next
<1>4. CASE CreateUser \/ PatchUserActive \/ UpdateUser
  <2>1. cur \in Guids
    BY <1>4 DEF KeptInv, TypeInv, PhaseOK, UserSteps, CreateUser, PatchUserActive, UpdateUser
  <2> QED BY <1>4, <2>1, UserRequestMaps DEF Mirror!Next
<1>5. CASE \/ \E asked \in RunKinds : StartRun(asked)
           \/ ReadAll \/ EndSearch \/ \E g \in Guids : ReadEntry(g)
  BY <1>5, SearchesRead DEF KeptInv, Mirror!Next
<1>6. CASE \/ \E g \in Guids : LookUpUser(g) \/ SkipTombstone(g)
           \/ \E gr \in Groups : SyncGroup(gr) \/ OpenGroup(gr)
           \/ UpsertUser \/ ForgetUser \/ ListDeletions
           \/ SearchGroups \/ BeginMembership \/ LoadMembership \/ StoreMembers
           \/ FinishRun \/ FailSearch \/ Crash
  BY <1>6, OtherStepsRead DEF KeptInv, Mirror!Next
<1> QED BY <1>1, <1>2, <1>3, <1>4, <1>5, <1>6, NoRemovals DEF Next, Step

\* As long as usernames stay with their holders the engine implements the
\* specification by identities whatever goes wrong: a POST carried out and not
\* written down, by a lost answer, a failed write or a death, is repeated and
\* finds its own account; no account is doubled, changed for another's sake or
\* removed, and dry and paged runs are no exception.
THEOREM EngineRefinesMirrorKept == ASSUME NamesKept PROVE Spec => MirrorsDirectory
<1>1. Init => KeptInv /\ Numbered
  BY InitKept DEF Init, AdInit, Numbered
<1>2. KeptInv /\ Numbered /\ [Next]_vars => KeptInv' /\ Numbered'
  BY NextKept, NextNumbered DEF KeptInv
<1>3. Init => Mirror!Init
  BY InitMaps
<1>4. KeptInv /\ Numbered /\ [Next]_vars => [Mirror!Next]_(Mirror!vars)
  <2>1. KeptInv /\ [Next]_vars => TypeInv'
    BY NextType DEF KeptInv
  <2> QED BY <2>1, NextKeptMaps
<1> QED BY <1>1, <1>2, <1>3, <1>4, PTL DEF Spec, MirrorsDirectory, Mirror!Spec

-----------------------------------------------------------------------------
(* What the refinement says of accounts. *)

\* No identity has two accounts.
NobodyTwice ==
    \A m, n \in Names :
        accounts[m] # None /\ accounts[n] # None /\ accounts[m].ext = accounts[n].ext => m = n

\* The same of the abstract registry, from which nothing else is needed.
OneEach == \A g \in Guids : \A a, b \in Registry[g] : a = b

LEMMA MirrorKeepsOne == OneEach /\ [Mirror!Next]_(Mirror!vars) => OneEach'
<1> SUFFICES ASSUME OneEach, [Mirror!Next]_(Mirror!vars) PROVE OneEach'
  OBVIOUS
<1>1. \/ UNCHANGED Registry
      \/ \E g \in Guids : \E one : Registry' = [Registry EXCEPT ![g] = {one}]
      \/ \E g \in Guids : Registry' = [Registry EXCEPT ![g] = {}]
  BY DEF Mirror!Next, Mirror!vars, Mirror!Change, Mirror!Read, Mirror!Follow, Mirror!Switch,
         Mirror!Retire, Mirror!Give, Registry
<1>2. DOMAIN Registry = Guids
  BY DEF Registry
<1>3. CASE UNCHANGED Registry
  BY <1>3 DEF OneEach
<1>4. CASE \E g \in Guids : \E one : Registry' = [Registry EXCEPT ![g] = {one}]
  BY <1>2, <1>4 DEF OneEach
<1>5. CASE \E g \in Guids : Registry' = [Registry EXCEPT ![g] = {}]
  BY <1>2, <1>5 DEF OneEach
<1> QED BY <1>1, <1>3, <1>4, <1>5

\* Nobody ever has two accounts, under either hypothesis: a repeated POST, a
\* rename half done, a username that changes hands or a restored tombstone
\* leaves each identity with one at most.
THEOREM NobodyTwiceCorrect == ASSUME Reliable \/ NamesKept PROVE Spec => []NobodyTwice
<1>1. Spec => MirrorsDirectory
  BY EngineRefinesMirror, EngineRefinesMirrorKept
<1>2. Spec => [](TypeOK /\ PhaseOK)
  BY TypeCorrect
<1>3. Mirror!Init => OneEach
  BY DEF Mirror!Init, OneEach, Registry
<1>4. TypeOK /\ OneEach => NobodyTwice
  <2> SUFFICES ASSUME TypeOK, OneEach, NEW m \in Names, NEW n \in Names,
                      accounts[m] # None, accounts[n] # None,
                      accounts[m].ext = accounts[n].ext
               PROVE  m = n
    BY DEF NobodyTwice
  <2> DEFINE g == accounts[m].ext
             at(k) == [name |-> k, attr |-> accounts[k].attr, active |-> accounts[k].active]
  <2>1. g \in Guids
    BY DEF TypeOK, ApiTypeOK, Account
  <2>2. at(m) \in Registry[g] /\ at(n) \in Registry[g]
    BY <2>1 DEF Registry, HeldBy
  <2>3. at(m) = at(n)
    BY <2>1, <2>2 DEF OneEach
  <2> QED BY <2>3
<1> QED BY <1>1, <1>2, <1>3, <1>4, MirrorKeepsOne, PTL DEF MirrorsDirectory, Mirror!Spec
=============================================================================
