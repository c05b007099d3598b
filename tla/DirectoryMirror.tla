--------------------------- MODULE DirectoryMirror ---------------------------
(***************************************************************************)
(* What the connector promises about accounts, said of identities alone:   *)
(* no usernames as addresses, no state database, no requests, no runs.     *)
(* An identity has at most one account; the account changes only by itself *)
(* and only to what the connector last read of that identity; and it goes  *)
(* only after the connector has read that the identity is not there.       *)
(***************************************************************************)
EXTENDS ConnectorTypes

VARIABLES
    dir,        \* the directory: the users the filter matches
    seen,       \* what the connector has read of each of them
    gone,       \* the identities it has found to be missing
    registry    \* the accounts each identity holds

vars == <<dir, seen, gone, registry>>

Users == [Guids -> UserData \cup {None}]

AccountOf(u) == [name |-> u.name, attr |-> u.attr, active |-> ~u.disabled]

FreeFor(g, n) == \A h \in Guids \ {g} : \A a \in registry[h] : a.name # n

Init ==
    /\ dir \in Users
    /\ seen = [g \in Guids |-> None]
    /\ gone = {}
    /\ registry = [g \in Guids |-> {}]

\* Administrators do as they like.
Change == dir' \in Users /\ UNCHANGED <<seen, gone, registry>>

\* The connector reads some of the directory, or forgets what it has read.
Read ==
    /\ seen' \in Users
    /\ \A g \in Guids : seen'[g] \in {seen[g], dir[g], None}
    /\ gone' \subseteq gone \cup {g \in Guids : dir[g] = None}
    /\ UNCHANGED <<dir, registry>>

Give(g, account) ==
    /\ registry' = [registry EXCEPT ![g] = {account}]
    /\ UNCHANGED <<dir, seen, gone>>

\* A new account, or the account brought up to date, under a name of its own.
Follow(g) ==
    /\ seen[g] # None
    /\ FreeFor(g, seen[g].name)
    /\ Give(g, AccountOf(seen[g]))

\* Enabled or disabled, and otherwise as it was.
Switch(g) ==
    /\ seen[g] # None
    /\ \E account \in registry[g] :
          Give(g, [account EXCEPT !.active = ~seen[g].disabled])

Retire(g) ==
    /\ g \in gone
    /\ registry' = [registry EXCEPT ![g] = {}]
    /\ gone' = gone \/ gone' = gone \ {g}
    /\ UNCHANGED <<dir, seen>>

Next ==
    \/ Change \/ Read
    \/ \E g \in Guids : Follow(g) \/ Switch(g) \/ Retire(g)

Spec == Init /\ [][Next]_vars
=============================================================================
