------------------------------ MODULE LockeApi ------------------------------
(***************************************************************************)
(* The Locke SCIM endpoint as the connector's client uses it: accounts are *)
(* addressed by username, and carry the externalId (objectGUID) the        *)
(* connector sent.  The service is outside the repository; what it answers *)
(* is taken from what internal/scim and internal/sync rely on:             *)
(*   - POST /Users of a username held by a different identity is a 409,    *)
(*     and of the same identity is accepted (types.go:52-54, README);      *)
(*   - PUT replaces the account found at the path, its userName included;  *)
(*   - a path that names no account is an error;                           *)
(*   - membership of a vault goes with the account when it is renamed or   *)
(*     deleted.                                                            *)
(***************************************************************************)
EXTENDS ConnectorTypes, Naturals

CONSTANTS
    Faults,     \* the kinds of fault this instance has
    MaxFaults   \* bound: number of faults

VARIABLES
    accounts,   \* the account at each username
    vaults,     \* the groups that have a vault
    faults      \* faults so far

apiVars == <<accounts, vaults>>

Account == [ext: Guids, attr: Attrs, active: BOOLEAN, vaults: SUBSET Groups]

ASSUME ApiAssumption == MaxFaults \in Nat /\ None \notin Account

Statuses == {"ok", "conflict", "error"}

ApiTypeOK ==
    /\ accounts \in [Names -> Account \cup {None}]
    /\ vaults \subseteq Groups
    /\ faults \in Nat

ApiInit ==
    /\ accounts = [n \in Names |-> None]
    /\ vaults = {}
    /\ faults = 0

Fault(kind) ==
    /\ kind \in Faults
    /\ faults < MaxFaults
    /\ faults' = faults + 1

-----------------------------------------------------------------------------
(* One request: what the service does with it, and the answer. *)

Answer(accts, status) == [accounts |-> accts, status |-> status]

NewAccount(g, u) ==
    [ext |-> g, attr |-> u.attr, active |-> ~u.disabled, vaults |-> {}]

\* POST /Users.
PostUser(accts, g, u) ==
    IF accts[u.name] = None
    THEN Answer([accts EXCEPT ![u.name] = NewAccount(g, u)], "ok")
    ELSE IF accts[u.name].ext = g
    THEN Answer([accts EXCEPT ![u.name] = [NewAccount(g, u) EXCEPT
                                              !.vaults = accts[u.name].vaults]], "ok")
    ELSE Answer(accts, "conflict")

\* PUT /Users/n: the account at n becomes u, and moves if u has another name.
PutUser(accts, n, g, u) ==
    IF accts[n] = None \/ (u.name # n /\ accts[u.name] # None)
    THEN Answer(accts, "error")
    ELSE Answer([[accts EXCEPT ![n] = None] EXCEPT
                    ![u.name] = [NewAccount(g, u) EXCEPT !.vaults = accts[n].vaults]],
                "ok")

\* PATCH /Users/n, path active.
PatchActive(accts, n, active) ==
    IF accts[n] = None
    THEN Answer(accts, "error")
    ELSE Answer([accts EXCEPT ![n].active = active], "ok")

\* DELETE /Users/n.
DeleteAccount(accts, n) ==
    IF accts[n] = None
    THEN Answer(accts, "error")
    ELSE Answer([accts EXCEPT ![n] = None], "ok")

\* PATCH /Groups/gr, members add and remove.
AddMember(accts, gr, n) ==
    IF accts[n] = None
    THEN Answer(accts, "error")
    ELSE Answer([accts EXCEPT ![n].vaults = @ \cup {gr}], "ok")

RemoveMember(accts, gr, n) ==
    IF accts[n] = None
    THEN Answer(accts, "error")
    ELSE Answer([accts EXCEPT ![n].vaults = @ \ {gr}], "ok")
=============================================================================
