------------------------------ MODULE ScimCall ------------------------------
(***************************************************************************)
(* What the sync engine counts on from each call of the SCIM client, one   *)
(* after the other: it comes back with "ok" only if the service carried the request out, with  *)
(* "conflict" only if the service never will, and with "error" either way. *)
(* These are the outcomes of Request in SyncEngine: done, "refuse", "lose".*)
(***************************************************************************)
EXTENDS Naturals

VARIABLES
    kind,       \* what the service makes of the request, see Kinds
    carried,    \* how often it carried it out
    result      \* what the call returned, "none" before it did

callVars == <<kind, carried, result>>

\* "repeatable": the service accepts it every time (PATCH, POST of the same
\* identity); "once": the path is gone after the first time (DELETE, PUT with
\* another userName); "refused": never accepted.
Kinds == {"repeatable", "once", "refused"}
Results == {"none", "ok", "conflict", "error"}

Accepts == kind = "repeatable" \/ (kind = "once" /\ carried = 0)

CallInit ==
    /\ kind \in Kinds
    /\ carried = 0
    /\ result = "none"

\* A copy of the request may still be under way when the call has returned.
Arrive == carried' = carried + (IF Accepts THEN 1 ELSE 0)

Return ==
    /\ result = "none"
    /\ \/ result' = "error"
       \/ result' = "ok" /\ carried' > 0
       \/ result' = "conflict" /\ kind = "refused"

\* The next request of the engine.
NextCall ==
    /\ result # "none"
    /\ kind' \in Kinds
    /\ carried' = 0
    /\ result' = "none"

CallStep ==
    /\ Arrive \/ UNCHANGED carried
    /\ Return \/ UNCHANGED result
    /\ UNCHANGED kind

CallNext == NextCall \/ CallStep

CallSpec == CallInit /\ [][CallNext]_callVars
=============================================================================
