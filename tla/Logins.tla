-------------------------------- MODULE Logins --------------------------------
(***************************************************************************)
(* What the authentication relay promises about logins: no stream, no      *)
(* event numbers, no goroutines.  A password is tried at most once, and    *)
(* only after it was typed; the login gets at most one answer, which it    *)
(* keeps, and which is the directory's verdict on its own password; and    *)
(* nothing is tried any more once the answer is given.                     *)
(***************************************************************************)
EXTENDS Naturals

CONSTANT Ids

VARIABLES
    typed,  \* what the directory thinks of the password of each login
    tries,  \* how often it was asked
    told    \* what the service was told, "lost" when the one answer was

vars == <<typed, tries, told>>

Answers == {"success", "denied", "error", "lost"}

Init ==
    /\ typed = [e \in Ids |-> "none"]
    /\ tries = [e \in Ids |-> 0]
    /\ told = [e \in Ids |-> "none"]

LogIn(e) ==
    /\ typed[e] = "none"
    /\ typed' \in {[typed EXCEPT ![e] = word] : word \in {"right", "wrong"}}
    /\ UNCHANGED <<tries, told>>

Try(e) ==
    /\ typed[e] # "none" /\ tries[e] = 0 /\ told[e] = "none"
    /\ tries' = [tries EXCEPT ![e] = 1]
    /\ UNCHANGED <<typed, told>>

\* An error may come with or without a try, and so may an answer that is lost.
Tell(e, answer) ==
    /\ typed[e] # "none" /\ told[e] = "none"
    /\ answer = "success" => tries[e] = 1 /\ typed[e] = "right"
    /\ answer = "denied" => tries[e] = 1 /\ typed[e] = "wrong"
    /\ told' = [told EXCEPT ![e] = answer]
    /\ UNCHANGED <<typed, tries>>

Next ==
    \E e \in Ids : LogIn(e) \/ Try(e) \/ \E answer \in Answers : Tell(e, answer)

Spec == Init /\ [][Next]_vars
=============================================================================
