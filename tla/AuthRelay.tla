------------------------------ MODULE AuthRelay ------------------------------
(***************************************************************************)
(* The authentication relay of internal/relay: a client that follows the   *)
(* service's event stream, starts a goroutine for every challenge it       *)
(* receives, checks the password with a bind against the directory and     *)
(* posts the result, while the stream breaks and is opened again from the  *)
(* last event seen.                                                        *)
(*                                                                         *)
(* The service numbers its events and sends those after Last-Event-ID; a   *)
(* client that sends no such header gets the events from any point on.     *)
(* Definitions marked "Slip:" are mistakes to check the properties with.   *)
(***************************************************************************)
EXTENDS Naturals, Sequences

CONSTANTS
    MaxEvents,  \* bound: events the service sends
    MaxFaults,  \* bound: broken streams, failed requests and binds
    MaxBackoff  \* seconds (client.go:58)

ASSUME RelayAssumption ==
    MaxEvents \in Nat /\ MaxFaults \in Nat /\ MaxBackoff \in Nat \ {0}

VARIABLES
    events,     \* what the service has to send, in order
    cursor,     \* the last event whose lines were read from this stream
    first,      \* history: where the service began when not told
    pc,         \* the loop of Run
    partial,    \* the event whose end has not been read yet, 0 if none
    lastEventID,\* the last challenge taken from a stream, 0 before
    backoff,    \* seconds the next wait lasts
    jobs,       \* the goroutine of each event
    outcome,    \* what HandleChallenge returned for it
    answers,    \* what the service was told
    binds,      \* history: binds made for it
    stopping,   \* the context is cancelled
    faults      \* faults so far

stream == <<cursor, first, partial, lastEventID>>
loop == <<pc, backoff>>
handlers == <<jobs, outcome, answers, binds>>
vars == <<events, stream, loop, handlers, stopping, faults>>

Ids == 1..MaxEvents

\* "other": not an auth_challenge; "garbled": one whose data is no JSON.
\* right: the directory accepts the password the user typed; one it refuses
\* is wrong or has expired, told apart only in a field of the result.
Event == {event \in [kind: {"challenge", "garbled", "other"}, right: BOOLEAN] :
            event.kind # "challenge" => ~event.right}
Outcomes == {"success", "denied", "error"}

RelayTypeOK ==
    /\ events \in Seq(Event) /\ Len(events) <= MaxEvents
    /\ cursor \in 0..Len(events) /\ first \in 0..Len(events)
    /\ partial \in 0..Len(events) /\ lastEventID \in 0..Len(events)
    /\ pc \in {"connect", "stream", "wait", "stopped"}
    /\ backoff \in 1..MaxBackoff
    /\ stopping \in BOOLEAN
    /\ jobs \in [Ids -> {"none", "handling", "posting", "done"}]
    /\ outcome \in [Ids -> Outcomes \cup {"none"}]
    /\ answers \in [Ids -> Outcomes \cup {"none", "lost"}]
    /\ binds \in [Ids -> Nat]
    /\ faults \in Nat

Init ==
    /\ events = <<>>
    /\ cursor = 0 /\ first = 0 /\ partial = 0 /\ lastEventID = 0
    /\ pc = "connect" /\ backoff = 1
    /\ jobs = [e \in Ids |-> "none"] /\ outcome = [e \in Ids |-> "none"]
    /\ answers = [e \in Ids |-> "none"] /\ binds = [e \in Ids |-> 0]
    /\ stopping = FALSE /\ faults = 0

Fault == faults < MaxFaults /\ faults' = faults + 1

-----------------------------------------------------------------------------
(* Run and connectAndProcess. *)

\* A user logs in, or the service sends something else.
Publish ==
    /\ Len(events) < MaxEvents
    /\ \E event \in Event : events' = Append(events, event)
    /\ UNCHANGED <<stream, loop, handlers, stopping, faults>>

Connect ==
    /\ pc = "connect" /\ ~stopping
    /\ IF lastEventID = 0
       THEN cursor' \in 0..Len(events) /\ first' = cursor'
       ELSE cursor' = lastEventID /\ first' = first
    /\ partial' = 0
    /\ pc' = "stream"
    /\ UNCHANGED <<events, lastEventID, backoff, handlers, stopping, faults>>

\* No connection, or a status other than 200.
ConnectFails ==
    /\ pc = "connect"
    /\ Fault
    /\ pc' = "wait"
    /\ UNCHANGED <<events, stream, backoff, handlers, stopping>>

\* Slip: the id line is remembered when it is read.
ReadLinesMarking ==
    /\ pc = "stream" /\ partial = 0
    /\ cursor < Len(events)
    /\ cursor' = cursor + 1 /\ partial' = cursor'
    /\ lastEventID' = cursor'
    /\ UNCHANGED <<events, first, loop, handlers, stopping, faults>>

\* The id, event and data lines of the next event.
ReadLines ==
    /\ pc = "stream" /\ partial = 0
    /\ cursor < Len(events)
    /\ cursor' = cursor + 1 /\ partial' = cursor'
    /\ UNCHANGED <<events, first, lastEventID, loop, handlers, stopping, faults>>

\* Slip: the id is remembered with the answer, not with the event.
TakeUnmarked(e) ==
    /\ jobs' = [jobs EXCEPT ![e] = "handling"]
    /\ UNCHANGED lastEventID

\* handleEvent.  Every event is taken to carry the id the service numbered it
\* with: the client keeps its lastEventID otherwise (client.go:182).
Take(e) ==
    /\ lastEventID' = e
    /\ IF events[e].kind = "challenge"
       THEN jobs' = [jobs EXCEPT ![e] = "handling"]
       ELSE UNCHANGED jobs

\* The empty line at the end of the event.
EndEvent ==
    /\ pc = "stream" /\ partial # 0
    /\ partial' = 0
    /\ IF events[partial].kind = "other"
       THEN UNCHANGED <<lastEventID, jobs>>
       ELSE Take(partial)
    /\ UNCHANGED <<events, cursor, first, loop, outcome, answers, binds, stopping, faults>>

\* Slip: an error ends Run.
DisconnectForGood ==
    /\ pc = "stream"
    /\ Fault
    /\ pc' = "stopped" /\ partial' = 0
    /\ UNCHANGED <<events, cursor, first, lastEventID, backoff, handlers, stopping>>

\* The stream is closed, a read fails, or nothing comes for 90 seconds; what
\* was read of an unfinished event is forgotten.
Disconnect ==
    /\ pc = "stream"
    /\ Fault
    /\ pc' = "wait" /\ partial' = 0
    /\ UNCHANGED <<events, cursor, first, lastEventID, backoff, handlers, stopping>>

\* Slip: the limit is checked before doubling.
WaitOverUnbounded ==
    /\ pc = "wait"
    /\ pc' = "connect"
    /\ backoff' = IF backoff > MaxBackoff THEN MaxBackoff ELSE 2 * backoff
    /\ UNCHANGED <<events, stream, handlers, stopping, faults>>

WaitOver ==
    /\ pc = "wait"
    /\ pc' = "connect"
    /\ backoff' = IF 2 * backoff > MaxBackoff THEN MaxBackoff ELSE 2 * backoff
    /\ UNCHANGED <<events, stream, handlers, stopping, faults>>

\* The daemon cancels the context; Run sees it wherever it waits.
Cancel ==
    /\ ~stopping
    /\ stopping' = TRUE
    /\ UNCHANGED <<events, stream, loop, handlers, faults>>

\* Slip: only the top of the loop looks.
StopAtTheTop ==
    /\ stopping /\ pc = "connect"
    /\ pc' = "stopped"
    /\ UNCHANGED <<events, stream, backoff, handlers, stopping, faults>>

Stop ==
    /\ stopping /\ pc # "stopped"
    /\ pc' = "stopped" /\ partial' = 0
    /\ UNCHANGED <<events, cursor, first, lastEventID, backoff, handlers, stopping, faults>>

-----------------------------------------------------------------------------
(* The goroutine of one challenge: HandleChallenge, then postResult. *)

\* Slip: every bind that does not succeed is a wrong password.
VerdictOfAnyError(e, reached) == IF reached /\ events[e].right THEN "success" ELSE "denied"

\* A directory that cannot be reached, a user that is not found and a bind
\* that fails for another reason than the password are errors.
Verdict(e, reached) ==
    IF ~reached THEN "error" ELSE IF events[e].right THEN "success" ELSE "denied"

\* The bind is not made when the user or the connection is missing.
HandleChallenge(e) ==
    /\ jobs[e] = "handling"
    /\ \/ /\ outcome' = [outcome EXCEPT ![e] = Verdict(e, TRUE)]
          /\ binds' = [binds EXCEPT ![e] = @ + 1]
          /\ UNCHANGED faults
       \/ /\ Fault
          /\ outcome' = [outcome EXCEPT ![e] = Verdict(e, FALSE)]
          /\ binds' \in {binds, [binds EXCEPT ![e] = @ + 1]}
    /\ jobs' = [jobs EXCEPT ![e] = "posting"]
    /\ UNCHANGED <<events, stream, loop, answers, stopping>>

\* Slip: the goroutines share the challenge that was received last.
PostResultOfLast(e) ==
    /\ jobs[e] = "posting"
    /\ \/ answers' = [answers EXCEPT ![lastEventID] = outcome[e]] /\ ~stopping /\ UNCHANGED faults
       \/ UNCHANGED answers
          /\ IF stopping THEN UNCHANGED faults ELSE Fault
    /\ jobs' = [jobs EXCEPT ![e] = "done"]
    /\ UNCHANGED <<events, stream, loop, outcome, binds, stopping>>

\* A post that fails is logged and not repeated.  It may have arrived.
PostResult(e) ==
    /\ jobs[e] = "posting"
    /\ \/ answers' = [answers EXCEPT ![e] = outcome[e]] /\ ~stopping /\ UNCHANGED faults
       \/ answers' \in {[answers EXCEPT ![e] = a] : a \in {"lost", outcome[e]}}
          /\ IF stopping THEN UNCHANGED faults ELSE Fault
    /\ jobs' = [jobs EXCEPT ![e] = "done"]
    /\ UNCHANGED <<events, stream, loop, outcome, binds, stopping>>

-----------------------------------------------------------------------------

Read == Connect \/ ReadLines \/ EndEvent \/ WaitOver

Next ==
    \/ Publish \/ Cancel
    \/ Read \/ ConnectFails \/ Disconnect \/ Stop
    \/ \E e \in Ids : HandleChallenge(e) \/ PostResult(e)

\* The goroutines run, the directory and the service answer or fail, and a
\* select one of whose channels stays ready takes it in the end.
Fairness ==
    /\ WF_vars(Read) /\ WF_vars(Stop)
    /\ \A e \in Ids : WF_vars(HandleChallenge(e)) /\ WF_vars(PostResult(e))

Spec == Init /\ [][Next]_vars
FairSpec == Spec /\ Fairness

-----------------------------------------------------------------------------

IsChallenge(e) == e <= Len(events) /\ events[e].kind = "challenge"
Taken(e) == jobs[e] # "none"

\* A user's password is tried once: a stream that breaks while challenges are
\* being handled does not bring them again, so one login never counts as
\* several bad passwords (client.go:99-101, 181-186).
BoundAtMostOnce == \A e \in Ids : binds[e] <= 1

\* What the client asks the service to leave out it has taken: a stream that
\* breaks in the middle of an event, or after events of other kinds, skips no
\* challenge (client.go:144-176).
NothingSkipped ==
    \A e \in Ids : IsChallenge(e) /\ first < e /\ e <= lastEventID => Taken(e)

\* Whatever the order in which the goroutines finish, the service is told of
\* each login what the directory said of its own password, and is never told
\* that it was wrong when the directory did not say so (handler.go:27-76).
AnswersTellTheBind ==
    \A e \in Ids :
        /\ answers[e] = "success" => events[e].right /\ binds[e] > 0
        /\ answers[e] = "denied" => ~events[e].right /\ binds[e] > 0

\* The passwords typed so far.
Typed ==
    [e \in Ids |-> IF ~IsChallenge(e) THEN "none" ELSE IF events[e].right THEN "right" ELSE "wrong"]

Login == INSTANCE Logins WITH typed <- Typed, tries <- binds, told <- answers

\* Streams that break and are opened again, events of other kinds, goroutines
\* that finish in any order, and a daemon that stops show the service nothing
\* but logins: every step tries one login for the first time, or gives one its
\* only answer, or is unseen (client.go:89-231, handler.go:27-76).
ServesLogins == Login!Spec

\* Every challenge is answered, or lost in a post that failed, however often
\* the stream broke, unless it was sent before the relay had connected or the
\* relay is stopped.
EveryChallengeAnswered ==
    \A e \in Ids : IsChallenge(e) ~> answers[e] # "none" \/ e <= first \/ stopping

\* Run ends when the context is cancelled, wherever it is.
StopsWhenCancelled == stopping ~> pc = "stopped"
=============================================================================
