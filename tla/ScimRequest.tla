----------------------------- MODULE ScimRequest -----------------------------
(***************************************************************************)
(* doRequest of internal/scim, called by the engine for one request after  *)
(* the other: the rate limiter's Wait, then the request, sent again after  *)
(* network errors, 429 and 5xx, over a network that loses requests and     *)
(* answers and a service that fails before or after it has carried a       *)
(* request out.  The client gives an attempt 30 seconds; the request may   *)
(* arrive later.                                                           *)
(*                                                                         *)
(* Only Wait looks at the clock, so only there does the model's advance.   *)
(***************************************************************************)
EXTENDS RateLimiter

CONSTANTS
    MaxAttempts,    \* attempts in all (client.go:172)
    NetworkRetries, \* a network error is retried before this attempt (:190)
    ServerRetries   \* a 5xx is retried before this attempt (:218)

ASSUME RetryAssumption ==
    /\ {MaxAttempts, NetworkRetries, ServerRetries} \subseteq Nat
    /\ ServerRetries <= NetworkRetries /\ NetworkRetries < MaxAttempts

VARIABLES
    kind, carried, result,  \* as in ScimCall
    pc,                     \* "limited" (in Wait), "ready", "sent", "asleep" (backoff), "done"
    attempt,                \* the loop variable
    answer,                 \* the kind of the last answer
    late                    \* copies the client gave up on that may still arrive

requestVars == <<kind, carried, result, pc, attempt, answer, late>>
vars == <<requestVars, limiterVars>>

Call == INSTANCE ScimCall

RequestTypeOK ==
    /\ LimiterTypeOK
    /\ kind \in Call!Kinds /\ result \in Call!Results
    /\ carried \in Nat /\ late \in Nat
    /\ pc \in {"limited", "ready", "sent", "asleep", "done"}
    /\ attempt \in 0..MaxAttempts
    /\ answer \in {"none", "2xx", "4xx", "429", "5xx", "network"}

Init ==
    /\ LimiterInit
    /\ Call!CallInit
    /\ pc = "limited" /\ attempt = 0 /\ answer = "none" /\ late = 0

-----------------------------------------------------------------------------

\* The engine's next call.  What is left of the last one is about another
\* request.  MaxCalls and MaxTime leave the time for Wait's sleep.
NextCall ==
    /\ pc = "done"
    /\ Len(begun) < MaxCalls /\ now + Window <= MaxTime
    /\ Call!NextCall
    /\ pc' = "limited"
    /\ attempt' = 0 /\ answer' = "none" /\ late' = 0
    /\ UNCHANGED limiterVars

Elapse ==
    /\ pc = "limited"
    /\ Tick
    /\ UNCHANGED requestVars

\* Once for a call, however often its request is sent.
Wait ==
    /\ pc = "limited"
    /\ \/ Hold /\ UNCHANGED pc
       \/ (Pass \/ Resume) /\ pc' = "ready"
    /\ UNCHANGED <<kind, carried, result, attempt, answer, late>>

Return(status) == pc' = "done" /\ result' = status
Again == pc' = "asleep" /\ UNCHANGED result

\* Slip: only answers end the loop.
SendAnyway ==
    /\ pc = "ready"
    /\ pc' = "sent"
    /\ UNCHANGED <<kind, carried, result, attempt, answer, late, limiterVars>>

Send ==
    /\ pc = "ready" /\ attempt < MaxAttempts
    /\ pc' = "sent"
    /\ UNCHANGED <<kind, carried, result, attempt, answer, late, limiterVars>>

\* A body that cannot be encoded, or a URL that cannot be parsed: the path holds
\* the username as it is.
Unbuilt ==
    /\ pc = "ready" /\ attempt = 0
    /\ Return("error")
    /\ UNCHANGED <<kind, carried, attempt, answer, late, limiterVars>>

\* Falling out of the loop.
Exhaust ==
    /\ pc = "ready" /\ attempt = MaxAttempts
    /\ Return("error")
    /\ UNCHANGED <<kind, carried, attempt, answer, late, limiterVars>>

Wake ==
    /\ pc = "asleep"
    /\ pc' = "ready"
    /\ attempt' = attempt + 1
    /\ UNCHANGED <<kind, carried, result, answer, late, limiterVars>>

\* 2xx; a body that cannot be decoded is an error although all is done.
Success ==
    /\ Call!Accepts
    /\ Call!Arrive
    /\ answer' = "2xx"
    /\ Return("ok") \/ Return("error")
    /\ UNCHANGED late

\* 4xx: no retry.  409 is the conflict CreateUser tells apart.
Refusal ==
    /\ ~Call!Accepts
    /\ answer' = "4xx"
    /\ Return("error") \/ (kind = "refused" /\ Return("conflict"))
    /\ UNCHANGED <<carried, late>>

\* Slip: being asked to wait does not count as an attempt.
TooManyUncounted ==
    /\ answer' = "429"
    /\ pc' = "ready"
    /\ UNCHANGED <<carried, result, late>>

TooMany ==
    /\ answer' = "429"
    /\ Again
    /\ UNCHANGED <<carried, late>>

\* Slip: the first failure is final.
ServerErrorFinal ==
    /\ answer' = "5xx"
    /\ Call!Arrive \/ UNCHANGED carried
    /\ Return("error")
    /\ UNCHANGED late

\* 5xx, before or after the service did its work.
ServerError ==
    /\ answer' = "5xx"
    /\ Call!Arrive \/ UNCHANGED carried
    /\ IF attempt < ServerRetries THEN Again ELSE Return("error")
    /\ UNCHANGED late

\* Slip: an answer that was lost is taken for a success.
NetworkErrorAsSuccess ==
    /\ answer' = "network"
    /\ Call!Arrive \/ UNCHANGED carried
    /\ Return("ok")
    /\ UNCHANGED late

\* No answer: the request was lost, or its answer, or it is still under way.
NetworkError ==
    /\ answer' = "network"
    /\ \/ UNCHANGED <<carried, late>>
       \/ Call!Arrive /\ UNCHANGED late
       \/ late' = late + 1 /\ UNCHANGED carried
    /\ IF attempt < NetworkRetries THEN Again ELSE Return("error")

Answer ==
    /\ pc = "sent"
    /\ Success \/ Refusal \/ TooMany \/ ServerError \/ NetworkError
    /\ UNCHANGED <<kind, attempt, limiterVars>>

LateArrival ==
    /\ late > 0
    /\ late' = late - 1
    /\ Call!Arrive
    /\ UNCHANGED <<kind, result, pc, attempt, answer, limiterVars>>

Next ==
    \/ NextCall \/ Elapse \/ Wait
    \/ Send \/ Unbuilt \/ Exhaust \/ Wake \/ Answer \/ LateArrival

\* The client's loop runs, an attempt ends at its timeout at the latest, and
\* time passes.
Fairness == WF_vars(Wait \/ Send \/ Unbuilt \/ Exhaust \/ Wake \/ Answer) /\ WF_vars(Elapse)

Spec == Init /\ [][Next]_vars
FairSpec == Spec /\ Fairness

-----------------------------------------------------------------------------

\* A call does to the service, and tells the engine, what ScimCall allows:
\* "ok" is never an unacknowledged request, "conflict" never one the service
\* may have carried out in an earlier attempt (client.go:34-44, 188-236).
ImplementsCall == Call!CallSpec

\* A request the service accepts does not fail because of a few failures on
\* the way: a call gives up after one no earlier than the fourth attempt,
\* however the kinds of failure alternate (client.go:190, 202-223).
OutlastsFailures ==
    result = "error" /\ answer \in {"429", "5xx", "network"} => attempt >= ServerRetries

\* Every call returns, however the service and the network behave: the sync
\* loop, which has no timeout of its own, is never stuck in one request, nor in
\* the sleep of the rate limiter.
CallReturns == result = "none" ~> result # "none"
=============================================================================
