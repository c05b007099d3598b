-------------------------- MODULE ScimRequestProofs --------------------------
(***************************************************************************)
(* Proofs about ScimRequest, for any limits of the retry loop and of the   *)
(* rate limiter, and any number of calls.                                  *)
(***************************************************************************)
EXTENDS ScimRequest, RateLimiterProofs

\* The loop goes to sleep only when it has an attempt left, a call that has not
\* ended has told nothing yet, and there is no answer before the first attempt.
LoopInv ==
    /\ RequestTypeOK
    /\ LimiterInv
    /\ pc = "asleep" => attempt < MaxAttempts
    /\ pc = "sent" => attempt < MaxAttempts
    /\ pc # "done" => result = "none"
    /\ attempt = 0 /\ pc \in {"limited", "ready", "sent"} => answer = "none"
    /\ OutlastsFailures

LEMMA InitLoop == Init => LoopInv
<1>1. Init => LimiterInv /\ LimiterTypeOK
  BY LimiterStarts DEF Init, LimiterInv
<1> QED
  BY <1>1, RetryAssumption
     DEF Init, LoopInv, RequestTypeOK, OutlastsFailures, Call!CallInit, Call!Kinds, Call!Results

\* A step of the loop is none of the limiter, or one of it.
LEMMA NextLimiter == [Next]_vars => [LimiterNext]_limiterVars
  BY DEF Next, vars, NextCall, Elapse, Wait, Send, Unbuilt, Exhaust, Wake, Answer,
         LateArrival, LimiterNext

LEMMA LimiterLoop == LimiterInv /\ [Next]_vars => LimiterInv' /\ LimiterTypeOK'
<1>1. ASSUME LimiterInv, UNCHANGED limiterVars PROVE LimiterInv'
  BY <1>1 DEF limiterVars, LimiterInv, LimiterTypeOK, RateKept
<1> QED BY <1>1, NextLimiter, LimiterKeeps DEF LimiterInv

\* What one answer does to the invariant.
LEMMA AnswerLoop ==
    ASSUME LoopInv, Answer, LimiterInv', LimiterTypeOK' PROVE LoopInv'
<1> USE RetryAssumption
        DEF LoopInv, RequestTypeOK, OutlastsFailures, Answer, Call!Kinds, Call!Results
<1>1. Call!Accepts /\ Call!Arrive => carried' \in Nat
  BY DEF Call!Arrive
<1>2. Call!Arrive => carried' \in Nat
  BY DEF Call!Arrive
<1>3. CASE Success
  BY <1>1, <1>3 DEF Success, Return
<1>4. CASE Refusal
  BY <1>4 DEF Refusal, Return
<1>5. CASE TooMany
  BY <1>5 DEF TooMany, Again
<1>6. CASE ServerError
  BY <1>2, <1>6 DEF ServerError, Return, Again
<1>7. CASE NetworkError
  BY <1>2, <1>7 DEF NetworkError, Return, Again
<1> QED
  BY <1>3, <1>4, <1>5, <1>6, <1>7

LEMMA NextLoop == LoopInv /\ [Next]_vars => LoopInv'
<1> SUFFICES ASSUME LoopInv, [Next]_vars PROVE LoopInv'
  OBVIOUS
<1> USE RetryAssumption
        DEF LoopInv, RequestTypeOK, OutlastsFailures, Call!Kinds, Call!Results
<1> LimiterInv' /\ LimiterTypeOK'
  BY LimiterLoop
<1>1. CASE Send
  BY <1>1 DEF Send
<1>2. CASE Unbuilt \/ Exhaust
  BY <1>2 DEF Unbuilt, Exhaust, Return
<1>3. CASE Wake
  BY <1>3 DEF Wake
<1>4. CASE Answer
  BY <1>4, AnswerLoop
<1>5. CASE LateArrival
  BY <1>5 DEF LateArrival, Call!Arrive
<1>6. CASE UNCHANGED vars
  BY <1>6 DEF vars, requestVars
<1>7. CASE NextCall
  BY <1>7 DEF NextCall, Call!NextCall
<1>8. CASE Elapse
  BY <1>8 DEF Elapse, requestVars
<1>9. CASE Wait
  BY <1>9 DEF Wait
<1> QED
  BY <1>1, <1>2, <1>3, <1>4, <1>5, <1>6, <1>7, <1>8, <1>9 DEF Next

\* Every step of the loop is a step, or a stutter, of the abstract call.
LEMMA NextRefines == LoopInv /\ [Next]_vars => [Call!CallNext]_(Call!callVars)
<1> SUFFICES ASSUME LoopInv, [Next]_vars PROVE [Call!CallNext]_(Call!callVars)
  OBVIOUS
<1> USE DEF Call!CallNext, Call!CallStep, Call!callVars
<1>1. CASE Send \/ Wake \/ Wait \/ Elapse
  BY <1>1 DEF Send, Wake, Wait, Elapse, requestVars
<1>2. CASE Unbuilt \/ Exhaust
  BY <1>2 DEF Unbuilt, Exhaust, Return, LoopInv, Call!Return
<1>3. CASE Answer
  <2>1. kind' = kind /\ result = "none" /\ carried \in Nat
    BY <1>3 DEF Answer, LoopInv, RequestTypeOK
  <2>2. CASE Success
    <3>1. carried' > 0
      BY <2>1, <2>2 DEF Success, Call!Arrive
    <3> QED
      BY <2>1, <2>2, <3>1 DEF Success, Return, Call!Return
  <2>3. CASE Refusal
    BY <2>1, <2>3 DEF Refusal, Return, Call!Return
  <2>4. CASE TooMany
    BY <2>1, <2>4 DEF TooMany, Again
  <2>5. CASE ServerError
    BY <2>1, <2>5 DEF ServerError, Return, Again, Call!Return
  <2>6. CASE NetworkError
    BY <2>1, <2>6 DEF NetworkError, Return, Again, Call!Return
  <2> QED
    BY <1>3, <2>2, <2>3, <2>4, <2>5, <2>6 DEF Answer
<1>4. CASE LateArrival
  BY <1>4 DEF LateArrival
<1>5. CASE UNCHANGED vars
  BY <1>5 DEF vars, requestVars
<1>6. CASE NextCall
  BY <1>6 DEF NextCall
<1> QED
  BY <1>1, <1>2, <1>3, <1>4, <1>5, <1>6 DEF Next

\* The retry loop of doRequest does what the sync engine counts on: whatever
\* is lost or fails, and in however many attempts, "ok" means carried out and
\* "conflict" means never carried out.
THEOREM RequestRefinesCall == Spec => ImplementsCall
<1>1. Init => Call!CallInit
  BY DEF Init
<1>2. Spec => []LoopInv
  BY InitLoop, NextLoop, PTL DEF Spec
<1> QED
  BY <1>1, <1>2, NextRefines, PTL DEF Spec, ImplementsCall, Call!CallSpec

\* A call fails before ServerRetries retries only on an answer about the
\* request itself.
THEOREM RequestOutlasts == Spec => []OutlastsFailures
<1>1. LoopInv => OutlastsFailures
  BY DEF LoopInv
<1> QED
  BY <1>1, InitLoop, NextLoop, PTL DEF Spec

\* Every variable of the client keeps its type.
THEOREM RequestTypeCorrect == Spec => []RequestTypeOK
<1>1. LoopInv => RequestTypeOK
  BY DEF LoopInv
<1> QED
  BY <1>1, InitLoop, NextLoop, PTL DEF Spec

\* The requests of the engine keep the rate of the limiter: all of them go
\* through Wait, one after the other.
THEOREM RequestsKeepRate == Spec => []RateKept
<1>1. LoopInv => RateKept
  BY DEF LoopInv, LimiterInv
<1> QED
  BY <1>1, InitLoop, NextLoop, PTL DEF Spec
=============================================================================
