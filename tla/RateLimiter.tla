----------------------------- MODULE RateLimiter -----------------------------
(***************************************************************************)
(* rateLimiter of internal/scim: Wait lets a request of the SCIM client    *)
(* begin, after a sleep if the last Window already has Max of them.  It    *)
(* remembers when requests began and forgets them when they are a Window   *)
(* old; the client has one, and calls it from one goroutine.  The clock is *)
(* monotonic, as time.Now is.                                              *)
(***************************************************************************)
EXTENDS Naturals, Sequences, FiniteSets

CONSTANTS
    Max,        \* maxPerWin: 80 (client.go:30)
    Window,     \* window: a minute
    MaxTime,    \* bound: the clock's last tick
    MaxCalls    \* bound: requests in all

ASSUME LimiterAssumption ==
    /\ {Max, Window, MaxTime, MaxCalls} \subseteq Nat
    /\ Max > 0

VARIABLES
    now,        \* the clock
    begun,      \* history: when each request was let through
    kept,       \* timestamps: the requests whose times are remembered
    holding     \* Wait is in its sleep, the mutex released

limiterVars == <<now, begun, kept, holding>>

LimiterTypeOK ==
    /\ now \in Nat
    /\ begun \in Seq(Nat)
    /\ kept \subseteq DOMAIN begun
    /\ holding \in BOOLEAN

LimiterInit ==
    /\ now = 0
    /\ begun = <<>>
    /\ kept = {}
    /\ holding = FALSE

Tick ==
    /\ now < MaxTime
    /\ now' = now + 1
    /\ UNCHANGED <<begun, kept, holding>>

Pruned == {i \in kept : begun[i] + Window > now}

\* Slip: what was remembered before the sleep is dropped.
BeginAfresh ==
    /\ begun' = Append(begun, now)
    /\ kept' = {Len(begun) + 1}
    /\ UNCHANGED now

Begin ==
    /\ begun' = Append(begun, now)
    /\ kept' = Pruned \cup {Len(begun) + 1}
    /\ UNCHANGED now

Pass ==
    /\ ~holding
    /\ Cardinality(Pruned) < Max
    /\ Begin
    /\ UNCHANGED holding

Hold ==
    /\ ~holding
    /\ Cardinality(Pruned) >= Max
    /\ kept' = Pruned
    /\ holding' = TRUE
    /\ UNCHANGED <<now, begun>>

\* The sleep lasts until the oldest time remembered is a Window old, if not
\* longer; the limit is not looked at again.
Resume ==
    /\ holding
    /\ \E oldest \in kept :
          /\ \A i \in kept : oldest <= i
          /\ begun[oldest] + Window <= now
    /\ Begin
    /\ holding' = FALSE

LimiterNext == Tick \/ Pass \/ Hold \/ Resume

LimiterSpec == LimiterInit /\ [][LimiterNext]_limiterVars

-----------------------------------------------------------------------------

\* Of any Max + 1 requests in a row the last begins at least a Window after
\* the first: no Window of time, wherever it starts, sees more than Max of
\* them begin, although the limiter forgets what it has pruned, appends after
\* its sleep without counting again, and sleeps with its mutex released
\* (ratelimit.go:28-57).
RateKept ==
    \A i, j \in DOMAIN begun : j = i + Max => begun[i] + Window <= begun[j]
=============================================================================
