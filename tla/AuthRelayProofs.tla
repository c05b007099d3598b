--------------------------- MODULE AuthRelayProofs ---------------------------
(***************************************************************************)
(* Proofs about AuthRelay, for any number of events and faults.            *)
(***************************************************************************)
EXTENDS AuthRelay, TLAPS

\* How far the client is: the event being read is the last one read, and it
\* comes after every event taken.
OrderOK ==
    /\ lastEventID <= cursor
    /\ partial # 0 => partial = cursor /\ lastEventID < partial /\ pc = "stream"

\* A goroutine was started only for a challenge that is marked as taken.
JobsOK ==
    \A e \in Ids : Taken(e) => e <= lastEventID /\ IsChallenge(e)

\* No event was left out of those read from the stream that is open.
ReadOK ==
    pc = "stream" =>
        \A e \in Ids : IsChallenge(e) /\ first < e /\ e <= cursor /\ e # partial => Taken(e)

\* The bind of an event is made by its own goroutine, once, and so is the post.
BindsOK ==
    \A e \in Ids :
        /\ jobs[e] \in {"none", "handling"} => binds[e] = 0
        /\ binds[e] <= 1
        /\ outcome[e] = "success" => events[e].right /\ binds[e] > 0
        /\ outcome[e] = "denied" => ~events[e].right /\ binds[e] > 0
        /\ jobs[e] \in {"none", "handling"} => outcome[e] = "none"
        /\ jobs[e] \in {"posting", "done"} => outcome[e] \in Outcomes
        /\ answers[e] \in {"success", "denied"} => answers[e] = outcome[e]
        /\ jobs[e] # "done" => answers[e] = "none"

RelayInv == RelayTypeOK /\ OrderOK /\ JobsOK /\ ReadOK /\ NothingSkipped /\ BindsOK

LEMMA InitRelay == Init => RelayInv
<1> SUFFICES ASSUME Init PROVE RelayInv
  OBVIOUS
<1> USE RelayAssumption DEF Init
<1>1. RelayTypeOK
  <2>1. events \in Seq(Event) /\ Len(events) = 0
    OBVIOUS
  <2>2. /\ pc \in {"connect", "stream", "wait", "stopped"}
        /\ jobs \in [Ids -> {"none", "handling", "posting", "done"}]
        /\ outcome \in [Ids -> Outcomes \cup {"none"}]
        /\ answers \in [Ids -> Outcomes \cup {"none", "lost"}]
        /\ binds \in [Ids -> Nat]
    OBVIOUS
  <2>3. backoff \in 1..MaxBackoff /\ faults \in Nat
    OBVIOUS
  <2>5. stopping \in BOOLEAN
    OBVIOUS
  <2>4. {cursor, first, partial, lastEventID} \subseteq 0..Len(events) /\ Len(events) <= MaxEvents
    BY <2>1
  <2> QED
    BY <2>1, <2>2, <2>3, <2>4, <2>5 DEF RelayTypeOK
<1>2. OrderOK /\ JobsOK /\ ReadOK /\ NothingSkipped /\ BindsOK
  BY DEF OrderOK, JobsOK, ReadOK, NothingSkipped, BindsOK, Taken, IsChallenge, Ids
<1> QED
  BY <1>1, <1>2 DEF RelayInv

LEMMA Bounds ==
  ASSUME RelayTypeOK
  PROVE  /\ Len(events) \in Nat /\ Len(events) <= MaxEvents /\ MaxEvents \in Nat
         /\ {cursor, first, partial, lastEventID} \subseteq Nat
         /\ {cursor, first, partial, lastEventID} \subseteq 0..Len(events)
  BY RelayAssumption DEF RelayTypeOK

\* An event that is added changes no earlier one.
LEMMA PublishRelay == RelayInv /\ Publish => RelayInv'
<1> SUFFICES ASSUME RelayInv, Publish PROVE RelayInv'
  OBVIOUS
<1> USE RelayAssumption DEF RelayInv, Publish, stream, loop, handlers
<1>1. PICK event \in Event : events' = Append(events, event)
  OBVIOUS
<1>2. /\ events' \in Seq(Event) /\ Len(events') = Len(events) + 1
      /\ Len(events) \in Nat /\ Len(events) < MaxEvents
      /\ \A e \in 1..Len(events) : events'[e] = events[e]
  BY <1>1 DEF RelayTypeOK
<1>3. \A e \in Ids : e <= Len(events) => e \in 1..Len(events)
  BY <1>2 DEF Ids
<1>4. \A e \in Ids : e <= cursor \/ e <= lastEventID => (IsChallenge(e)' <=> IsChallenge(e))
  <2>1. /\ cursor \in Nat /\ cursor <= Len(events)
        /\ lastEventID \in Nat /\ lastEventID <= Len(events)
    BY <1>2 DEF RelayTypeOK
  <2>2. \A e \in Ids : e \in Nat
    BY DEF Ids
  <2>3. ASSUME NEW e \in Ids, e <= cursor \/ e <= lastEventID
        PROVE  e <= Len(events) /\ e <= Len(events')
    BY <1>2, <2>1, <2>2, <2>3
  <2>4. \A e \in Ids : e <= Len(events) => events'[e] = events[e]
    BY <1>2, <1>3
  <2> QED BY <2>3, <2>4 DEF IsChallenge
<1>5. RelayTypeOK'
  BY <1>2 DEF RelayTypeOK
<1>6. OrderOK'
  BY DEF OrderOK
<1>7. JobsOK'
  BY <1>4 DEF JobsOK, Taken
<1>8. ReadOK' /\ NothingSkipped'
  BY <1>4 DEF ReadOK, NothingSkipped, Taken
<1>9. BindsOK'
  <2>1. \A e \in Ids : outcome[e] # "none" => Taken(e)
    BY DEF BindsOK, Taken
  <2>2. \A e \in Ids : outcome[e] # "none" => events'[e] = events[e]
    BY <1>2, <1>3, <2>1 DEF JobsOK, IsChallenge
  <2> QED
    BY <2>2 DEF BindsOK, RelayTypeOK
<1> QED
  BY <1>5, <1>6, <1>7, <1>8, <1>9

LEMMA TakeRelay == RelayInv /\ EndEvent => RelayInv'
<1> SUFFICES ASSUME RelayInv, EndEvent PROVE RelayInv'
  OBVIOUS
<1> USE DEF RelayInv, EndEvent, loop
<1>0. partial \in Ids /\ partial <= Len(events) /\ partial = cursor /\ lastEventID < partial
  BY Bounds DEF OrderOK, Ids
<1>1. ~Taken(partial)
  BY <1>0 DEF JobsOK, RelayTypeOK, Ids
<1>2. CASE events[partial].kind = "other"
  <2> USE <1>0, <1>2
  <2>1. RelayTypeOK' /\ OrderOK'
    BY DEF RelayTypeOK, OrderOK
  <2>2. JobsOK' /\ BindsOK' /\ NothingSkipped'
    BY DEF JobsOK, BindsOK, NothingSkipped, Taken, IsChallenge
  <2>3. ReadOK'
    BY DEF ReadOK, Taken, IsChallenge
  <2> QED
    BY <2>1, <2>2, <2>3
<1>3. CASE events[partial].kind # "other"
  <2>0. /\ lastEventID' = partial
        /\ \A e \in Ids : e # partial => jobs'[e] = jobs[e]
        /\ jobs'[partial] = IF events[partial].kind = "challenge"
                            THEN "handling" ELSE jobs[partial]
        /\ jobs' \in [Ids -> {"none", "handling", "posting", "done"}]
    BY <1>0, <1>3 DEF Take, RelayTypeOK
  <2> USE <1>0, <1>1, <1>3, <2>0
  <2>1. RelayTypeOK' /\ OrderOK'
    BY DEF RelayTypeOK, OrderOK
  <2>2. JobsOK'
    BY DEF JobsOK, Taken, IsChallenge, RelayTypeOK, Ids
  <2>3. ReadOK' /\ NothingSkipped'
    BY DEF ReadOK, NothingSkipped, Taken, IsChallenge
  <2>4. BindsOK'
    BY DEF BindsOK, Taken
  <2> QED
    BY <2>1, <2>2, <2>3, <2>4
<1> QED
  BY <1>2, <1>3

\* The goroutine of one event touches nothing of another.
LEMMA JobRelay ==
  ASSUME RelayInv, NEW e \in Ids, HandleChallenge(e) \/ PostResult(e) PROVE RelayInv'
<1> USE DEF RelayInv, stream, loop
<1>1. CASE HandleChallenge(e)
  <2>1. PICK reached \in BOOLEAN :
            /\ outcome' = [outcome EXCEPT ![e] = Verdict(e, reached)]
            /\ binds' = [binds EXCEPT ![e] = @ + 1] \/ (~reached /\ binds' = binds)
            /\ jobs' = [jobs EXCEPT ![e] = "posting"] /\ jobs[e] = "handling"
            /\ UNCHANGED <<events, stream, loop, answers, stopping>>
            /\ faults' \in Nat
    <3> USE <1>1 DEF HandleChallenge, Fault
    <3>1. faults' \in Nat
      <4>1. faults \in Nat
        BY DEF RelayTypeOK
      <4>2. faults' = faults \/ faults' = faults + 1
        OBVIOUS
      <4> QED
        BY <4>1, <4>2
    <3>2. \/ /\ outcome' = [outcome EXCEPT ![e] = Verdict(e, TRUE)]
             /\ binds' = [binds EXCEPT ![e] = @ + 1]
          \/ /\ outcome' = [outcome EXCEPT ![e] = Verdict(e, FALSE)]
             /\ binds' = [binds EXCEPT ![e] = @ + 1] \/ binds' = binds
      OBVIOUS
    <3> QED
      BY <3>1, <3>2
  <2>2. binds[e] = 0 /\ binds'[e] \in {0, 1} /\ (reached => binds'[e] = 1)
    BY <2>1 DEF BindsOK, RelayTypeOK
  <2>3. RelayTypeOK'
    <3>1. Verdict(e, reached) \in Outcomes
      BY DEF Verdict, Outcomes
    <3>2. outcome' \in [Ids -> Outcomes \cup {"none"}]
      BY <2>1, <3>1 DEF RelayTypeOK
    <3>3. binds' \in [Ids -> Nat]
      BY <2>1 DEF RelayTypeOK
    <3> QED
      BY <2>1, <3>2, <3>3 DEF RelayTypeOK
  <2>4. OrderOK'
    BY <2>1 DEF OrderOK
  <2>5. \A f \in Ids : Taken(f)' <=> Taken(f)
    BY <2>1 DEF Taken, RelayTypeOK
  <2>6. JobsOK' /\ ReadOK' /\ NothingSkipped'
    BY <2>1, <2>5 DEF JobsOK, ReadOK, NothingSkipped, IsChallenge
  <2>7. BindsOK'
    <3>1. \A f \in Ids \ {e} : /\ binds'[f] = binds[f] /\ outcome'[f] = outcome[f]
                               /\ jobs'[f] = jobs[f]
      BY <2>1 DEF RelayTypeOK
    <3>2. outcome'[e] = Verdict(e, reached) /\ jobs'[e] = "posting"
      BY <2>1 DEF RelayTypeOK
    <3>3. answers'[e] = "none" /\ UNCHANGED <<answers, events>>
      BY <2>1 DEF BindsOK
    <3>4. /\ outcome'[e] \in Outcomes
          /\ outcome'[e] = "success" => reached /\ events[e].right
          /\ outcome'[e] = "denied" => reached /\ ~events[e].right
      BY <3>2 DEF Verdict, Outcomes
    <3>5. \A f \in Ids \ {e} :
            /\ jobs'[f] \in {"none", "handling"} => binds'[f] = 0 /\ outcome'[f] = "none"
            /\ binds'[f] <= 1
            /\ outcome'[f] = "success" => events'[f].right /\ binds'[f] > 0
            /\ outcome'[f] = "denied" => ~events'[f].right /\ binds'[f] > 0
            /\ jobs'[f] \in {"posting", "done"} => outcome'[f] \in Outcomes
            /\ answers'[f] \in {"success", "denied"} => answers'[f] = outcome'[f]
            /\ jobs'[f] # "done" => answers'[f] = "none"
      BY <3>1, <3>3 DEF BindsOK
    <3> QED
      BY <2>2, <3>2, <3>3, <3>4, <3>5 DEF BindsOK
  <2> QED
    BY <2>3, <2>4, <2>6, <2>7
<1>2. CASE PostResult(e)
  <2>1. /\ \A f \in Ids : f # e => answers'[f] = answers[f] /\ jobs'[f] = jobs[f]
        /\ answers'[e] \in {"lost", outcome[e]} /\ jobs'[e] = "done" /\ jobs[e] = "posting"
        /\ jobs' \in [Ids -> {"none", "handling", "posting", "done"}]
        /\ answers' \in [Ids -> Outcomes \cup {"none", "lost"}]
        /\ UNCHANGED <<events, stream, loop, outcome, binds, stopping>>
        /\ faults' \in Nat
    <3>1. PICK answer \in {"lost", outcome[e]} : answers' = [answers EXCEPT ![e] = answer]
      BY <1>2 DEF PostResult
    <3>2. /\ jobs[e] = "posting" /\ jobs' = [jobs EXCEPT ![e] = "done"]
          /\ UNCHANGED <<events, stream, loop, outcome, binds, stopping>>
      BY <1>2 DEF PostResult
    <3>3. faults' = faults \/ faults' = faults + 1
      BY <1>2 DEF PostResult, Fault
    <3>4. faults' \in Nat
      BY <3>3 DEF RelayTypeOK
    <3>5. answer \in Outcomes \cup {"none", "lost"}
      BY DEF RelayTypeOK
    <3>6. answers' \in [Ids -> Outcomes \cup {"none", "lost"}]
      BY <3>1, <3>5 DEF RelayTypeOK
    <3> QED BY <3>1, <3>2, <3>4, <3>6 DEF RelayTypeOK
  <2>2. RelayTypeOK' /\ OrderOK'
    BY <2>1 DEF RelayTypeOK, OrderOK
  <2>3. \A f \in Ids : Taken(f)' <=> Taken(f)
    BY <2>1 DEF Taken
  <2>4. JobsOK' /\ ReadOK' /\ NothingSkipped'
    BY <2>1, <2>3 DEF JobsOK, ReadOK, NothingSkipped, IsChallenge
  <2>5. BindsOK'
    BY <2>1 DEF BindsOK
  <2> QED
    BY <2>2, <2>4, <2>5
<1> QED
  BY <1>1, <1>2

LEMMA NextRelay == RelayInv /\ [Next]_vars => RelayInv'
<1> SUFFICES ASSUME RelayInv, [Next]_vars PROVE RelayInv'
  OBVIOUS
<1> USE RelayAssumption
<1>1. CASE Connect
  <2> USE <1>1 DEF Connect, RelayInv, handlers
  <2>1. cursor' \in 0..Len(events) /\ first' \in 0..Len(events) /\ lastEventID <= cursor'
    BY DEF RelayTypeOK
  <2>2. RelayTypeOK' /\ OrderOK'
    BY <2>1 DEF RelayTypeOK, OrderOK
  <2>3. JobsOK' /\ BindsOK'
    BY DEF JobsOK, BindsOK, Taken, IsChallenge
  <2>4. ReadOK' /\ NothingSkipped'
    BY <2>1, Bounds DEF ReadOK, NothingSkipped, Taken, IsChallenge, Ids
  <2> QED
    BY <2>2, <2>3, <2>4
<1>2. CASE ReadLines
  <2> USE <1>2 DEF ReadLines, RelayInv, handlers, loop
  <2>0. cursor' = cursor + 1 /\ partial' = cursor + 1 /\ cursor' \in 0..Len(events)
    BY Bounds
  <2>1. RelayTypeOK' /\ OrderOK'
    BY <2>0, Bounds DEF RelayTypeOK, OrderOK
  <2>2. JobsOK' /\ BindsOK' /\ NothingSkipped'
    BY DEF JobsOK, BindsOK, NothingSkipped, Taken, IsChallenge
  <2>3. ReadOK'
    <3> SUFFICES ASSUME NEW e \in Ids, IsChallenge(e), first < e, e <= cursor', e # partial'
                 PROVE  Taken(e)
      BY DEF ReadOK, Taken, IsChallenge
    <3>1. e <= cursor /\ e # partial
      BY <2>0, Bounds DEF Ids
    <3> QED
      BY <3>1 DEF ReadOK
  <2> QED
    BY <2>1, <2>2, <2>3
<1>3. CASE ConnectFails \/ Disconnect \/ WaitOver \/ Cancel \/ Stop
  <2> USE <1>3 DEF ConnectFails, Disconnect, WaitOver, Cancel, Stop, RelayInv, handlers,
                   stream, loop, Fault
  <2>1. RelayTypeOK'
    <3>1. backoff' \in 1..MaxBackoff /\ faults' \in Nat
      BY DEF RelayTypeOK
    <3>2. partial' \in 0..Len(events)
      BY Bounds
    <3> QED
      BY <3>1, <3>2 DEF RelayTypeOK
  <2>4. OrderOK'
    BY DEF OrderOK
  <2>2. JobsOK' /\ BindsOK' /\ NothingSkipped'
    BY DEF JobsOK, BindsOK, NothingSkipped, Taken, IsChallenge
  <2>3. ReadOK'
    BY DEF ReadOK, Taken, IsChallenge
  <2> QED
    BY <2>1, <2>2, <2>3, <2>4
<1>4. CASE UNCHANGED vars
  BY <1>4 DEF vars, stream, loop, handlers, RelayInv, RelayTypeOK, OrderOK, JobsOK, ReadOK,
              NothingSkipped, BindsOK, Taken, IsChallenge
<1> QED
  BY <1>1, <1>2, <1>3, <1>4, PublishRelay, TakeRelay, JobRelay DEF Next, Read

LEMMA RelayInvariant == Spec => []RelayInv
  BY InitRelay, NextRelay, PTL DEF Spec

\* One login never makes two binds, however often and wherever the stream
\* breaks: lastEventID covers an event before its goroutine exists.
THEOREM OneBindPerChallenge == Spec => []BoundAtMostOnce
<1>1. RelayInv => BoundAtMostOnce
  BY DEF RelayInv, BindsOK, BoundAtMostOnce
<1> QED
  BY <1>1, RelayInvariant, PTL

\* No challenge at or before lastEventID is left unhandled, from the point on
\* where the service began.
THEOREM ChallengesNotSkipped == Spec => []NothingSkipped
<1>1. RelayInv => NothingSkipped
  BY DEF RelayInv
<1> QED
  BY <1>1, RelayInvariant, PTL

\* The service is told of each login what the directory said of it.
THEOREM AnswersAreVerdicts == Spec => []AnswersTellTheBind
<1>1. RelayInv => AnswersTellTheBind
  BY DEF RelayInv, BindsOK, AnswersTellTheBind
<1> QED
  BY <1>1, RelayInvariant, PTL

-----------------------------------------------------------------------------
(* The relay implements Logins. *)

LEMMA TypedIs ==
    \A e \in Ids : Typed[e] = IF ~IsChallenge(e) THEN "none"
                              ELSE IF events[e].right THEN "right" ELSE "wrong"
  BY DEF Typed

LEMMA TypedStays == ASSUME UNCHANGED events PROVE Typed' = Typed
  BY DEF Typed, IsChallenge

\* A challenge that is sent is a password typed; nothing else sent is seen.
LEMMA PublishLogin ==
    ASSUME RelayInv, Publish PROVE Login!Next \/ UNCHANGED <<Typed, binds, answers>>
<1>1. UNCHANGED <<binds, answers>>
  BY DEF Publish, handlers
<1>2. PICK event \in Event : events' = Append(events, event)
  BY DEF Publish
<1> DEFINE n == Len(events) + 1
           word == IF event.kind # "challenge" THEN "none"
                   ELSE IF event.right THEN "right" ELSE "wrong"
<1>3. /\ n \in Ids /\ Len(events') = n /\ events'[n] = event
      /\ \A e \in 1..Len(events) : events'[e] = events[e]
  BY <1>2, Bounds DEF RelayInv, RelayTypeOK, Publish, Ids
<1>4. \A e \in Ids : e # n => (e <= Len(events') <=> e \in 1..Len(events))
                              /\ (e <= Len(events) <=> e \in 1..Len(events))
  BY <1>3, Bounds DEF RelayInv, Ids
<1>5. ~IsChallenge(n) /\ Typed[n] = "none"
  <2>1. ~(n <= Len(events))
    BY Bounds DEF RelayInv
  <2> QED BY <1>3, <2>1, TypedIs DEF IsChallenge
<1>6. \A e \in Ids : e # n => Typed'[e] = Typed[e]
  <2>1. \A e \in Ids : e # n => (IsChallenge(e)' <=> IsChallenge(e))
                                /\ (IsChallenge(e) => events'[e] = events[e])
    BY <1>3, <1>4 DEF IsChallenge
  <2> QED BY <2>1 DEF Typed
<1>7. Typed'[n] = word
  <2>1. \A e \in Ids : e = n => (IsChallenge(e)' <=> event.kind = "challenge") /\ events'[e] = event
    BY <1>3, Bounds DEF RelayInv, IsChallenge
  <2>2. \A e \in Ids : e = n => Typed'[e] = word
    BY <2>1 DEF Typed
  <2> QED BY <1>3, <2>2
<1> HIDE DEF n, word
<1>8. Typed' = [Typed EXCEPT ![n] = word]
  BY <1>3, <1>6, <1>7 DEF Typed
<1>9. CASE word = "none"
  BY <1>1, <1>5, <1>8, <1>9 DEF Typed
<1>10. CASE word # "none"
  <2>1. word \in {"right", "wrong"}
    BY <1>10 DEF word
  <2>2. Login!LogIn(n)
    BY <1>1, <1>5, <1>8, <2>1 DEF Login!LogIn
  <2> QED BY <1>3, <2>2 DEF Login!Next
<1> QED BY <1>9, <1>10

\* A goroutine tries its own login, or gives it its answer.
LEMMA JobLogin ==
    ASSUME RelayInv, NEW e \in Ids, HandleChallenge(e) \/ PostResult(e)
    PROVE  Login!Next \/ UNCHANGED <<Typed, binds, answers>>
<1>1. UNCHANGED Typed
  BY TypedStays DEF HandleChallenge, PostResult
<1>2. IsChallenge(e) /\ Typed[e] = (IF events[e].right THEN "right" ELSE "wrong")
  <2>1. Taken(e)
    BY DEF Taken, HandleChallenge, PostResult
  <2> QED BY <2>1, TypedIs DEF RelayInv, JobsOK
<1>3. CASE HandleChallenge(e)
  <2>1. /\ jobs[e] = "handling" /\ UNCHANGED answers
        /\ binds' \in {binds, [binds EXCEPT ![e] = @ + 1]}
    BY <1>3 DEF HandleChallenge
  <2>2. binds[e] = 0 /\ answers[e] = "none"
    BY <2>1 DEF RelayInv, BindsOK
  <2>3. CASE binds' = [binds EXCEPT ![e] = @ + 1]
    <3>1. binds' = [binds EXCEPT ![e] = 1]
      BY <2>2, <2>3 DEF RelayInv, RelayTypeOK
    <3>2. Login!Try(e)
      BY <1>1, <1>2, <2>1, <2>2, <3>1 DEF Login!Try
    <3> QED BY <3>2 DEF Login!Next
  <2> QED BY <1>1, <2>1, <2>3
<1>4. CASE PostResult(e)
  <2>1. PICK answer \in {"lost", outcome[e]} : answers' = [answers EXCEPT ![e] = answer]
    BY <1>4 DEF PostResult
  <2>2. jobs[e] = "posting" /\ UNCHANGED binds
    BY <1>4 DEF PostResult
  <2>3. answers[e] = "none" /\ outcome[e] \in Outcomes
    BY <2>2 DEF RelayInv, BindsOK
  <2>4. answer \in Login!Answers
    BY <2>3 DEF Login!Answers, Outcomes
  <2>5. /\ answer = "success" => binds[e] = 1 /\ events[e].right
        /\ answer = "denied" => binds[e] = 1 /\ ~events[e].right
    <3>1. binds[e] <= 1 /\ binds[e] \in Nat
      BY DEF RelayInv, BindsOK, RelayTypeOK
    <3>2. binds[e] > 0 => binds[e] = 1
      BY <3>1
    <3> QED BY <3>2 DEF RelayInv, BindsOK
  <2>6. Login!Tell(e, answer)
    BY <1>1, <1>2, <2>1, <2>2, <2>3, <2>5 DEF Login!Tell
  <2> QED BY <2>4, <2>6 DEF Login!Next
<1> QED BY <1>3, <1>4

LEMMA NextLogin == ASSUME RelayInv, [Next]_vars PROVE [Login!Next]_(Login!vars)
<1>1. CASE Publish
  BY <1>1, PublishLogin DEF Login!vars
<1>2. CASE \E e \in Ids : HandleChallenge(e) \/ PostResult(e)
  BY <1>2, JobLogin DEF Login!vars
<1>3. CASE UNCHANGED <<events, binds, answers>>
  BY <1>3, TypedStays DEF Login!vars
<1>4. Cancel \/ Read \/ ConnectFails \/ Disconnect \/ Stop \/ UNCHANGED vars
          => UNCHANGED <<events, binds, answers>>
  BY DEF Cancel, Read, Connect, ReadLines, EndEvent, WaitOver, ConnectFails, Disconnect, Stop,
         vars, handlers
<1> QED BY <1>1, <1>2, <1>3, <1>4 DEF Next

\* For any number of events and faults, the relay does to logins what Logins
\* allows and nothing else.
THEOREM RelayServesLogins == Spec => ServesLogins
<1>1. Init => Login!Init
  <2> SUFFICES ASSUME Init PROVE Login!Init
    OBVIOUS
  <2>1. \A e \in Ids : ~IsChallenge(e)
    BY RelayAssumption DEF Init, IsChallenge, Ids
  <2>2. Typed = [e \in Ids |-> "none"]
    BY <2>1 DEF Typed
  <2> QED BY <2>2 DEF Init, Login!Init
<1>2. RelayInv /\ [Next]_vars => [Login!Next]_(Login!vars)
  BY NextLogin
<1> QED BY <1>1, <1>2, RelayInvariant, PTL DEF Spec, ServesLogins, Login!Spec

\* Every variable keeps its type: no cursor or id runs past the events sent,
\* and the wait never exceeds MaxBackoff.
THEOREM RelayTypeCorrect == Spec => []RelayTypeOK
<1>1. RelayInv => RelayTypeOK
  BY DEF RelayInv
<1> QED
  BY <1>1, RelayInvariant, PTL
=============================================================================
