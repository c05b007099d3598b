----------------------------- MODULE DaemonProofs -----------------------------
(***************************************************************************)
(* The safety properties of Daemon hold for every set of users and every   *)
(* number of faults.  All of them come from one inductive invariant: what  *)
(* each place of the loop knows of the client, of the report being sent    *)
(* and of the last run.                                                    *)
(***************************************************************************)
EXTENDS Daemon, TLAPS

\* A lost client is what reconnecting starts from, and none is left to dial.
PlacesKnowClient ==
    /\ RunsHaveAClient
    /\ pc = "reconnect" => client # "none"
    /\ pc = "dial" => client = "none"

\* Only what is in reportedSkips was ever sent, and what is being sent was not.
MailsAreReported ==
    /\ batch \subseteq reported
    /\ \A u \in Users :
          /\ u \notin reported \/ (u \in batch /\ pc = "report") => mails[u] = 0
          /\ mails[u] <= 1

StatusKept ==
    /\ StatusTellsTheLastRun
    /\ pc = "report" => succeeded /\ (silent \/ Shown = "success")

DaemonInv ==
    /\ LoopTyped
    /\ PlacesKnowClient
    /\ ConnectionsHeld
    /\ MailsAreReported
    /\ StatusKept

LEMMA InitDaemonInv == Init => DaemonInv
  BY DaemonAssumption
     DEF Init, DaemonInv, LoopTyped, Places, Kinds, PlacesKnowClient, RunsHaveAClient,
         ConnectionsHeld, MailsAreReported, StatusKept, StatusTellsTheLastRun, Shown

USE DaemonAssumption
    DEF DaemonInv, LoopTyped, Places, Kinds, PlacesKnowClient, RunsHaveAClient,
        ConnectionsHeld, MailsAreReported, StatusKept, StatusTellsTheLastRun, Shown

LEMMA SurroundingsKeepInv ==
    ASSUME DaemonInv, NEW kind \in Kinds, Tick(kind) \/ Signal \/ ServiceStop \/ ProcessEnds \/ Lose
    PROVE  DaemonInv'
<1>1. CASE Tick(kind)
  BY <1>1 DEF Tick, Alive, settings, stops, connection, skips, status
<1>2. CASE Signal
  BY <1>2 DEF Signal, settings, connection, skips, status
<1>3. CASE ServiceStop
  BY <1>3 DEF ServiceStop, settings, connection, skips, status
<1>4. CASE ProcessEnds
  BY <1>4 DEF ProcessEnds, settings, stops, skips, status
<1>5. CASE Lose
  BY <1>5 DEF Lose, Fault, settings, stops, skips, status
<1> QED BY <1>1, <1>2, <1>3, <1>4, <1>5

LEMMA SelectKeepsInv ==
    ASSUME DaemonInv, NEW kind \in Kinds, SelectRun(kind) \/ SelectStop \/ SelectDone
    PROVE  DaemonInv'
<1>1. CASE SelectRun(kind)
  BY <1>1 DEF SelectRun, settings, stops, connection, skips, status
<1>2. CASE SelectStop
  BY <1>2 DEF SelectStop, settings, connection, skips, status
<1>3. CASE SelectDone
  BY <1>3 DEF SelectDone, CloseClient, settings, stops, skips, status
<1> QED BY <1>1, <1>2, <1>3

LEMMA ConnectingKeepsInv ==
    ASSUME DaemonInv, Check \/ Reconnect \/ Dial
    PROVE  DaemonInv'
<1>1. CASE Check
  BY <1>1 DEF Check, settings, stops, connection, skips, status
<1>2. CASE Reconnect
  BY <1>2 DEF Reconnect, Connected, NotConnected, Fault, settings, stops, skips, status
<1>3. CASE Dial
  BY <1>3 DEF Dial, Failed, Connected, NotConnected, Fault, settings, stops, skips, status
<1> QED BY <1>1, <1>2, <1>3

LEMMA RunKeepsInv ==
    ASSUME DaemonInv, Search \/ SearchFails \/ MarkUnreadable \/ Apply \/ Report
    PROVE  DaemonInv'
<1>1. CASE Search
  BY <1>1 DEF Search, settings, stops, connection, skips, status
<1>2. CASE SearchFails
  BY <1>2 DEF SearchFails, Failed, AfterFailure, CloseClient, Fault, settings, stops, connection,
              skips
<1>3. CASE MarkUnreadable
  BY <1>3 DEF MarkUnreadable, AfterFailure, CloseClient, Fault, settings, stops, connection, skips
<1>4. CASE Apply
  <2> PICK skipped \in SUBSET Users :
         /\ batch' = skipped \ reported
         /\ reported' = reported \cup skipped
         /\ pc' = IF skipped \subseteq reported THEN "select" ELSE "report"
    BY <1>4 DEF Apply, Mark
  <2>1. MailsAreReported'
    <3>1. mails' = mails
      BY <1>4 DEF Apply
    <3>2. batch' \subseteq reported'
      OBVIOUS
    <3>3. ASSUME NEW u \in Users, u \notin reported' \/ u \in batch' PROVE mails[u] = 0
      BY <3>3
    <3> QED BY <3>1, <3>2, <3>3
  <2>2. UNCHANGED faults \/ Fault
    BY <1>4, Zenon DEF Apply, Succeeded
  <2>3. LoopTyped' /\ PlacesKnowClient' /\ ConnectionsHeld'
    BY <1>4, <2>2 DEF Apply, Fault, settings, stops, connection
  <2>4. succeeded' /\ (silent' \/ (lastSync' /\ ~lastError'))
    BY <1>4, Zenon DEF Apply, Succeeded
  <2>5. StatusKept'
    BY <1>4, <2>4 DEF Apply
  <2> QED BY <2>1, <2>3, <2>5
<1>5. CASE Report
  BY <1>5 DEF Report, Told, Fault, settings, stops, connection, status
<1> QED BY <1>1, <1>2, <1>3, <1>4, <1>5

LEMMA StutterKeepsInv == DaemonInv /\ UNCHANGED vars => DaemonInv'
  BY DEF vars, settings, stops, connection, skips, status

LEMMA NextKeepsInv == DaemonInv /\ [Next]_vars => DaemonInv'
<1> SUFFICES ASSUME DaemonInv, [Next]_vars PROVE DaemonInv'
  OBVIOUS
<1> USE DEF Kinds
<1>1. CASE Signal \/ ServiceStop \/ ProcessEnds \/ Lose
  BY <1>1, SurroundingsKeepInv
<1>2. ASSUME NEW kind \in Kinds, Tick(kind) \/ SelectRun(kind) PROVE DaemonInv'
  BY <1>2, SurroundingsKeepInv, SelectKeepsInv
<1>3. CASE SelectStop \/ SelectDone
  BY <1>3, SelectKeepsInv
<1>4. CASE RunStep
  BY <1>4, ConnectingKeepsInv, RunKeepsInv DEF RunStep
<1>5. CASE UNCHANGED vars
  BY <1>5, StutterKeepsInv
<1> QED BY <1>1, <1>2, <1>3, <1>4, <1>5 DEF Next

LEMMA DaemonInvHolds == Spec => []DaemonInv
  BY InitDaemonInv, NextKeepsInv, PTL DEF Spec

-----------------------------------------------------------------------------

\* Every variable of the daemon has its type in every reachable state.
THEOREM DaemonTypeCorrect == Spec => []DaemonTypeOK
<1>1. Init => FlagsTyped
  BY DEF Init, FlagsTyped
<1>2. ASSUME FlagsTyped, Failed \/ Succeeded
      PROVE  /\ lastSync' \in BOOLEAN /\ lastError' \in BOOLEAN
             /\ succeeded' \in BOOLEAN /\ silent' \in BOOLEAN
  <2>1. CASE Failed
    BY <1>2, <2>1, Zenon DEF FlagsTyped, Failed
  <2>2. CASE Succeeded
    BY <1>2, <2>2, Zenon DEF FlagsTyped, Succeeded
  <2> QED BY <1>2, <2>1, <2>2
<1>3. ASSUME FlagsTyped, [Next]_vars PROVE FlagsTyped'
  <2>1. /\ service' \in BOOLEAN /\ startTLS' \in BOOLEAN
        /\ signal' \in BOOLEAN /\ stop' \in BOOLEAN /\ cancelled' \in BOOLEAN
    BY <1>3, Zenon DEF FlagsTyped, Next, RunStep, vars, settings, stops, Tick, Signal,
       ServiceStop, ProcessEnds, Lose, SelectRun, SelectStop, SelectDone, Check, Reconnect, Dial,
       Search, SearchFails, MarkUnreadable, Apply, Report
  <2>2. \/ Failed \/ Succeeded \/ UNCHANGED status
        \/ succeeded' = FALSE /\ silent' = TRUE /\ UNCHANGED <<lastSync, lastError>>
    BY <1>3, Zenon DEF Next, RunStep, vars, Tick, Signal, ServiceStop, ProcessEnds, Lose,
       SelectRun, SelectStop, SelectDone, Check, Reconnect, Dial, Search, SearchFails,
       MarkUnreadable, Apply, Report
  <2>3. CASE Failed \/ Succeeded
    BY <1>2, <1>3, <2>1, <2>3, Zenon DEF FlagsTyped
  <2>4. CASE UNCHANGED status
    BY <1>3, <2>1, <2>4, Zenon DEF FlagsTyped, status
  <2>5. CASE succeeded' = FALSE /\ silent' = TRUE /\ UNCHANGED <<lastSync, lastError>>
    BY <1>3, <2>1, <2>5, Zenon DEF FlagsTyped
  <2> QED BY <2>2, <2>3, <2>4, <2>5
<1>4. DaemonInv => LoopTyped OBVIOUS
<1> QED BY <1>1, <1>3, <1>4, DaemonInvHolds, PTL DEF Spec, DaemonTypeOK

\* No skipped user is reported twice, however many users there are and however
\* many reports fail.
THEOREM ToldCorrect == Spec => []ToldAtMostOnce
<1>1. DaemonInv => ToldAtMostOnce BY DEF ToldAtMostOnce
<1> QED BY <1>1, DaemonInvHolds, PTL

\* No run of the engine begins or goes on without a client.
THEOREM RunsHaveAClientCorrect == Spec => []RunsHaveAClient
<1>1. DaemonInv => RunsHaveAClient OBVIOUS
<1> QED BY <1>1, DaemonInvHolds, PTL

\* After any number of losses and failed connections only refused StartTLS
\* has left connections behind.
THEOREM ConnectionsCorrect == Spec => []ConnectionsHeld
<1>1. DaemonInv => ConnectionsHeld OBVIOUS
<1> QED BY <1>1, DaemonInvHolds, PTL

\* The status command says of the daemon's last run whether it succeeded,
\* however many runs failed before and whichever writes of the status were
\* lost, as long as the last run's own was not.
THEOREM StatusCorrect == Spec => []StatusTellsTheLastRun
<1>1. DaemonInv => StatusTellsTheLastRun OBVIOUS
<1> QED BY <1>1, DaemonInvHolds, PTL
=============================================================================
