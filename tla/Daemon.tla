-------------------------------- MODULE Daemon --------------------------------
(***************************************************************************)
(* The process that runs the sync engine on a schedule: runDaemonLoop and  *)
(* runOnce of cmd/run.go, the directory connection they keep               *)
(* (internal/ldap/client.go) and the Windows service around them           *)
(* (internal/service/windows.go).                                          *)
(*                                                                         *)
(* A run of the engine is what the loop sees of it: a search that may fail,*)
(* then users that were skipped.  Its inside is SyncEngine.  The process   *)
(* has read its configuration and opened the database when it begins here. *)
(***************************************************************************)
EXTENDS Naturals

CONSTANTS
    Users,      \* those a run may skip
    MaxFaults   \* bound: lost connections, refused requests, failed searches

ASSUME DaemonAssumption == MaxFaults \in Nat

VARIABLES
    service,    \* runs as a Windows service
    startTLS,   \* neither ldaps nor plaintext is configured
    pc,         \* where runDaemonLoop is, see Places
    due,        \* tickers whose channel holds a tick
    run,        \* the kind of the last run begun
    signal,     \* sigCh holds a signal
    stop,       \* the service's stop channel is closed
    cancelled,  \* the context is done
    client,     \* ldapClient: "none", "open", or "lost" (it does not answer)
    sockets,    \* connections to the directory that are not closed
    refusals,   \* history: connections whose StartTLS was refused
    reported,   \* reportedSkips
    batch,      \* the skips of the report being sent
    mails,      \* history: how often the service was told of a skip
    lastSync,   \* sync_state has a last_sync
    lastError,  \* sync_state's last_error is not empty
    succeeded,  \* history: the last run that ended did
    silent,     \* history: that run could not write how it did
    faults      \* faults so far

settings == <<service, startTLS>>
stops == <<signal, stop, cancelled>>
connection == <<client, sockets, refusals>>
skips == <<reported, batch, mails>>
status == <<lastSync, lastError, succeeded, silent>>
vars == <<settings, pc, due, run, stops, connection, skips, status, faults>>

Kinds == {"incremental", "full"}
Places == {"select", "check", "reconnect", "dial", "search", "apply", "report", "exited", "gone"}

FlagsTyped ==
    /\ service \in BOOLEAN /\ startTLS \in BOOLEAN
    /\ signal \in BOOLEAN /\ stop \in BOOLEAN /\ cancelled \in BOOLEAN
    /\ lastSync \in BOOLEAN /\ lastError \in BOOLEAN
    /\ succeeded \in BOOLEAN /\ silent \in BOOLEAN

LoopTyped ==
    /\ pc \in Places /\ due \subseteq Kinds /\ run \in Kinds
    /\ client \in {"none", "open", "lost"} /\ sockets \in Nat /\ refusals \in Nat
    /\ reported \subseteq Users /\ batch \subseteq Users
    /\ mails \in [Users -> Nat]
    /\ faults \in 0..MaxFaults

DaemonTypeOK == FlagsTyped /\ LoopTyped

\* An incremental run at once, before the loop.  The status is what an earlier
\* process left in the database.
Init ==
    /\ service \in BOOLEAN /\ startTLS \in BOOLEAN
    /\ pc = "check" /\ due = {} /\ run = "incremental"
    /\ signal = FALSE /\ stop = FALSE /\ cancelled = FALSE
    /\ client = "none" /\ sockets = 0 /\ refusals = 0
    /\ reported = {} /\ batch = {} /\ mails = [u \in Users |-> 0]
    /\ lastSync \in BOOLEAN /\ lastError \in BOOLEAN
    /\ succeeded = FALSE /\ silent = FALSE
    /\ faults = 0

Fault == faults < MaxFaults /\ faults' = faults + 1

Alive == pc \notin {"exited", "gone"}

-----------------------------------------------------------------------------
(* What happens around the loop. *)

\* A tick that finds the channel full is dropped.
Tick(kind) ==
    /\ Alive
    /\ due' = due \cup {kind}
    /\ UNCHANGED <<settings, pc, run, stops, connection, skips, status, faults>>

\* SIGINT or SIGTERM.
Signal ==
    /\ Alive
    /\ signal' = TRUE
    /\ UNCHANGED <<settings, pc, due, run, stop, cancelled, connection, skips, status, faults>>

\* Execute gets Stop or Shutdown.
ServiceStop ==
    /\ service /\ ~stop /\ pc # "gone"
    /\ stop' = TRUE
    /\ UNCHANGED <<settings, pc, due, run, signal, cancelled, connection, skips, status, faults>>

\* Execute has returned, and svc.Run and main after it, wherever the loop is.
\* The system closes the sockets.
ProcessEnds ==
    /\ stop /\ pc # "gone"
    /\ pc' = "gone"
    /\ client' = "none" /\ sockets' = 0 /\ refusals' = 0
    /\ UNCHANGED <<settings, due, run, stops, skips, status, faults>>

\* The directory goes away, or no longer answers on this connection.
Lose ==
    /\ client = "open"
    /\ Fault
    /\ client' = "lost"
    /\ UNCHANGED <<settings, pc, due, run, stops, sockets, refusals, skips, status>>

-----------------------------------------------------------------------------
(* The select of the loop. *)

SelectRun(kind) ==
    /\ pc = "select" /\ kind \in due
    /\ due' = due \ {kind}
    /\ run' = kind
    /\ pc' = "check"
    /\ UNCHANGED <<settings, stops, connection, skips, status, faults>>

\* Slip: only when there is nothing to run.
SelectStopLast ==
    /\ pc = "select" /\ ~cancelled /\ due = {}
    /\ \/ signal /\ signal' = FALSE
       \/ stop /\ UNCHANGED signal
    /\ cancelled' = TRUE
    /\ UNCHANGED <<settings, pc, due, run, stop, connection, skips, status, faults>>

\* cancel(), after which a tick may still be selected.
SelectStop ==
    /\ pc = "select"
    /\ \/ signal /\ signal' = FALSE
       \/ stop /\ UNCHANGED signal
    /\ cancelled' = TRUE
    /\ UNCHANGED <<settings, pc, due, run, stop, connection, skips, status, faults>>

\* Slip: Close is called whether there is a client or not.
CloseClientAnyway ==
    /\ client' = "none"
    /\ sockets' = sockets - 1
    /\ UNCHANGED refusals

CloseClient ==
    /\ client' = "none"
    /\ sockets' = IF client = "none" THEN sockets ELSE sockets - 1
    /\ UNCHANGED refusals

SelectDone ==
    /\ pc = "select" /\ cancelled
    /\ CloseClient
    /\ pc' = "exited"
    /\ UNCHANGED <<settings, due, run, stops, skips, status, faults>>

-----------------------------------------------------------------------------
(* What a run leaves in sync_state for the status command.  The errors of   *)
(* SetLastSync and SetLastError are dropped.                                *)

\* A failure, for which a fault has been counted, the write's own with it.
Failed ==
    /\ succeeded' = FALSE
    /\ UNCHANGED lastSync
    /\ \/ lastError' = TRUE /\ silent' = FALSE
       \/ UNCHANGED lastError /\ silent' = TRUE

\* Slip: last_error is left as it was.
SucceededQuietly ==
    /\ succeeded' = TRUE
    /\ lastSync' = TRUE /\ silent' = FALSE
    /\ UNCHANGED <<lastError, faults>>

\* Two writes, each of which may fail without the other.
Succeeded ==
    /\ succeeded' = TRUE
    /\ \/ /\ lastSync' = TRUE /\ lastError' = FALSE /\ silent' = FALSE
          /\ UNCHANGED faults
       \/ /\ Fault
          /\ lastSync' \in {lastSync, TRUE} /\ lastError' \in {lastError, FALSE}
          /\ silent' = TRUE

-----------------------------------------------------------------------------
(* runOnce: ensureConnected. *)

Check ==
    /\ pc = "check"
    /\ \/ client = "open" /\ pc' = "search"
       \/ client = "lost" /\ pc' = "reconnect"
       \/ client = "none" /\ pc' = "dial"
    /\ UNCHANGED <<settings, due, run, stops, connection, skips, status, faults>>

\* connect, from s open sockets.
Connected(s) ==
    /\ client' = "open" /\ sockets' = s + 1
    /\ UNCHANGED <<refusals, faults>>

\* No route, no certificate, or a bind that is refused; of these only a
\* refused StartTLS leaves its socket behind.
NotConnected(s) ==
    /\ Fault
    /\ client' = "none"
    /\ \/ sockets' = s /\ UNCHANGED refusals
       \/ startTLS /\ sockets' = s + 1 /\ refusals' = refusals + 1

\* Slip: the old connection is left to itself.
ReconnectOnly ==
    /\ pc = "reconnect"
    /\ \/ Connected(sockets) /\ pc' = "search"
       \/ NotConnected(sockets) /\ pc' = "dial"
    /\ UNCHANGED <<settings, due, run, stops, skips, status>>

\* Closes the old connection; when it fails a new client is made at once.
Reconnect ==
    /\ pc = "reconnect"
    /\ \/ Connected(sockets - 1) /\ pc' = "search"
       \/ NotConnected(sockets - 1) /\ pc' = "dial"
    /\ UNCHANGED <<settings, due, run, stops, skips, status>>

\* Slip: the error is logged and the run tried.
DialOrNot ==
    /\ pc = "dial"
    /\ Connected(sockets) \/ NotConnected(sockets)
    /\ pc' = "search"
    /\ UNCHANGED <<settings, due, run, stops, skips, status>>

\* Slip: the daemon gives up.
DialOnce ==
    /\ pc = "dial"
    /\ \/ Connected(sockets) /\ pc' = "search" /\ UNCHANGED status
       \/ NotConnected(sockets) /\ pc' = "exited" /\ Failed
    /\ UNCHANGED <<settings, due, run, stops, skips>>

\* NewClient.
Dial ==
    /\ pc = "dial"
    /\ \/ Connected(sockets) /\ pc' = "search" /\ UNCHANGED status
       \/ NotConnected(sockets) /\ pc' = "select" /\ Failed
    /\ UNCHANGED <<settings, due, run, stops, skips>>

-----------------------------------------------------------------------------
(* runOnce: the run and its report. *)

Search ==
    /\ pc = "search" /\ client = "open"
    /\ pc' = "apply"
    /\ UNCHANGED <<settings, due, run, stops, connection, skips, status, faults>>

\* The client is dropped only when it does not answer.
AfterFailure ==
    /\ pc' = "select"
    /\ IF client = "lost" THEN CloseClient ELSE UNCHANGED connection

\* The search for users fails, whatever the connection.
SearchFails ==
    /\ pc = "search"
    /\ IF client = "lost" THEN UNCHANGED faults ELSE Fault
    /\ AfterFailure
    /\ Failed
    /\ UNCHANGED <<settings, due, run, stops, skips>>

\* The high-water mark cannot be read: an incremental run ends at once, and
\* writes nothing.
MarkUnreadable ==
    /\ pc = "search" /\ run = "incremental"
    /\ Fault
    /\ AfterFailure
    /\ succeeded' = FALSE /\ silent' = TRUE
    /\ UNCHANGED <<settings, due, run, stops, skips, lastSync, lastError>>

\* Slip: reportedSkips belongs to one run.
MarkForNow(skipped) == reported' = skipped

Mark(skipped) == reported' = reported \cup skipped

\* The run ends, though other searches and requests may have failed.  Skips
\* that are news go into a report.
Apply ==
    /\ pc = "apply"
    /\ \E skipped \in SUBSET Users :
          /\ batch' = skipped \ reported
          /\ Mark(skipped)
          /\ pc' = IF skipped \subseteq reported THEN "select" ELSE "report"
    /\ Succeeded
    /\ UNCHANGED <<settings, due, run, stops, connection, mails>>

Told == mails' = [u \in Users |-> IF u \in batch THEN mails[u] + 1 ELSE mails[u]]

\* ReportSyncResult sends it once; it may have arrived when that fails.
Report ==
    /\ pc = "report"
    /\ \/ Told /\ UNCHANGED faults
       \/ (Told \/ UNCHANGED mails) /\ Fault
    /\ pc' = "select" /\ batch' = {}
    /\ UNCHANGED <<settings, due, run, stops, connection, reported, status>>

-----------------------------------------------------------------------------

RunStep ==
    \/ Check \/ Reconnect \/ Dial
    \/ Search \/ SearchFails \/ MarkUnreadable
    \/ Apply \/ Report

Next ==
    \/ Signal \/ ServiceStop \/ ProcessEnds \/ Lose
    \/ \E kind \in Kinds : Tick(kind) \/ SelectRun(kind)
    \/ SelectStop \/ SelectDone
    \/ RunStep

\* Timers tick; the goroutine runs, and what it asks answers or fails; select
\* takes a channel that keeps being ready in the end, as it chooses at random.
Fairness ==
    /\ WF_vars(RunStep)
    /\ \A kind \in Kinds : WF_vars(Tick(kind)) /\ SF_vars(SelectRun(kind))
    /\ SF_vars(SelectStop) /\ SF_vars(SelectDone)

Spec == Init /\ [][Next]_vars
FairSpec == Spec /\ Fairness

-----------------------------------------------------------------------------

\* What the status command says of the last sync.
Shown ==
    IF ~lastSync THEN "never"
    ELSE IF lastError THEN "failed"
    ELSE "success"

\* The service is told of a skipped user once in the life of the process,
\* whichever runs skip the user again and whether or not the report that told
\* it seemed to fail: each report is a mail to an administrator (run.go:86-87,
\* 168-197).
ToldAtMostOnce == \A u \in Users : mails[u] <= 1

\* Every way through ensureConnected that lets a run begin leaves a client
\* there, and nothing takes it away before the run's end: a nil client would
\* panic (run.go:93-122, 130-135, 151-154).
RunsHaveAClient == pc \in {"search", "apply"} => client # "none"

\* Through losses, reconnections, failed binds and dropped clients the process
\* holds no connection but the client's, and none after the loop has ended,
\* save those whose StartTLS was refused (ldap/client.go:64-82, 86-98).
ConnectionsHeld == sockets = refusals + (IF client = "none" THEN 0 ELSE 1)

\* Between runs the status command says "success" exactly when the daemon's
\* last run succeeded, whatever connections, searches and runs failed before
\* and whatever an earlier process left, unless that run could not write how
\* it did (run.go:131, incremental.go:13-31, 86-87, full.go:17-20, 79-81).
StatusTellsTheLastRun ==
    pc = "select" /\ ~silent => (Shown = "success" <=> succeeded)

\* A status that is wrong, because a write of it was lost, does not stay so:
\* when nothing fails any more the status becomes "success" for good, as every
\* run writes all of it anew (status.go:42-51, incremental.go:85-88).
StatusRecovers == <>[](Shown = "success") \/ <>(cancelled \/ stop)

\* Runs of both kinds go on as long as nobody stops the daemon, whatever
\* connections were lost or refused before: no failure is for good, and the
\* ticks of one kind do not crowd out the other's (run.go:93-122, 203-222).
KeepsSyncing ==
    \A kind \in Kinds :
        []<>(pc = "apply" /\ run = kind) \/ <>(cancelled \/ stop)

\* A signal or a service stop ends the daemon, however the ticks come: a tick
\* may be preferred to it, but not for ever (run.go:203-222, windows.go:26-31).
StopsWhenAsked == signal \/ stop ~> ~Alive
=============================================================================
