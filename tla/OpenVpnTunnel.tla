---------------------------- MODULE OpenVpnTunnel ----------------------------
(***************************************************************************)
(* OpenVpnTunnel of OpenNordService: one openvpn.exe at a time, driven by a *)
(* management thread over its localhost channel.                           *)
(*                                                                         *)
(* The caller is whoever holds VpnController::operationMutex_, so connect  *)
(* and disconnect never overlap.  What does overlap is the caller, the     *)
(* process and the management thread of each launch: a thread outlives its *)
(* process until it notices, and the new thread of a connect runs before   *)
(* the old one is joined.  A launch is named by its number; process_ and   *)
(* managementThread_ hold the number of the launch they belong to.  A      *)
(* process that was never resumed counts as not launched.                  *)
(***************************************************************************)
EXTENDS Naturals

CONSTANTS
    MaxLaunches,    \* bound on the processes ever launched
    Faults          \* what may go wrong beside a refused or failed launch

AllFaults == {"dies",           \* the process exits on its own
              "channelLost",    \* the management channel closes or stalls
              "unkillable"}     \* the process survives its termination

ASSUME OpenVpnAssumption ==
    /\ MaxLaunches \in Nat
    /\ Faults \subseteq AllFaults

Launches == 1..MaxLaunches
None == 0
\* Lines of the management channel: >STATE with CONNECTED,SUCCESS, any other
\* >STATE, and what ends the session (>FATAL, rejected credentials)
Lines == {"connected", "state", "fatal"}

VARIABLES
    pc,         \* the caller's place in connect or disconnect
    purpose,    \* what the disconnect it is in serves
    reply,      \* what the last call returned
    process,    \* process_: None, or its launch, dead or alive
    alive,      \* the launches whose process runs
    last,       \* the number of launches so far
    late,       \* the launch whose thread had not ended at the last launch, or
                \* None: history, as spared
    spared,     \* the launches whose process a thread could not terminate
    manager,    \* managementThread_: None, or its launch
    thread,     \* where each management thread is
    stop,       \* the launches whose thread is asked to stop
    result,     \* what each thread is about to complete the startup with
    line,       \* the line each thread has yet to read
    reported,   \* what each thread has read: CONNECTED, then anything else
    startup,    \* startupComplete_ and startupError_
    connected,  \* tunnelConnected_
    files       \* the profile and the password, until their removal is tried

caller == <<pc, purpose, reply>>
processes == <<process, alive, last, late, spared>>
threads == <<manager, thread, stop, result, line, reported>>
shared == <<startup, connected, files>>
vars == <<caller, processes, threads, shared>>

-----------------------------------------------------------------------------
(* running() and connected() *)

Running == process \in alive
Connected == connected /\ Running

Return(r) == pc' = "idle" /\ purpose' = "none" /\ reply' = r
Goto(label) == pc' = label /\ UNCHANGED <<purpose, reply>>
StopFor(why) == pc' = "stop" /\ purpose' = why /\ UNCHANGED reply

-----------------------------------------------------------------------------
(* connect *)

\* Not installed, or no credentials
ConnectRefused ==
    /\ pc = "idle" /\ Return("refused")
    /\ UNCHANGED <<processes, threads, shared>>

\* Mutant: an old process is left running
NeverRunning == FALSE
OldRuns == Running

ConnectBegin ==
    /\ pc = "idle" /\ last < MaxLaunches
    /\ \/ OldRuns /\ StopFor("reconnect")
       \/ ~OldRuns /\ Goto("prepare")
    /\ UNCHANGED <<processes, threads, shared>>

\* The port, the profile or the password file fails; then the profile's file
ConnectPrepare ==
    /\ pc = "prepare"
    /\ \/ Return("refused") /\ UNCHANGED files
       \/ Return("error") /\ files' = {}
       \/ Goto("launch") /\ files' = {"profile", "password"}
    /\ UNCHANGED <<processes, threads, startup, connected>>

ConnectLaunch ==
    /\ pc = "launch"
    /\ \/ Return("error") /\ files' = {} /\ UNCHANGED processes
       \/ /\ Goto("clearConnected")
          /\ last' = last + 1 /\ process' = last' /\ alive' = alive \cup {last'}
          /\ late' = IF manager # None /\ thread[manager] # "ended" THEN manager ELSE None
          /\ UNCHANGED <<spared, files>>
    /\ UNCHANGED <<threads, startup, connected>>

\* Mutant: the result of an earlier startup is kept
KeepStartup == UNCHANGED startup
ResetStartup == startup' = "pending"

ConnectClear ==
    \/ /\ pc = "clearConnected" /\ Goto("clearStartup")
       /\ connected' = FALSE
       /\ UNCHANGED <<processes, threads, startup, files>>
    \/ /\ pc = "clearStartup" /\ Goto("spawn")
       /\ ResetStartup
       /\ UNCHANGED <<processes, threads, connected, files>>

\* Mutant: an old thread is not waited for
NotJoined == TRUE
Joined == thread[manager] = "ended"

\* The new thread runs at once; assigning it stops and joins the old one first.
ConnectSpawn ==
    /\ pc = "spawn"
    /\ \/ StopFor("rollback") /\ UNCHANGED <<thread, manager>>
       \/ /\ thread' = [thread EXCEPT ![process] = "connecting"]
          /\ IF manager = None THEN Goto("wait") /\ manager' = process
             ELSE Goto("replace") /\ UNCHANGED manager
    /\ UNCHANGED <<processes, stop, result, line, reported, shared>>

ConnectReplace ==
    \/ /\ pc = "replace" /\ Goto("joinOld")
       /\ stop' = stop \cup {manager}
       /\ UNCHANGED <<processes, manager, thread, result, line, reported, shared>>
    \/ /\ pc = "joinOld" /\ Goto("wait")
       /\ Joined
       /\ manager' = process
       /\ UNCHANGED <<processes, thread, stop, result, line, reported, shared>>

\* Mutant: a timeout returns without a rollback
TimeoutReturns == Return("error")
RollBack == StopFor("rollback")

\* wait_for: the startup completes in time ...
ConnectWait ==
    /\ pc = "wait" /\ startup # "pending"
    /\ files' = files \ {"password"}
    /\ IF startup = "ok" THEN Return("ok") ELSE StopFor("rollback")
    /\ UNCHANGED <<processes, threads, startup, connected>>

\* ... or 45 seconds pass.
ConnectTimesOut ==
    /\ pc = "wait" /\ startup = "pending"
    /\ RollBack
    /\ UNCHANGED <<processes, threads, shared>>

-----------------------------------------------------------------------------
(* disconnect, of its own or on the way of a connect *)

Disconnect ==
    /\ pc = "idle" /\ StopFor("disconnect")
    /\ UNCHANGED <<processes, threads, shared>>

\* Mutant: the thread is joined without being asked to stop
StopNobody == UNCHANGED stop
RequestStop == stop' = stop \cup {manager}

DisconnectStop ==
    /\ pc = "stop"
    /\ IF manager = None THEN Goto("waitExit") /\ UNCHANGED stop
       ELSE Goto("join") /\ RequestStop
    /\ UNCHANGED <<processes, manager, thread, result, line, reported, shared>>

DisconnectJoin ==
    /\ pc = "join" /\ Goto("waitExit")
    /\ Joined
    /\ manager' = None
    /\ UNCHANGED <<processes, thread, stop, result, line, reported, shared>>

Stopped == CASE purpose = "disconnect" -> Return("ok")
             [] purpose = "reconnect" -> Goto("prepare")
             [] purpose = "rollback" -> Return("error")

\* Mutant: the handle is dropped whether or not the process is gone
DropHandle == process' = None
KeepHandle == UNCHANGED process

\* SIGTERM, TerminateProcess, then the job object: one of them works, or none.
DisconnectExit ==
    /\ pc = "waitExit"
    /\ connected' = FALSE
    /\ \/ /\ Stopped
          /\ alive' = alive \ {process} /\ process' = None
          /\ files' = {}
       \/ /\ "unkillable" \in Faults /\ Running
          /\ Return("stopFailed")
          /\ KeepHandle
          /\ UNCHANGED <<alive, files>>
    /\ UNCHANGED <<last, late, spared, threads, startup>>

-----------------------------------------------------------------------------
(* The process of launch g *)

ProcessDies(g) ==
    /\ "dies" \in Faults /\ g \in alive
    /\ alive' = alive \ {g}
    /\ UNCHANGED <<caller, process, last, late, spared, threads, shared>>

\* "state on" has been sent, and a line is on its way
ProcessReports(g, l) ==
    /\ g \in alive /\ thread[g] = "serving" /\ line[g] = "none"
    /\ line' = [line EXCEPT ![g] = l]
    /\ UNCHANGED <<caller, processes, manager, thread, stop, result, reported, shared>>

-----------------------------------------------------------------------------
(* managementLoop of launch g *)

Move(g, label) == thread' = [thread EXCEPT ![g] = label]
CompleteWith(g, r) == Move(g, "complete") /\ result' = [result EXCEPT ![g] = r]

\* Connecting to the management port; writing the password, "state on" and
\* "hold release"
ThreadConnects(g) ==
    /\ thread[g] = "connecting"
    /\ \/ g \in stop /\ Move(g, "leave") /\ UNCHANGED result
       \/ g \notin stop /\ g \in alive /\ Move(g, "serving") /\ UNCHANGED result
       \/ /\ g \notin stop
          /\ ~Running \/ "channelLost" \in Faults
          /\ CompleteWith(g, "error")
    /\ UNCHANGED <<caller, processes, manager, stop, line, reported, shared>>

Report(g) == connected' = (line[g] = "connected")

ThreadReads(g) ==
    /\ thread[g] = "serving" /\ g \notin stop /\ line[g] # "none"
    /\ line' = [line EXCEPT ![g] = "none"]
    /\ Report(g)
    /\ reported' = [reported EXCEPT ![g] = IF line[g] = "connected" THEN "connected"
                                           ELSE IF @ = "connected" THEN "lost" ELSE @]
    /\ CASE line[g] = "connected" -> CompleteWith(g, "ok")
         [] line[g] = "fatal" -> CompleteWith(g, "error")
         [] line[g] = "state" -> UNCHANGED <<thread, result>>
    /\ UNCHANGED <<caller, processes, manager, stop, startup, files>>

\* The loop ends: asked to stop, with a last "signal SIGTERM", or with nothing
\* to read and the channel or the process gone
ThreadStops(g) ==
    /\ thread[g] = "serving"
    /\ \/ g \in stop /\ g \in alive /\ Move(g, "leave") /\ UNCHANGED result
       \/ /\ g \in stop
          /\ g \notin alive \/ "channelLost" \in Faults
          /\ CompleteWith(g, "error")
       \/ /\ g \notin stop /\ line[g] = "none"
          /\ g \notin alive \/ ~Running \/ "channelLost" \in Faults
          /\ CompleteWith(g, "error")
    /\ UNCHANGED <<caller, processes, manager, stop, line, reported, shared>>

\* completeStartup: only the first result counts
ThreadCompletes(g) ==
    /\ thread[g] = "complete"
    /\ startup' = IF startup = "pending" THEN result[g] ELSE startup
    /\ Move(g, IF result[g] = "ok" THEN "serving" ELSE "leave")
    /\ UNCHANGED <<caller, processes, manager, stop, result, line, reported,
                   connected, files>>

\* Mutant: a thread that ends leaves the tunnel connected
StayConnected == UNCHANGED connected
LoseConnected == connected' = FALSE

\* The guard of the loop: the tunnel is not connected any more, and a process
\* that nobody asked to stop is terminated - the one process_ holds by then.
ThreadLeaves(g) ==
    /\ thread[g] = "leave" /\ Move(g, "check")
    /\ LoseConnected
    /\ UNCHANGED <<caller, processes, manager, stop, result, line, reported,
                   startup, files>>

\* Mutant: the process is left to itself
KillNothing == UNCHANGED <<alive, spared>>
\* TerminateProcess, whose result is ignored
Kill == \/ alive' = alive \ {process} /\ UNCHANGED spared
        \/ /\ "unkillable" \in Faults /\ Running
           /\ spared' = spared \cup {process} /\ UNCHANGED alive

ThreadEnds(g) ==
    \/ /\ thread[g] = "check"
       /\ Move(g, IF g \in stop THEN "ended" ELSE "kill")
       /\ UNCHANGED <<caller, processes, manager, stop, result, line, reported, shared>>
    \/ /\ thread[g] = "kill" /\ Move(g, "ended")
       /\ Kill
       /\ UNCHANGED <<caller, process, last, late, manager, stop, result, line, reported,
                      shared>>

-----------------------------------------------------------------------------
Init ==
    /\ pc = "idle" /\ purpose = "none" /\ reply = "none"
    /\ process = None /\ alive = {} /\ last = 0 /\ late = None /\ spared = {}
    /\ manager = None /\ stop = {}
    /\ thread = [g \in Launches |-> "none"]
    /\ result = [g \in Launches |-> "none"]
    /\ line = [g \in Launches |-> "none"]
    /\ reported = [g \in Launches |-> "none"]
    /\ startup = "pending" /\ connected = FALSE /\ files = {}

\* A step of the call under way
Caller == \/ ConnectPrepare \/ ConnectLaunch \/ ConnectClear \/ ConnectSpawn
          \/ ConnectReplace \/ ConnectWait \/ ConnectTimesOut
          \/ DisconnectStop \/ DisconnectJoin \/ DisconnectExit

Thread(g) == \/ ThreadConnects(g) \/ ThreadReads(g) \/ ThreadStops(g)
             \/ ThreadCompletes(g) \/ ThreadLeaves(g) \/ ThreadEnds(g)

Next ==
    \/ ConnectRefused \/ ConnectBegin \/ Disconnect
    \/ Caller
    \/ \E g \in Launches : Thread(g) \/ ProcessDies(g)
    \/ \E g \in Launches, l \in Lines : ProcessReports(g, l)

Spec == Init /\ [][Next]_vars

-----------------------------------------------------------------------------
(* Properties *)

CallerLabels == {"idle", "prepare", "launch", "clearConnected", "clearStartup",
                 "spawn", "replace", "joinOld", "wait", "stop", "join", "waitExit"}
ThreadLabels == {"none", "connecting", "serving", "complete", "leave", "check",
                 "kill", "ended"}

\* Every variable holds a value of its C++ type.
TypeOK ==
    /\ pc \in CallerLabels
    /\ purpose \in {"none", "disconnect", "reconnect", "rollback"}
    /\ reply \in {"none", "ok", "refused", "error", "stopFailed"}
    /\ process \in Launches \cup {None} /\ alive \subseteq Launches
    /\ last \in 0..MaxLaunches
    /\ late \in Launches \cup {None} /\ spared \subseteq Launches
    /\ manager \in Launches \cup {None} /\ stop \subseteq Launches
    /\ thread \in [Launches -> ThreadLabels]
    /\ result \in [Launches -> {"none", "ok", "error"}]
    /\ line \in [Launches -> Lines \cup {"none"}]
    /\ reported \in [Launches -> {"none", "connected", "lost"}]
    /\ startup \in {"pending", "ok", "error"}
    /\ connected \in BOOLEAN
    /\ files \subseteq {"profile", "password"}

\* At most one openvpn.exe runs, and it is the one process_ can stop: nothing
\* disconnect could not reach outlives it.
OneProcess == alive \subseteq {process}

\* A connect or disconnect that failed, and does not say that the process could
\* not be stopped, leaves no process behind and has deleted the profile and the
\* password, as far as Windows lets it: cleanupFiles ignores a QFile::remove that
\* fails (ARCHITECTURE.md: any failure terminates the engine and removes secrets).
FailureTerminates == pc = "idle" /\ reply = "error" => alive = {} /\ files = {}

\* A connect succeeds only after the process it launched reported
\* CONNECTED,SUCCESS (ARCHITECTURE.md, step 7); or the one before, if that died
\* and its thread had not ended at the launch.  No older result counts.
SuccessMeansConnected ==
    [][pc = "wait" /\ reply' = "ok" /\ pc' = "idle"
          => \/ reported[process] # "none"
             \/ late # None /\ reported[late] # "none"]_vars

\* A management thread terminates no other process than its own, or one that was
\* launched before it had ended: a thread has ended by the launch after next.
KillsItsOwn ==
    [][\A g \in Launches : thread[g] = "kill" /\ thread'[g] = "ended"
          => g \in {process, late} \/ ~Running]_vars

\* A thread whose process may be gone
Unnoticed == connected /\ \E g \in Launches : thread[g] \notin {"none", "ended"}

\* The engine VpnController counts on
Engine == INSTANCE Engine WITH
    engine <- IF ~Running THEN IF Unnoticed THEN "fading" ELSE "absent"
              ELSE IF thread[process] = "ended" /\ manager = None THEN "unmanaged"
              ELSE IF connected THEN "connected" ELSE "running"
EngineSpec == Engine!Spec

-----------------------------------------------------------------------------
(* Liveness: threads run, and every wait of the caller has a time limit.   *)

Fairness == WF_vars(Caller) /\ \A g \in Launches : WF_vars(Thread(g))
FairSpec == Spec /\ Fairness

\* Every connect and disconnect returns, whatever the process does: no join
\* waits for a thread that waits for the caller.
CallReturns == (pc # "idle") ~> (pc = "idle")

\* A process whose channel is lost ends, unless a call stops it or Windows does
\* not let it be terminated.
LostProcessEnds ==
    \A g \in Launches : (thread[g] = "leave" /\ g \notin stop)
                          ~> (g \notin alive \/ g \in stop \/ g \in spared)
=============================================================================
