------------------------- MODULE OpenVpnTunnelProofs -------------------------
(***************************************************************************)
(* What TLAPS proves of OpenVpnTunnel, for any number of launches and any   *)
(* faults, with the threads of two launches overlapping: the types, what a  *)
(* failed call leaves, what a launch reports, and that the tunnel           *)
(* implements Engine.                                                      *)
(***************************************************************************)
EXTENDS OpenVpnTunnel, TLAPS

\* What the caller's place says of the threads and of the launches left
CallerInv ==
    /\ pc \in {"replace", "joinOld", "join"} => manager # None
    /\ pc \in {"stop", "join", "waitExit"} => purpose # "none"
    /\ pc \in {"prepare", "launch"} => last < MaxLaunches
    /\ pc \in {"stop", "join", "waitExit"} /\ purpose = "reconnect"
         => last < MaxLaunches

\* A launch replaces no process that still runs; a call that failed, and could
\* stop what it had to stop, has left nothing.
ProcessInv ==
    /\ OneProcess
    /\ pc \in {"prepare", "launch"} => ~Running
    /\ FailureTerminates

\* A thread completes the startup with a result.
ResultInv == \A g \in Launches : thread[g] = "complete" => result[g] # "none"

IInv == TypeOK /\ CallerInv /\ ProcessInv /\ ResultInv

USE DEF Return, Goto, StopFor, Move, CompleteWith, ResetStartup, Report, LoseConnected

LEMMA InitInv == Init => IInv
  <1> SUFFICES ASSUME Init PROVE IInv
    OBVIOUS
  <1>1. TypeOK
    <2>1. /\ thread \in [Launches -> ThreadLabels]
          /\ result \in [Launches -> {"none", "ok", "error"}]
          /\ line \in [Launches -> Lines \cup {"none"}]
          /\ reported \in [Launches -> {"none", "connected", "lost"}]
      BY DEF Init, ThreadLabels
    <2>2. last \in 0..MaxLaunches /\ late \in Launches \cup {None} /\ spared \subseteq Launches
      BY OpenVpnAssumption DEF Init
    <2> QED BY <2>1, <2>2 DEF Init, TypeOK, CallerLabels
  <1>2. CallerInv /\ ProcessInv /\ ResultInv
    BY DEF Init, CallerInv, ProcessInv, ResultInv, OneProcess, FailureTerminates
  <1> QED BY <1>1, <1>2 DEF IInv

LEMMA ConnectInv ==
  ASSUME IInv,
         \/ ConnectRefused \/ ConnectBegin \/ ConnectPrepare \/ ConnectLaunch
         \/ ConnectClear \/ ConnectSpawn \/ ConnectReplace \/ ConnectWait
         \/ ConnectTimesOut
  PROVE  IInv'
  <1> USE DEF IInv, TypeOK, CallerInv, ProcessInv, ResultInv, OneProcess,
              FailureTerminates, Running, CallerLabels, processes, threads, shared
  <1>1. CASE ConnectRefused
    BY <1>1 DEF ConnectRefused
  <1>2. CASE ConnectBegin
    BY <1>2 DEF ConnectBegin, OldRuns
  <1>3. CASE ConnectPrepare
    <2>1. files' \subseteq {"profile", "password"}
      BY <1>3 DEF ConnectPrepare
    <2>2. /\ UNCHANGED <<processes, threads, startup, connected>>
          /\ pc = "prepare" /\ pc' \in {"idle", "launch"}
          /\ purpose' \in {purpose, "none"} /\ reply' \in {reply, "refused", "error"}
          /\ pc' = "idle" /\ reply' = "error" => files' = {}
      BY <1>3 DEF ConnectPrepare
    <2>3. TypeOK'
      BY <2>1, <2>2
    <2>4. CallerInv' /\ ProcessInv' /\ ResultInv'
      BY <2>2
    <2> QED BY <2>3, <2>4
  <1>4. CASE ConnectLaunch
    <2>1. CASE UNCHANGED processes
      BY <1>4, <2>1 DEF ConnectLaunch
    <2>2. CASE ~UNCHANGED processes
      <3>1. /\ last' = last + 1 /\ process' = last' /\ alive' = {last'}
            /\ late' \in {manager, None} /\ UNCHANGED spared
        BY <1>4, <2>2 DEF ConnectLaunch
      <3>2. last' \in Launches /\ last' \in 0..MaxLaunches
        BY <1>4, <3>1, OpenVpnAssumption DEF ConnectLaunch, Launches
      <3>3. TypeOK'
        BY <1>4, <2>2, <3>1, <3>2 DEF ConnectLaunch
      <3>4. CallerInv' /\ ProcessInv' /\ ResultInv'
        BY <1>4, <2>2, <3>1 DEF ConnectLaunch
      <3> QED BY <3>3, <3>4
    <2> QED BY <2>1, <2>2
  <1>5. CASE ConnectClear
    BY <1>5 DEF ConnectClear
  <1>6. CASE ConnectSpawn
    BY <1>6 DEF ConnectSpawn, ThreadLabels
  <1>7. CASE ConnectReplace
    BY <1>7 DEF ConnectReplace
  <1>8. CASE ConnectWait
    BY <1>8 DEF ConnectWait
  <1>9. CASE ConnectTimesOut
    BY <1>9 DEF ConnectTimesOut, RollBack
  <1> QED BY <1>1, <1>2, <1>3, <1>4, <1>5, <1>6, <1>7, <1>8, <1>9

LEMMA DisconnectInv ==
  ASSUME IInv, Disconnect \/ DisconnectStop \/ DisconnectJoin \/ DisconnectExit
  PROVE  IInv'
  <1> USE DEF IInv, TypeOK, CallerInv, ProcessInv, ResultInv, OneProcess,
              FailureTerminates, Running, CallerLabels, processes, threads, shared
  <1>1. CASE Disconnect
    BY <1>1 DEF Disconnect
  <1>2. CASE DisconnectStop
    BY <1>2 DEF DisconnectStop, RequestStop
  <1>3. CASE DisconnectJoin
    BY <1>3 DEF DisconnectJoin
  <1>4. CASE DisconnectExit
    <2>1. purpose \in {"disconnect", "reconnect", "rollback"}
      BY <1>4 DEF DisconnectExit
    <2>2. CASE Stopped
      BY <1>4, <2>1, <2>2 DEF DisconnectExit, Stopped, KeepHandle
    <2>3. CASE Return("stopFailed")
      BY <1>4, <2>3 DEF DisconnectExit, Stopped, KeepHandle
    <2> QED BY <1>4, <2>2, <2>3 DEF DisconnectExit
  <1> QED BY <1>1, <1>2, <1>3, <1>4

LEMMA ThreadInv ==
  ASSUME IInv, NEW g \in Launches, Thread(g) \/ ProcessDies(g)
  PROVE  IInv'
  <1> USE DEF IInv, TypeOK, CallerInv, ProcessInv, ResultInv, OneProcess,
              FailureTerminates, Running, caller, processes, threads, shared
  <1>1. CASE ThreadConnects(g)
    BY <1>1 DEF ThreadConnects, ThreadLabels
  <1>2. CASE ThreadReads(g)
    <2>1. line[g] \in Lines /\ UNCHANGED <<caller, processes, manager, stop, startup, files>>
      BY <1>2 DEF ThreadReads
    <2>2. /\ line' = [line EXCEPT ![g] = "none"]
          /\ line' \in [Launches -> Lines \cup {"none"}]
      BY <1>2 DEF ThreadReads
    <2>3. connected' \in BOOLEAN
      BY <1>2 DEF ThreadReads
    <2>4. reported' \in [Launches -> {"none", "connected", "lost"}]
      BY <1>2 DEF ThreadReads
    <2>5. /\ thread' \in [Launches -> ThreadLabels]
          /\ result' \in [Launches -> {"none", "ok", "error"}]
          /\ ResultInv'
      BY <1>2, <2>1 DEF ThreadReads, ThreadLabels, Lines
    <2>6. TypeOK'
      BY <2>1, <2>2, <2>3, <2>4, <2>5
    <2>7. CallerInv' /\ ProcessInv'
      BY <2>1
    <2> QED BY <2>5, <2>6, <2>7
  <1>3. CASE ThreadStops(g)
    BY <1>3 DEF ThreadStops, ThreadLabels
  <1>4. CASE ThreadCompletes(g)
    <2>0. thread' \in [Launches -> ThreadLabels]
      BY <1>4 DEF ThreadCompletes, ThreadLabels
    <2>1. startup' \in {"pending", "ok", "error"}
      <3>1. result[g] \in {"ok", "error"}
        BY <1>4 DEF ThreadCompletes
      <3> QED BY <1>4, <3>1 DEF ThreadCompletes
    <2>2. ResultInv'
      BY <1>4 DEF ThreadCompletes
    <2> QED BY <1>4, <2>0, <2>1, <2>2 DEF ThreadCompletes
  <1>5. CASE ThreadLeaves(g)
    <2>1. thread' \in [Launches -> ThreadLabels] /\ ResultInv'
      BY <1>5 DEF ThreadLeaves, ThreadLabels
    <2>2. TypeOK'
      BY <1>5, <2>1 DEF ThreadLeaves
    <2>3. CallerInv' /\ ProcessInv'
      BY <1>5 DEF ThreadLeaves
    <2> QED BY <2>1, <2>2, <2>3
  <1>6. CASE ThreadEnds(g)
    <2>1. thread' \in [Launches -> ThreadLabels] /\ ResultInv'
      BY <1>6 DEF ThreadEnds, ThreadLabels
    <2>2. /\ alive' \subseteq alive /\ spared' \subseteq Launches
          /\ UNCHANGED <<caller, process, last, late, manager, stop, result, line, reported,
                          shared>>
      BY <1>6 DEF ThreadEnds, Kill
    <2>3. TypeOK'
      BY <2>1, <2>2
    <2>4. CallerInv' /\ ProcessInv'
      BY <2>2
    <2> QED BY <2>1, <2>3, <2>4
  <1>7. CASE ProcessDies(g)
    BY <1>7 DEF ProcessDies
  <1> QED BY <1>1, <1>2, <1>3, <1>4, <1>5, <1>6, <1>7 DEF Thread

LEMMA StepInv == IInv /\ [Next]_vars => IInv'
  <1> SUFFICES ASSUME IInv, [Next]_vars PROVE IInv'
    OBVIOUS
  <1>1. ASSUME NEW g \in Launches, NEW l \in Lines, ProcessReports(g, l) PROVE IInv'
    BY <1>1 DEF IInv, TypeOK, CallerInv, ProcessInv, ResultInv, OneProcess,
                FailureTerminates, Running, ProcessReports, caller, processes, shared
  <1>2. CASE UNCHANGED vars
    BY <1>2 DEF IInv, TypeOK, CallerInv, ProcessInv, ResultInv, OneProcess,
                FailureTerminates, Running, vars, caller, processes, threads, shared
  <1> QED BY <1>1, <1>2, ConnectInv, DisconnectInv, ThreadInv DEF Next, Caller

LEMMA Inductive == Spec => []IInv
  BY InitInv, StepInv, PTL DEF Spec

\* Every variable holds a value of its C++ type, whatever overlaps or fails.
THEOREM OpenVpnTypeCorrect == Spec => []TypeOK
  <1>1. IInv => TypeOK
    BY DEF IInv
  <1> QED BY <1>1, Inductive, PTL

\* At most one openvpn.exe runs, and process_ is its handle: even while the threads
\* of two launches overlap no process is out of disconnect's reach.
THEOREM OneProcessAtMost == Spec => []OneProcess
  <1>1. IInv => OneProcess
    BY DEF IInv, ProcessInv
  <1> QED BY <1>1, Inductive, PTL

\* A failed connect leaves no process and has deleted its secrets, as far as
\* Windows lets it, unless it says that the process could not be stopped.
THEOREM FailuresTerminate == Spec => []FailureTerminates
  <1>1. IInv => FailureTerminates
    BY DEF IInv, ProcessInv
  <1> QED BY <1>1, Inductive, PTL

-----------------------------------------------------------------------------
(* The threads of two launches *)

Settled == {"none", "ended"}

\* Launches are numbered in order.  A thread under way is the one
\* managementThread_ holds, or is about to hold.
ThreadsInv ==
    /\ process \in {None, last}
    /\ \A g \in Launches : g > last => thread[g] = "none"
    /\ \A g \in Launches : thread[g] \notin Settled =>
         g = manager \/ (g = process /\ pc \in {"replace", "joinOld"})

\* From the launch of a process to the assignment of its thread, or to its
\* rollback when that thread could not be started
Launching == \/ pc \in {"clearConnected", "clearStartup", "spawn", "replace", "joinOld"}
             \/ pc \in {"stop", "join"} /\ purpose = "rollback"

\* Only then does managementThread_ hold the thread of another process: the one
\* before, which has ended by now or had not at the launch.
LaunchInv ==
    /\ manager \in {None, process} \/ (Launching /\ (manager = late \/ thread[manager] = "ended"))
    /\ pc = "waitExit" => manager = None
    /\ pc \in {"clearConnected", "clearStartup", "spawn", "replace", "joinOld", "wait"}
         => process # None
    /\ pc \in {"clearConnected", "clearStartup", "spawn"} => thread[process] = "none"
    /\ pc = "wait" => manager = process

\* CONNECTED was read for the process at hand, or for the one before while its
\* thread was late.
Heard == reported[process] # "none" \/ (late # None /\ reported[late] # "none")

\* A thread that has yet to leave has set tunnelConnected_, and startupComplete_
\* has come from one of those two.
ReportsInv ==
    /\ connected => \E g \in Launches : thread[g] \in {"serving", "complete", "leave"}
    /\ pc \in {"spawn", "replace", "joinOld", "wait"} /\ startup = "ok" => Heard
    /\ \A g \in Launches : thread[g] = "complete" /\ result[g] = "ok" => reported[g] # "none"

OverlapInv == IInv /\ ThreadsInv /\ LaunchInv /\ ReportsInv

LEMMA InitOverlap == Init => OverlapInv
  BY InitInv, OpenVpnAssumption
  DEF Init, OverlapInv, ThreadsInv, LaunchInv, ReportsInv, Settled, Launches, None

LEMMA ConnectOverlap ==
  ASSUME OverlapInv,
         \/ ConnectRefused \/ ConnectBegin \/ ConnectPrepare \/ ConnectLaunch
         \/ ConnectClear \/ ConnectSpawn \/ ConnectReplace \/ ConnectWait
         \/ ConnectTimesOut
  PROVE  ThreadsInv' /\ LaunchInv' /\ ReportsInv'
  <1> USE DEF OverlapInv, IInv, TypeOK, CallerInv, ThreadsInv, LaunchInv, ReportsInv, Heard,
              Launching, CallerLabels, processes, threads, shared, Launches, None
  <1>1. CASE ConnectRefused
    BY <1>1 DEF ConnectRefused
  <1>2. CASE ConnectBegin
    BY <1>2 DEF ConnectBegin
  <1>3. CASE ConnectPrepare
    BY <1>3 DEF ConnectPrepare
  <1>4. CASE ConnectLaunch
    <2>1. CASE UNCHANGED processes
      BY <1>4, <2>1 DEF ConnectLaunch
    <2>2. CASE ~UNCHANGED processes
      <3>1. /\ last' = last + 1 /\ process' = last' /\ pc = "launch" /\ pc' = "clearConnected"
            /\ late' = IF manager # None /\ thread[manager] # "ended" THEN manager ELSE None
            /\ UNCHANGED <<threads, startup, connected>>
        BY <1>4, <2>2 DEF ConnectLaunch
      <3>2. process' \in Launches /\ process' # None /\ thread[process'] = "none"
        BY <1>4, <3>1, OpenVpnAssumption DEF ConnectLaunch
      <3>3. ThreadsInv'
        BY <3>1, <3>2
      <3>4. manager = None \/ manager = late' \/ thread[manager] = "ended"
        BY <3>1
      <3>5. LaunchInv'
        BY <3>1, <3>2, <3>4
      <3>6. ReportsInv'
        BY <3>1
      <3> QED BY <3>3, <3>5, <3>6
    <2> QED BY <2>1, <2>2
  <1>5. CASE ConnectClear
    <2>1. CASE pc = "clearConnected"
      BY <1>5, <2>1 DEF ConnectClear
    <2>2. CASE pc = "clearStartup"
      BY <1>5, <2>2 DEF ConnectClear
    <2> QED BY <1>5, <2>1, <2>2 DEF ConnectClear
  <1>6. CASE ConnectSpawn
    <2>1. CASE UNCHANGED thread
      BY <1>6, <2>1 DEF ConnectSpawn
    <2>2. CASE thread' = [thread EXCEPT ![process] = "connecting"]
      <3>1. /\ process \in Launches /\ thread[process] = "none" /\ pc' \in {"wait", "replace"}
            /\ pc' = "wait" => manager = None /\ manager' = process
            /\ pc' = "replace" => manager # None /\ manager' = manager
            /\ UNCHANGED <<processes, stop, result, line, reported, shared>>
        BY <1>6, <2>2 DEF ConnectSpawn
      <3>2. thread'[process] = "connecting" /\ \A g \in Launches : g # process => thread'[g] = thread[g]
        BY <2>2, <3>1
      <3>3. \A g \in Launches : g # process /\ thread[g] \notin Settled => g = manager
        BY <1>6 DEF ConnectSpawn
      <3>4. ThreadsInv'
        BY <3>1, <3>2, <3>3 DEF Settled
      <3>5. LaunchInv'
        BY <1>6, <3>1, <3>2 DEF ConnectSpawn
      <3>6. ReportsInv'
        BY <1>6, <3>1, <3>2 DEF ConnectSpawn
      <3> QED BY <3>4, <3>5, <3>6
    <2> QED BY <1>6, <2>1, <2>2 DEF ConnectSpawn
  <1>7. CASE ConnectReplace
    <2>1. CASE pc = "replace"
      BY <1>7, <2>1 DEF ConnectReplace
    <2>2. CASE pc = "joinOld"
      BY <1>7, <2>2 DEF ConnectReplace, Joined, Settled
    <2> QED BY <1>7, <2>1, <2>2 DEF ConnectReplace
  <1>8. CASE ConnectWait
    BY <1>8 DEF ConnectWait
  <1>9. CASE ConnectTimesOut
    BY <1>9 DEF ConnectTimesOut, RollBack
  <1> HIDE DEF OverlapInv, IInv, TypeOK, CallerInv, ThreadsInv, LaunchInv, ReportsInv
  <1> QED BY <1>1, <1>2, <1>3, <1>4, <1>5, <1>6, <1>7, <1>8, <1>9

LEMMA DisconnectOverlap ==
  ASSUME OverlapInv, Disconnect \/ DisconnectStop \/ DisconnectJoin \/ DisconnectExit
  PROVE  ThreadsInv' /\ LaunchInv' /\ ReportsInv'
  <1> USE DEF OverlapInv, IInv, TypeOK, CallerInv, ThreadsInv, LaunchInv, ReportsInv, Heard,
              Launching, CallerLabels, processes, threads, shared, Launches, None
  <1>1. CASE Disconnect
    BY <1>1 DEF Disconnect
  <1>2. CASE DisconnectStop
    BY <1>2 DEF DisconnectStop, RequestStop
  <1>3. CASE DisconnectJoin
    BY <1>3 DEF DisconnectJoin, Joined, Settled
  <1>4. CASE DisconnectExit
    <2>1. purpose \in {"disconnect", "reconnect", "rollback"}
      BY <1>4 DEF DisconnectExit
    <2>2. \A g \in Launches : thread[g] \in Settled
      BY <1>4 DEF DisconnectExit
    <2>3. CASE Stopped
      BY <1>4, <2>1, <2>2, <2>3 DEF DisconnectExit, Stopped, KeepHandle
    <2>4. CASE Return("stopFailed")
      BY <1>4, <2>2, <2>4 DEF DisconnectExit, Stopped, KeepHandle
    <2> QED BY <1>4, <2>3, <2>4 DEF DisconnectExit
  <1> HIDE DEF OverlapInv, IInv, TypeOK, CallerInv, ThreadsInv, LaunchInv, ReportsInv
  <1> QED BY <1>1, <1>2, <1>3, <1>4

\* Where a thread under way goes next changes nothing for the others.
LEMMA MoveOverlaps ==
  ASSUME OverlapInv, NEW g \in Launches, NEW label, thread[g] \notin Settled, label # "none",
         Move(g, label), UNCHANGED <<pc, purpose, process, last, late, manager>>
  PROVE  ThreadsInv' /\ LaunchInv'
  <1>1. /\ thread \in [Launches -> ThreadLabels] /\ process \in Launches \cup {None}
        /\ g = manager \/ (g = process /\ pc \in {"replace", "joinOld"})
    BY DEF OverlapInv, IInv, TypeOK, ThreadsInv
  <1>2. thread'[g] = label /\ \A h \in Launches : h # g => thread'[h] = thread[h]
    BY <1>1
  <1>3. ThreadsInv'
    BY <1>1, <1>2 DEF OverlapInv, ThreadsInv, Settled
  <1>4. manager \in Launches \cup {None} /\ UNCHANGED Launching
    BY DEF OverlapInv, IInv, TypeOK, Launching
  <1>5. manager # None /\ thread[manager] = "ended" => thread'[manager] = "ended"
    BY <1>2, <1>4 DEF Settled
  <1>6. pc \in {"clearConnected", "clearStartup", "spawn"} => thread'[process] = "none"
    BY <1>1, <1>2 DEF OverlapInv, LaunchInv, Settled
  <1>7. LaunchInv'
    BY <1>4, <1>5, <1>6 DEF OverlapInv, LaunchInv
  <1> QED BY <1>3, <1>7

\* The thread of another process than the one at hand is late.
LEMMA UnderWay ==
  ASSUME OverlapInv, NEW g \in Launches, thread[g] \notin Settled
  PROVE  g = process \/ (g = late /\ late # None)
  BY DEF OverlapInv, ThreadsInv, LaunchInv, Settled, Launches, None

LEMMA ThreadOverlap ==
  ASSUME OverlapInv, NEW g \in Launches, Thread(g) \/ ProcessDies(g)
  PROVE  ThreadsInv' /\ LaunchInv' /\ ReportsInv'
  <1>1. /\ thread \in [Launches -> ThreadLabels]
        /\ result \in [Launches -> {"none", "ok", "error"}]
        /\ reported \in [Launches -> {"none", "connected", "lost"}]
        /\ line \in [Launches -> Lines \cup {"none"}]
        /\ process \in Launches \cup {None} /\ late \in Launches \cup {None}
    BY DEF OverlapInv, IInv, TypeOK
  <1>2. thread[g] \notin Settled => g = process \/ (g = late /\ late # None)
    BY UnderWay
  <1>3. ReportsInv
    BY DEF OverlapInv
  <1>4. CASE ThreadConnects(g)
    <2>1. PICK label \in {"leave", "serving", "complete"} : Move(g, label)
      BY <1>4 DEF ThreadConnects
    <2>2. ThreadsInv' /\ LaunchInv'
      BY <1>4, <2>1, MoveOverlaps DEF ThreadConnects, Settled, caller, processes
    <2>3. thread[g] = "connecting" /\ result'[g] = "ok" => thread'[g] # "complete"
      BY <1>1, <1>4 DEF ThreadConnects
    <2>4. /\ UNCHANGED <<pc, process, late, startup, connected, reported>>
          /\ thread[g] = "connecting"
          /\ \A h \in Launches : h # g => thread'[h] = thread[h] /\ result'[h] = result[h]
      BY <1>1, <1>4 DEF ThreadConnects, caller, processes, shared
    <2>5. ReportsInv'
      BY <1>3, <2>3, <2>4 DEF ReportsInv, Heard
    <2> QED BY <2>2, <2>5
  <1>5. CASE ThreadReads(g)
    <2>1. /\ thread[g] = "serving"
          /\ UNCHANGED <<caller, processes, manager, stop, startup, files>>
      BY <1>5 DEF ThreadReads
    <2>2. thread'[g] \in {"serving", "complete"} /\ \A h \in Launches : h # g => thread'[h] = thread[h]
      BY <1>1, <1>5 DEF ThreadReads, Lines
    <2>3. ThreadsInv' /\ LaunchInv'
      <3>1. CASE UNCHANGED thread
        BY <2>1, <3>1 DEF OverlapInv, ThreadsInv, LaunchInv, Launching, caller, processes
      <3>2. CASE Move(g, "complete")
        BY <2>1, <3>2, MoveOverlaps DEF Settled, caller, processes
      <3> QED BY <1>1, <1>5, <3>1, <3>2 DEF ThreadReads, Lines
    <2>4. /\ \A h \in Launches : reported[h] # "none" => reported'[h] # "none"
          /\ thread'[g] = "complete" /\ result'[g] = "ok" => reported'[g] # "none"
          /\ \A h \in Launches : h # g => result'[h] = result[h]
      BY <1>1, <1>5 DEF ThreadReads, Lines
    <2>5. pc \in {"spawn", "replace", "joinOld", "wait"} => process \in Launches
      BY <1>1 DEF OverlapInv, LaunchInv
    <2>6. ReportsInv'
      BY <1>1, <1>3, <2>1, <2>2, <2>4, <2>5 DEF ReportsInv, Heard, caller, processes
    <2> QED BY <2>3, <2>6
  <1>6. CASE ThreadStops(g)
    <2>1. PICK label \in {"leave", "complete"} : Move(g, label)
      BY <1>6 DEF ThreadStops
    <2>2. ThreadsInv' /\ LaunchInv'
      BY <1>6, <2>1, MoveOverlaps DEF ThreadStops, Settled, caller, processes
    <2>3. result'[g] = "ok" => thread'[g] # "complete"
      BY <1>1, <1>6 DEF ThreadStops
    <2>4. /\ UNCHANGED <<pc, process, late, startup, connected, reported>>
          /\ thread'[g] \in {"leave", "complete"}
          /\ \A h \in Launches : h # g => thread'[h] = thread[h] /\ result'[h] = result[h]
      BY <1>1, <1>6 DEF ThreadStops, caller, processes, shared
    <2>5. ReportsInv'
      BY <1>3, <2>3, <2>4 DEF ReportsInv, Heard
    <2> QED BY <2>2, <2>5
  <1>7. CASE ThreadCompletes(g)
    <2>1. PICK label \in {"serving", "leave"} : Move(g, label)
      BY <1>7 DEF ThreadCompletes
    <2>2. ThreadsInv' /\ LaunchInv'
      BY <1>7, <2>1, MoveOverlaps DEF ThreadCompletes, Settled, caller, processes
    <2>3. result[g] = "ok" => Heard
      BY <1>2, <1>3, <1>7 DEF ThreadCompletes, ReportsInv, Heard, Settled
    <2>4. /\ UNCHANGED <<pc, process, late, connected, reported, result>>
          /\ startup' = "ok" => startup = "ok" \/ result[g] = "ok"
      BY <1>7 DEF ThreadCompletes, caller, processes
    <2>5. ReportsInv'
      BY <1>1, <1>3, <2>1, <2>3, <2>4 DEF ReportsInv, Heard
    <2> QED BY <2>2, <2>5
  <1>8. CASE ThreadLeaves(g)
    <2>1. ThreadsInv' /\ LaunchInv'
      BY <1>8, MoveOverlaps DEF ThreadLeaves, Settled, caller, processes
    <2>2. ReportsInv'
      BY <1>1, <1>3, <1>8 DEF ThreadLeaves, ReportsInv, Heard, caller, processes
    <2> QED BY <2>1, <2>2
  <1>9. CASE ThreadEnds(g)
    <2>1. PICK label \in {"ended", "kill"} : Move(g, label)
      BY <1>9 DEF ThreadEnds
    <2>2. thread[g] \in {"check", "kill"} /\ UNCHANGED <<caller, process, last, late, manager, shared,
                                                        result, reported>>
      BY <1>9 DEF ThreadEnds, processes
    <2>3. ThreadsInv' /\ LaunchInv'
      BY <2>1, <2>2, MoveOverlaps DEF Settled, caller
    <2>4. ReportsInv'
      BY <1>1, <1>3, <2>1, <2>2 DEF ReportsInv, Heard, caller, shared
    <2> QED BY <2>3, <2>4
  <1>10. CASE ProcessDies(g)
    BY <1>10 DEF ProcessDies, OverlapInv, ThreadsInv, LaunchInv, Launching, ReportsInv, Heard,
                 caller, threads, shared
  <1> QED BY <1>4, <1>5, <1>6, <1>7, <1>8, <1>9, <1>10 DEF Thread

LEMMA StepOverlap == OverlapInv /\ [Next]_vars => OverlapInv'
  <1> SUFFICES ASSUME OverlapInv, [Next]_vars PROVE OverlapInv'
    OBVIOUS
  <1>1. IInv'
    BY StepInv DEF OverlapInv
  <1>2. CASE UNCHANGED vars \/ \E g \in Launches, l \in Lines : ProcessReports(g, l)
    <2>1. UNCHANGED <<pc, purpose, process, last, late, manager, thread, result, reported, startup,
                      connected>>
      BY <1>2 DEF ProcessReports, vars, caller, processes, threads, shared
    <2> QED BY <1>1, <2>1 DEF OverlapInv, ThreadsInv, LaunchInv, Launching, ReportsInv, Heard
  <1>3. CASE ConnectRefused \/ ConnectBegin \/ Disconnect \/ Caller
    BY <1>1, <1>3, ConnectOverlap, DisconnectOverlap DEF Caller, OverlapInv
  <1>4. ASSUME NEW g \in Launches, Thread(g) \/ ProcessDies(g)
        PROVE  OverlapInv'
    BY <1>1, <1>4, ThreadOverlap DEF OverlapInv
  <1> QED BY <1>2, <1>3, <1>4 DEF Next

LEMMA OverlapAlways == Spec => []OverlapInv
  BY InitOverlap, StepOverlap, PTL DEF Spec

\* connect returns success only after the process it launched has reported
\* CONNECTED,SUCCESS, or the one before it has and its thread had not ended at the
\* launch: the result of an older launch never counts.
THEOREM SuccessIsConnected == Spec => SuccessMeansConnected
  <1> DEFINE Succeeds == pc = "wait" /\ reply' = "ok" /\ pc' = "idle"
  <1>1. OverlapInv /\ [Next]_vars => (Succeeds => Heard)
    <2> SUFFICES ASSUME OverlapInv, [Next]_vars, Succeeds PROVE Heard
      OBVIOUS
    <2>1. pc' # pc
      OBVIOUS
    <2>2. ~(\E g \in Launches : Thread(g) \/ ProcessDies(g))
      BY <2>1 DEF Thread, ThreadConnects, ThreadReads, ThreadStops, ThreadCompletes,
                  ThreadLeaves, ThreadEnds, ProcessDies, caller
    <2>3. ~(\E g \in Launches, l \in Lines : ProcessReports(g, l)) /\ ~UNCHANGED vars
      BY <2>1 DEF ProcessReports, vars, caller
    <2>4. ConnectWait
      BY <2>2, <2>3
      DEF Next, Caller, ConnectRefused, ConnectBegin, Disconnect, ConnectPrepare,
          ConnectLaunch, ConnectClear, ConnectSpawn, ConnectReplace, ConnectTimesOut,
          RollBack, DisconnectStop, DisconnectJoin, DisconnectExit
    <2>5. startup = "ok"
      BY <2>4 DEF ConnectWait
    <2> QED BY <2>5 DEF OverlapInv, ReportsInv
  <1> QED BY <1>1, OverlapAlways, PTL DEF SuccessMeansConnected, Spec, Heard

\* The process a management thread terminates on its way out is its own, or was
\* launched before the thread had ended: none ever takes down the one after that.
THEOREM ThreadsKillTheirOwn == Spec => KillsItsOwn
  <1> DEFINE Own == \A g \in Launches : thread[g] = "kill" /\ thread'[g] = "ended"
                      => g \in {process, late} \/ ~Running
  <1>1. OverlapInv => Own
    BY UnderWay DEF Settled
  <1> QED BY <1>1, OverlapAlways, PTL DEF KillsItsOwn

-----------------------------------------------------------------------------
(* OpenVpnTunnel implements Engine *)

\* The engine as VpnController sees it
EngineNow == IF ~Running THEN IF Unnoticed THEN "fading" ELSE "absent"
             ELSE IF thread[process] = "ended" /\ manager = None THEN "unmanaged"
             ELSE IF connected THEN "connected" ELSE "running"

LEMMA EngineMoves ==
  ASSUME \/ EngineNow = "absent" /\ EngineNow' = "running"
         \/ EngineNow = "fading" /\ EngineNow' \in {"running", "connected"}
         \/ EngineNow = "running" /\ EngineNow' = "connected"
         \/ EngineNow = "connected" /\ EngineNow' = "running"
         \/ EngineNow \notin {"absent", "fading"} /\ EngineNow' \in {"absent", "fading"}
         \/ EngineNow = "absent" /\ EngineNow' = "fading"
         \/ EngineNow = "fading" /\ EngineNow' = "absent"
         \/ EngineNow \in {"running", "connected"} /\ EngineNow' = "unmanaged"
  PROVE  Engine!Next
  BY DEF EngineNow, Engine!Next, Engine!Launch, Engine!Connects, Engine!Loses,
         Engine!Ends, Engine!Reports, Engine!Fades, Engine!StopFails

\* The process may end while the tunnel stays connected or not, ...
LEMMA EngineEnds ==
  ASSUME ~Running'
  PROVE  EngineNow \notin {"absent", "fading"} => Engine!Next
  <1>1. EngineNow' \in {"absent", "fading"}
    BY DEF EngineNow
  <1> QED BY <1>1, EngineMoves

\* ... and the tunnel may be connected or not while the process stays.
LEMMA EngineReports ==
  ASSUME OverlapInv, OverlapInv', UNCHANGED Running,
         Running => ~(thread[process] = "ended" /\ manager = None)
                      /\ ~(thread[process] = "ended" /\ manager = None)'
  PROVE  Engine!Next \/ UNCHANGED EngineNow
  <1>1. connected \in BOOLEAN /\ connected' \in BOOLEAN
    BY DEF OverlapInv, IInv, TypeOK
  <1>2. CASE Running
    <2>1. /\ EngineNow = (IF connected THEN "connected" ELSE "running")
          /\ EngineNow' = (IF connected' THEN "connected" ELSE "running")
      BY <1>2 DEF EngineNow
    <2> QED BY <1>1, <2>1, EngineMoves
  <1>3. CASE ~Running
    <2>1. EngineNow \in {"absent", "fading"} /\ EngineNow' \in {"absent", "fading"}
      BY <1>3 DEF EngineNow
    <2> QED BY <2>1, EngineMoves
  <1> QED BY <1>2, <1>3

LEMMA CallerImplements ==
  ASSUME OverlapInv, OverlapInv',
         \/ ConnectRefused \/ ConnectBegin \/ ConnectPrepare \/ ConnectLaunch
         \/ ConnectClear \/ ConnectSpawn \/ ConnectReplace \/ ConnectWait
         \/ ConnectTimesOut \/ Disconnect \/ DisconnectStop \/ DisconnectJoin
         \/ DisconnectExit
  PROVE  Engine!Next \/ UNCHANGED EngineNow
  <1>1. /\ alive \subseteq {process} /\ alive \subseteq Launches
        /\ thread \in [Launches -> ThreadLabels] /\ connected \in BOOLEAN
        /\ manager \in Launches \cup {None} /\ process \in Launches \cup {None}
        /\ None \notin Launches
    BY DEF OverlapInv, IInv, TypeOK, ProcessInv, OneProcess, Launches, None
  <1>2. (Unnoticed <=> connected) /\ (Unnoticed <=> connected)'
    BY DEF OverlapInv, ReportsInv, Unnoticed
  <1>3. CASE ConnectLaunch /\ ~UNCHANGED processes
    <2>1. ~Running /\ process' \in alive'
      BY <1>3 DEF ConnectLaunch, OverlapInv, IInv, ProcessInv, Running
    <2>2. UNCHANGED connected
      BY <1>3 DEF ConnectLaunch
    <2>3. thread'[process'] = "none"
      BY <1>3 DEF OverlapInv, LaunchInv, ConnectLaunch
    <2>4. /\ EngineNow = (IF connected THEN "fading" ELSE "absent")
          /\ EngineNow' = (IF connected THEN "connected" ELSE "running")
      BY <1>2, <2>1, <2>2, <2>3 DEF EngineNow, Running
    <2> QED BY <1>1, <2>4, EngineMoves
  <1>4. CASE ConnectClear
    <2>1. UNCHANGED <<processes, thread, manager>> /\ thread[process] = "none"
      BY <1>4 DEF ConnectClear, OverlapInv, LaunchInv, threads
    <2> QED BY <2>1, EngineReports DEF Running, processes
  <1>5. CASE ConnectSpawn
    <2>1. thread[process] = "none" /\ thread'[process] # "ended" /\ UNCHANGED <<processes, connected>>
      BY <1>1, <1>5 DEF ConnectSpawn, OverlapInv, LaunchInv, shared
    <2> QED BY <2>1, EngineReports DEF Running, processes
  <1>6. CASE ConnectReplace
    <2>1. manager # None /\ manager' # None /\ UNCHANGED <<processes, thread, connected>>
      BY <1>6 DEF ConnectReplace, OverlapInv, IInv, CallerInv, LaunchInv, shared
    <2> QED BY <2>1, EngineReports DEF Running, processes
  <1>7. CASE DisconnectJoin
    <2>1. UNCHANGED <<processes, thread, connected>> /\ manager # None /\ manager' = None
      BY <1>7 DEF DisconnectJoin, OverlapInv, IInv, CallerInv, shared
    <2>2. \/ UNCHANGED EngineNow
          \/ EngineNow \in {"running", "connected"} /\ EngineNow' = "unmanaged"
      BY <1>2, <2>1 DEF EngineNow, Running, processes
    <2> QED BY <2>2, EngineMoves
  <1>8. CASE DisconnectExit
    <2>1. ~connected
      BY <1>8 DEF DisconnectExit, OverlapInv, ThreadsInv, LaunchInv, ReportsInv, Settled,
                  Launches, None
    <2>2. UNCHANGED <<thread, manager>> /\ connected' = FALSE
      BY <1>8 DEF DisconnectExit, threads
    <2>3. CASE UNCHANGED <<process, alive>>
      BY <1>2, <2>1, <2>2, <2>3 DEF EngineNow, Running
    <2>4. CASE alive' = alive \ {process} /\ process' = None
      <3>1. EngineNow' = "absent"
        BY <1>1, <1>2, <2>2, <2>4 DEF EngineNow, Running
      <3>2. EngineNow # "fading"
        BY <1>2, <2>1 DEF EngineNow
      <3> QED BY <3>1, <3>2, EngineMoves
    <2> QED BY <1>8, <2>3, <2>4 DEF DisconnectExit, KeepHandle
  <1>9. CASE UNCHANGED <<process, alive, thread, manager, connected>>
    BY <1>9 DEF EngineNow, Running, Unnoticed
  <1> QED
    BY <1>3, <1>4, <1>5, <1>6, <1>7, <1>8, <1>9
    DEF ConnectRefused, ConnectBegin, ConnectPrepare, ConnectLaunch, ConnectWait,
        ConnectTimesOut, RollBack, Disconnect, DisconnectStop, processes, threads, shared

LEMMA ThreadImplements ==
  ASSUME OverlapInv, OverlapInv', NEW g \in Launches, Thread(g) \/ ProcessDies(g)
  PROVE  Engine!Next \/ UNCHANGED EngineNow
  <1>1. /\ alive \subseteq {process} /\ alive \subseteq Launches
        /\ thread \in [Launches -> ThreadLabels]
        /\ manager \in Launches \cup {None}
    BY DEF OverlapInv, IInv, TypeOK, ProcessInv, OneProcess
  <1>2. thread[g] \notin Settled => manager # None
    BY DEF OverlapInv, IInv, CallerInv, ThreadsInv, Launches, None
  <1>3. ASSUME UNCHANGED <<process, alive, manager>>, thread[g] \notin Settled
        PROVE  Engine!Next \/ UNCHANGED EngineNow
    BY <1>2, <1>3, EngineReports DEF Running
  <1>4. CASE ThreadConnects(g) \/ ThreadStops(g) \/ ThreadReads(g) \/ ThreadCompletes(g) \/ ThreadLeaves(g)
    BY <1>3, <1>4 DEF ThreadConnects, ThreadStops, ThreadReads, ThreadCompletes, ThreadLeaves,
                      Settled, processes
  <1>5. CASE ThreadEnds(g)
    <2>1. thread[g] \notin Settled /\ UNCHANGED <<process, manager>>
      BY <1>5 DEF ThreadEnds, Settled, processes
    <2>2. CASE UNCHANGED alive
      BY <1>3, <2>1, <2>2
    <2>3. CASE alive' = alive \ {process}
      <3>1. ~Running'
        BY <2>1, <2>3 DEF Running
      <3>2. EngineNow \in {"absent", "fading"} => ~Running
        BY DEF EngineNow
      <3>3. ~Running => UNCHANGED alive
        BY <2>3 DEF Running
      <3> QED BY <1>3, <2>1, <3>1, <3>2, <3>3, EngineEnds
    <2> QED BY <1>5, <2>2, <2>3 DEF ThreadEnds, Kill, processes
  <1>6. CASE ProcessDies(g)
    <2>1. Running /\ ~Running'
      BY <1>1, <1>6 DEF ProcessDies, Running
    <2>2. EngineNow \notin {"absent", "fading"}
      BY <2>1 DEF EngineNow
    <2> QED BY <2>1, <2>2, EngineEnds
  <1> QED BY <1>4, <1>5, <1>6 DEF Thread

\* What running() and connected() of OpenVpnTunnel say evolves as VpnController
\* counts on: connected only after running or while an earlier tunnel still fades,
\* and an engine that could not be stopped is not connected again before a launch.
THEOREM OpenVpnIsAnEngine == Spec => EngineSpec
  <1>1. Init => Engine!Init
    BY DEF Init, Engine!Init, Running, Unnoticed
  <1>2. OverlapInv /\ [Next]_vars => [Engine!Next]_EngineNow
    <2> SUFFICES ASSUME OverlapInv, [Next]_vars PROVE Engine!Next \/ UNCHANGED EngineNow
      OBVIOUS
    <2>1. OverlapInv'
      BY StepOverlap
    <2>2. CASE ConnectRefused \/ ConnectBegin \/ Disconnect \/ Caller
      BY <2>1, <2>2, CallerImplements DEF Caller
    <2>3. ASSUME NEW g \in Launches, Thread(g) \/ ProcessDies(g)
          PROVE  Engine!Next \/ UNCHANGED EngineNow
      BY <2>1, <2>3, ThreadImplements
    <2>4. CASE UNCHANGED vars \/ \E g \in Launches, l \in Lines : ProcessReports(g, l)
      <3>1. UNCHANGED <<process, alive, thread, manager, connected>>
        BY <2>4 DEF vars, ProcessReports, processes, threads, shared
      <3> QED BY <3>1 DEF EngineNow, Running, Unnoticed
    <2> QED BY <2>2, <2>3, <2>4 DEF Next
  <1> QED BY <1>1, <1>2, OverlapAlways, PTL DEF Spec, EngineSpec, Engine!Spec, EngineNow
=============================================================================
