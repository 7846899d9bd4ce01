--------------------------- MODULE WindowsService ---------------------------
(***************************************************************************)
(* OpenNordService as Windows sees it: its registration and state with the  *)
(* service control manager (the SCM), the processes the SCM starts, which   *)
(* run ServiceMain, and the command lines --install, --uninstall, --start,  *)
(* --stop and --restart, each run by a process of its own that talks to the *)
(* SCM.  --console runs the same pipe server outside the SCM.               *)
(*                                                                         *)
(* Windows' part: a control is refused while the service is starting or     *)
(* stopping; StartService of a service that is not stopped answers          *)
(* ERROR_SERVICE_ALREADY_RUNNING; a deleted service keeps its entry until   *)
(* it is stopped and every handle to it is closed; a recovery action is due *)
(* after a crash and, with the failure flag set, after an end with an error.*)
(***************************************************************************)
EXTENDS Naturals, FiniteSets

CONSTANTS
    Commands,       \* runs of the executable with a command
    Names,          \* the commands they run
    Console,        \* the owner of the pipe under --console
    Nobody,
    MaxLaunches,    \* processes the SCM starts
    Faults          \* what fails: "crash", "start", "scm", "recovery", "console"

ASSUME WindowsAssumption ==
    /\ MaxLaunches \in Nat \ {0}
    /\ Names \subseteq {"install", "uninstall", "start", "stop", "restart"}
    /\ Console \notin Nat /\ Nobody \notin Nat \cup {Console}

Pids == 1..MaxLaunches

VARIABLES
    scm,        \* the entry of OpenNord, its state and its process
    process,    \* how far each process is in ServiceMain
    pipe,       \* the owner of the pipe's first instance
    command     \* the runs of the executable

windows == <<scm, process, pipe, command>>

States == {"stopped", "startPending", "running", "stopPending"}

\* A process that is leaving has published SERVICE_STOPPED, or failed to start,
\* and has yet to destroy its server and its controller and to exit.
Places == {"unborn", "starting", "eventless", "serving", "stopping", "closing", "leaving", "gone"}
Past == {"leaving", "gone"}

\* A service that was never installed, or the one an earlier setup started
Absent == [entry |-> "none", recovery |-> "none", state |-> "stopped", pid |-> 0,
           last |-> 0, due |-> FALSE]
Installed == [entry |-> "present", recovery |-> "failure", state |-> "running", pid |-> 1,
              last |-> 1, due |-> FALSE]
Idle == [name |-> "none", at |-> "idle", found |-> 0, began |-> 0]

InitWindows ==
    /\ \/ scm = Absent /\ pipe = Nobody /\ process = [p \in Pids |-> "unborn"]
       \/ scm = Installed /\ pipe = 1 /\ process = [p \in Pids |-> IF p = 1 THEN "serving" ELSE "unborn"]
    /\ command = [c \in Commands |-> Idle]

Go(c, at) == command' = [command EXCEPT ![c].at = at]
Return(c, ok) == IF ok THEN Go(c, "done") ELSE command' = [command EXCEPT ![c] = [Idle EXCEPT !.at = "failed"]]
Ended(c) == command[c].at \in {"idle", "done", "failed"}

-----------------------------------------------------------------------------
(* What the SCM does *)

SetState(state) == scm' = [scm EXCEPT !.state = state]

\* A bound on the processes is a StartService that fails.
CanLaunch == scm.entry = "present" /\ scm.state = "stopped" /\ scm.last < MaxLaunches
Launch == LET p == scm.last + 1 IN
    /\ scm' = [scm EXCEPT !.state = "startPending", !.pid = p, !.last = p, !.due = FALSE]
    /\ process' = [process EXCEPT ![p] = "starting"]

\* The process p is over; `wrong` says it ended without a clean stop.
StateAfter(p, due) ==
    scm' = IF scm.pid = p THEN [scm EXCEPT !.state = "stopped", !.pid = 0, !.due = due] ELSE scm

FreePipe(p) == pipe' = IF pipe = p THEN Nobody ELSE pipe

Recover ==
    /\ scm.due /\ CanLaunch /\ Launch
    /\ UNCHANGED <<pipe, command>>

\* The entry of a deleted service goes with its last handle.
Purge ==
    /\ scm.entry = "deleted" /\ scm.state = "stopped" /\ \A c \in Commands : Ended(c)
    /\ scm' = [Absent EXCEPT !.last = scm.last]
    /\ UNCHANGED <<process, pipe, command>>

-----------------------------------------------------------------------------
(* ServiceMain *)

\* Mutant: SERVICE_STOPPED without the error
NoError == FALSE

\* An end with an error is one the failure flag has the SCM act upon.
EndsWithError == scm.recovery = "failure"

\* The stop event and the pipe's first instance; without the pipe the service
\* stops with an error.
ServiceMain(p) ==
    /\ process[p] = "starting"
    /\ \/ /\ pipe = Nobody /\ pipe' = p
          /\ process' = [process EXCEPT ![p] = "serving"] /\ SetState("running")
       \/ /\ pipe # Nobody \/ "start" \in Faults
          /\ process' = [process EXCEPT ![p] = "leaving"]
          /\ StateAfter(p, EndsWithError)
          /\ UNCHANGED pipe
       \/ /\ "start" \in Faults
          /\ process' = [process EXCEPT ![p] = "eventless"]
          /\ UNCHANGED <<scm, pipe>>
    /\ UNCHANGED command

\* Without the event the error is the last one, read after a log call that may
\* have replaced it by none.
StopEventless(p) ==
    /\ process[p] = "eventless"
    /\ process' = [process EXCEPT ![p] = "leaving"]
    /\ StateAfter(p, EndsWithError) \/ StateAfter(p, FALSE)
    /\ UNCHANGED pipe

\* Mutant: SERVICE_STOPPED is published before the pipe is closed
StopLate(p) ==
    /\ process[p] = "stopping"
    /\ process' = [process EXCEPT ![p] = "closing"]
    /\ StateAfter(p, FALSE) /\ UNCHANGED pipe

\* server.stop()
StopServer(p) ==
    /\ process[p] = "stopping"
    /\ process' = [process EXCEPT ![p] = "closing"]
    /\ FreePipe(p) /\ UNCHANGED scm

\* activeController->shutdown(), and SERVICE_STOPPED
StopController(p) ==
    /\ process[p] = "closing"
    /\ process' = [process EXCEPT ![p] = "leaving"]
    /\ StateAfter(p, FALSE) /\ UNCHANGED pipe

\* The server's destructor, which stops it once more, and the end of main
Exit(p) ==
    /\ process[p] = "leaving"
    /\ process' = [process EXCEPT ![p] = "gone"]
    /\ FreePipe(p) /\ UNCHANGED scm

Serve(p) == /\ StopEventless(p) \/ StopServer(p) \/ StopController(p) \/ Exit(p)
            /\ UNCHANGED command

Crash(p) ==
    /\ "crash" \in Faults /\ process[p] \notin {"unborn", "gone"}
    /\ process' = [process EXCEPT ![p] = "gone"]
    /\ StateAfter(p, scm.recovery # "none") /\ FreePipe(p)
    /\ UNCHANGED command

\* --console, for as long as nobody stops it
ConsoleRuns ==
    /\ "console" \in Faults
    /\ \/ pipe = Nobody /\ pipe' = Console
       \/ pipe = Console /\ pipe' = Nobody
    /\ UNCHANGED <<scm, process, command>>

-----------------------------------------------------------------------------
(* The commands.  SCM calls are atomic, nothing is between two of them. *)

Run(c, name) ==
    /\ command[c].at = "idle"
    /\ command' = [command EXCEPT ![c] = [Idle EXCEPT !.name = name, !.at = "open", !.began = scm.last]]

\* OpenSCManager and OpenService; install creates or changes the entry.
Install(c) ==
    /\ command[c].at = "open" /\ command[c].name = "install"
    /\ IF scm.entry = "deleted" THEN Return(c, FALSE) /\ UNCHANGED scm
       ELSE Go(c, "configure") /\ scm' = [scm EXCEPT !.entry = "present"]
    /\ UNCHANGED <<process, pipe>>

Open(c) ==
    /\ command[c].at = "open" /\ command[c].name # "install"
    /\ IF scm.entry = "none" THEN Return(c, command[c].name = "uninstall")
       ELSE Go(c, IF command[c].name = "start" THEN "start" ELSE "query")
    /\ UNCHANGED <<scm, process, pipe>>

\* What configureRecovery leaves: the actions, then the flag; it may fail at
\* either, and install goes on.
RecoveryAfter(old) ==
    {"failure"} \cup IF "recovery" \in Faults THEN {old, IF old = "failure" THEN old ELSE "crash"} ELSE {}

ConfigureRecovery(c) ==
    /\ command[c].at = "configure" /\ Go(c, "start")
    /\ \E r \in RecoveryAfter(scm.recovery) : scm' = [scm EXCEPT !.recovery = r]
    /\ UNCHANGED <<process, pipe>>

StartService(c) ==
    /\ command[c].at = "start"
    /\ IF CanLaunch THEN Launch /\ Go(c, "waitRunning")
       ELSE /\ UNCHANGED <<scm, process>>
            /\ IF scm.entry = "present" /\ scm.state # "stopped" THEN Go(c, "waitRunning") ELSE Return(c, FALSE)
    /\ UNCHANGED pipe

\* 15 seconds
WaitRunning(c) ==
    /\ command[c].at = "waitRunning"
    /\ \/ scm.state = "running" /\ Return(c, TRUE)
       \/ scm.state = "stopped" /\ Return(c, FALSE)
       \/ scm.state \notin {"running", "stopped"} /\ Return(c, FALSE)
    /\ UNCHANGED <<scm, process, pipe>>

\* Once the service has stopped
AfterStop(c) ==
    CASE command[c].name = "stop" -> Return(c, TRUE)
      [] command[c].name = "restart" -> Go(c, "reopen")
      [] command[c].name = "uninstall" -> Go(c, "delete")

\* QueryServiceStatus: only uninstall spares a stopping service the control.
Query(c) ==
    /\ command[c].at = "query"
    /\ CASE scm.state = "stopped" -> AfterStop(c)
         [] scm.state = "stopPending" /\ command[c].name = "uninstall" ->
              command' = [command EXCEPT ![c].at = "waitStopped", ![c].found = scm.pid]
         [] OTHER -> command' = [command EXCEPT ![c].at = "control", ![c].found = scm.pid]
    /\ UNCHANGED <<scm, process, pipe>>

\* ControlService runs controlHandler before it returns.
ControlHandler ==
    /\ SetState("stopPending") /\ process' = [process EXCEPT ![scm.pid] = "stopping"]

\* Mutant: a control that is refused counts as given and obeyed
ControlRegardless(c) ==
    /\ command[c].at = "control"
    /\ IF scm.state = "running" THEN ControlHandler /\ Go(c, "waitStopped")
       ELSE AfterStop(c) /\ UNCHANGED <<scm, process>>
    /\ UNCHANGED pipe

ControlStop(c) ==
    /\ command[c].at = "control"
    /\ CASE scm.state = "running" -> ControlHandler /\ Go(c, "waitStopped")
         [] scm.state = "stopped" -> Go(c, "waitStopped") /\ UNCHANGED <<scm, process>>
         [] OTHER -> Return(c, FALSE) /\ UNCHANGED <<scm, process>>
    /\ UNCHANGED pipe

\* 15 seconds, 60 for uninstall; a stop of the tunnel may take 45.
WaitStopped(c) ==
    /\ command[c].at = "waitStopped"
    /\ \/ scm.state = "stopped" /\ AfterStop(c)
       \/ scm.state # "stopped" /\ Return(c, FALSE)
    /\ UNCHANGED <<scm, process, pipe>>

\* restart opens the service again to start it.
Reopen(c) ==
    /\ command[c].at = "reopen"
    /\ IF scm.entry = "none" THEN Return(c, FALSE) ELSE Go(c, "start")
    /\ UNCHANGED <<scm, process, pipe>>

Delete(c) ==
    /\ command[c].at = "delete" /\ Return(c, TRUE)
    /\ scm' = [scm EXCEPT !.entry = "deleted", !.due = FALSE]
    /\ UNCHANGED <<process, pipe>>

\* Any call to the SCM may fail, and every one of them ends the command.
ScmFails(c) ==
    /\ "scm" \in Faults /\ ~Ended(c) /\ Return(c, FALSE)
    /\ UNCHANGED <<scm, process, pipe>>

CommandStep(c) ==
    \/ Install(c) \/ Open(c) \/ ConfigureRecovery(c) \/ StartService(c) \/ WaitRunning(c)
    \/ Query(c) \/ ControlStop(c) \/ WaitStopped(c) \/ Reopen(c) \/ Delete(c)

Command(c) == CommandStep(c) \/ ScmFails(c)

Scm == Recover \/ Purge

Process(p) == ServiceMain(p) \/ Serve(p)

-----------------------------------------------------------------------------
(* The properties *)

WindowsTypeOK ==
    /\ scm \in [entry : {"none", "present", "deleted"}, recovery : {"none", "crash", "failure"},
                state : States, pid : 0..MaxLaunches, last : 0..MaxLaunches, due : BOOLEAN]
    /\ process \in [Pids -> Places]
    /\ pipe \in Pids \cup {Console, Nobody}
    /\ command \in [Commands -> [name : Names \cup {"none"}, found : 0..MaxLaunches, began : 0..MaxLaunches,
          at : {"idle", "open", "configure", "start", "waitRunning", "query", "control",
                "waitStopped", "reopen", "delete", "done", "failed"}]]

\* While the SCM calls the service stopped no process of it holds the pipe or
\* is in shutdown, so that the next one finds the pipe free and the tunnel of
\* its predecessor settled, though that process may still be there to exit
\* (serviceMain publishes SERVICE_STOPPED after both).
StoppedMeansReleased ==
    scm.state = "stopped" => pipe \notin Pids /\ \A p \in Pids : process[p] \in Past \cup {"unborn"}

\* What a command reports has happened to the service: an uninstall deletes the
\* entry only after the process it found has closed its pipe and ended its
\* tunnel; and a restart that succeeds has seen the same of every process that
\* was there when it began, so that the one that answers next is new
\* (uninstall, stop and restart wait for SERVICE_STOPPED).
CommandsTellTheTruth ==
    \A c \in Commands :
        /\ command[c].name = "uninstall" /\ command[c].at \in {"delete", "done"} /\ command[c].found # 0
              => process[command[c].found] \in Past
        /\ command[c].name = "restart" /\ command[c].at = "done"
              => \A p \in 1..command[c].began : process[p] \in Past
=============================================================================
