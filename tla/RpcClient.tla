------------------------------ MODULE RpcClient ------------------------------
(***************************************************************************)
(* RpcClient: the calls of the GUI to the service.  call() reads the switch *)
(* autoStartService_ and hands the call to a thread of Qt's pool, where      *)
(* callBlocking sees to it that the service runs, opens the pipe, checks    *)
(* that its server is the registered process, sends the request and reads   *)
(* the answer; a status call goes round once more.  The tray flips the      *)
(* switch and runs the service's commands.                                  *)
(***************************************************************************)
EXTENDS WindowsService

CONSTANTS Calls

ASSUME CallsAssumption == Calls # {}

VARIABLES
    call,       \* the calls
    autoStart   \* autoStartService_

vars == <<windows, call, autoStart>>

\* allow is the switch as the call read it; retry is allowStatusRetry; runs
\* counts the times the service has handled the request.
Fresh == [at |-> "none", method |-> "status", allow |-> TRUE, retry |-> TRUE, peer |-> Nobody, runs |-> 0]

Init == /\ InitWindows
        /\ call = [k \in Calls |-> Fresh]
        /\ autoStart = TRUE

Put(k, at) == call' = [call EXCEPT ![k].at = at]
Answer(k, ok) == call' = [call EXCEPT ![k].at = IF ok THEN "ok" ELSE "error", ![k].peer = Nobody]
Answered(k) == call[k].at \in {"ok", "error"}

Calling(k) == UNCHANGED <<process, pipe, command, autoStart>>
Only(k) == Calling(k) /\ UNCHANGED scm

-----------------------------------------------------------------------------
(* The tray: runElevatedServiceCommand *)

Tray(c, name) ==
    /\ name \in {"start", "restart", "stop"} /\ Run(c, name)
    /\ autoStart' = (name # "stop")
    /\ UNCHANGED <<scm, process, pipe, call>>

\* ShellExecute fails, or the user refuses: the switch is on again.
TrayRefused ==
    /\ autoStart' = TRUE /\ ~autoStart
    /\ UNCHANGED <<windows, call>>

\* The setup and an administrator run the executable themselves.
Administrator(c, name) ==
    /\ Run(c, name)
    /\ UNCHANGED <<scm, process, pipe, call, autoStart>>

-----------------------------------------------------------------------------
(* call and callBlocking *)

Call(k, method) ==
    /\ call[k].at \in {"none", "ok", "error"}
    /\ call' = [call EXCEPT ![k] = [Fresh EXCEPT !.at = "check", !.method = method, !.allow = autoStart]]
    /\ Only(k)

\* What ensureServiceRunning does once it has seen the service stopped
Stopped(k) == Put(k, "start")

CheckService(k) ==
    /\ call[k].at = "check"
    /\ CASE scm.entry = "none" -> Answer(k, FALSE)
         [] scm.entry # "none" /\ scm.state = "running" -> Put(k, "wait")
         [] scm.entry # "none" /\ scm.state = "stopped" -> Stopped(k)
         [] OTHER -> Put(k, "pending")
    /\ Only(k)

\* 5 seconds for a service that is starting or stopping
AwaitPending(k) ==
    /\ call[k].at = "pending"
    /\ CASE scm.state = "running" -> Put(k, "wait")
         [] scm.state = "stopped" -> Stopped(k)
         [] OTHER -> Answer(k, FALSE)
    /\ Only(k)

\* With the permission to start it; who has none is told so.
StartStopped(k) ==
    /\ call[k].at = "start"
    /\ \/ call[k].allow /\ CanLaunch /\ Launch /\ Put(k, "launched")
       \/ call[k].allow /\ scm.state # "stopped" /\ Put(k, "launched") /\ UNCHANGED <<scm, process>>
       \/ Answer(k, FALSE) /\ UNCHANGED <<scm, process>>
    /\ UNCHANGED <<pipe, command, autoStart>>

\* 10 seconds
AwaitStart(k) ==
    /\ call[k].at = "launched"
    /\ IF scm.state = "running" THEN Put(k, "wait") ELSE Answer(k, FALSE)
    /\ Only(k)

\* Mutant: every call is repeated
RepeatAny(k) == IF call[k].retry THEN call' = [call EXCEPT ![k].at = "check", ![k].retry = FALSE, ![k].peer = Nobody]
                ELSE Answer(k, FALSE)

\* Mutant: as long as it takes
RepeatStatus(k) == IF call[k].method = "status" THEN Put(k, "check") ELSE Answer(k, FALSE)

\* A connection that fails; a status call starts over, once.
ConnectionFails(k) ==
    IF call[k].method = "status" /\ call[k].retry
    THEN call' = [call EXCEPT ![k].at = "check", ![k].retry = FALSE, ![k].peer = Nobody]
    ELSE Answer(k, FALSE)

\* WaitNamedPipe, 5 seconds, and CreateFile: every instance may be busy.
OpenPipe(k) ==
    /\ call[k].at = "wait"
    /\ \/ pipe # Nobody /\ call' = [call EXCEPT ![k].at = "opened", ![k].peer = pipe]
       \/ ConnectionFails(k)
    /\ Only(k)

\* isRegisteredServicePipe
IsRegisteredServicePipe(p) == scm.state = "running" /\ scm.pid = p

Identify(k) ==
    /\ call[k].at = "opened"
    /\ IF IsRegisteredServicePipe(call[k].peer) THEN Put(k, "trusted") ELSE Answer(k, FALSE)
    /\ Only(k)

\* The pipe at whose other end the call is
Connected(k) == pipe = call[k].peer

\* A write that fails is not repeated.
Send(k) ==
    /\ call[k].at = "trusted"
    /\ IF Connected(k) THEN Put(k, "sent") ELSE Answer(k, FALSE)
    /\ Only(k)

\* The server's worker, which stop() waits for
Handle(k) ==
    /\ call[k].at = "sent" /\ Connected(k)
    /\ call' = [call EXCEPT ![k].at = "handled", ![k].runs = @ + 1]
    /\ Only(k)

\* The answer arrives, or the server drops the connection before it does, at
\* its capacity, in stop(), or as its process ends; without an answer the read is
\* a connection that fails.
ReadAnswer(k) ==
    /\ call[k].at = "handled" /\ Answer(k, TRUE)
    /\ Only(k)

ReadFails(k) ==
    /\ call[k].at \in {"sent", "handled"}
    /\ ConnectionFails(k)
    /\ Only(k)

\* An answer that is incomplete, or not one to this request, is an error even for
\* a status call.
ReadIncomplete(k) ==
    /\ call[k].at = "handled" /\ Answer(k, FALSE)
    /\ Only(k)

ClientStep(k) ==
    \/ CheckService(k) \/ AwaitPending(k) \/ StartStopped(k) \/ AwaitStart(k) \/ OpenPipe(k)
    \/ Identify(k) \/ Send(k) \/ ReadAnswer(k) \/ ReadFails(k) \/ ReadIncomplete(k)

ServiceStep == \/ \E p \in Pids : Process(p)
               \/ \E c \in Commands : Command(c)
               \/ Scm

Disturbance == ConsoleRuns \/ \E p \in Pids : Crash(p)

Next ==
    \/ ServiceStep /\ UNCHANGED <<call, autoStart>>
    \/ Disturbance /\ UNCHANGED <<call, autoStart>>
    \/ \E c \in Commands, name \in Names : Tray(c, name) \/ Administrator(c, name)
    \/ TrayRefused
    \/ \E k \in Calls, method \in {"status", "other"} : Call(k, method)
    \/ \E k \in Calls : ClientStep(k) \/ Handle(k)

Spec == Init /\ [][Next]_vars

\* Threads and processes run, the SCM acts on what is due; users, crashes and
\* the console promise nothing.  A running handler ends, see Controller.
FairSpec ==
    /\ Spec
    /\ \A k \in Calls : WF_vars(ClientStep(k)) /\ WF_vars(Handle(k))
    /\ \A c \in Commands : WF_vars(CommandStep(c) /\ UNCHANGED <<call, autoStart>>)
    /\ \A p \in Pids : WF_vars(Process(p) /\ UNCHANGED <<call, autoStart>>)
    /\ WF_vars(Scm /\ UNCHANGED <<call, autoStart>>)

-----------------------------------------------------------------------------
(* The properties *)

TypeOK ==
    /\ WindowsTypeOK
    /\ autoStart \in BOOLEAN
    /\ call \in [Calls -> [method : {"status", "other"}, allow : BOOLEAN, retry : BOOLEAN,
          peer : Pids \cup {Console, Nobody}, runs : 0..2,
          at : {"none", "check", "pending", "start", "launched", "wait", "opened", "trusted",
                "sent", "handled", "ok", "error"}]]

\* A request that changes something is handled at most once, whatever fails
\* between the two processes; the answer ok says it was (callBlocking repeats
\* status calls only).
AtMostOnce ==
    \A k \in Calls : /\ call[k].method = "other" => call[k].runs <= 1
                     /\ call[k].at = "ok" => call[k].runs >= 1

\* A request, with the token it may carry, is only ever sent to a process the
\* SCM started, though the pipe belongs to whoever opened its name first
\* (isRegisteredServicePipe comes before the write).
SentToTheService ==
    \A k \in Calls : call[k].at \in {"sent", "handled"} => call[k].peer \in Pids

\* Every call is answered: no chain of a stopping service, a retry, a start
\* and a lost connection leaves the window waiting (callBlocking).
CallsAnswered == \A k \in Calls : call[k].at # "none" ~> Answered(k)

\* A service that has ended with an error is started again until it runs, is
\* deleted or is out of launches, or could not create its stop event: then the
\* error may be lost and nothing starts it (configureRecovery's actions and
\* failure flag; serviceMain reads the event's error after a log call).
ComesBack ==
    (scm.entry = "present" /\ scm.recovery = "failure" /\ (scm.due \/ scm.state = "startPending"))
        ~> \/ scm.state \in {"running", "stopPending"}
           \/ scm.entry # "present" \/ scm.last = MaxLaunches
           \/ \E p \in Pids : process[p] = "eventless"

\* Once the tray's stop has stopped the service, and until the tray or an
\* administrator starts it, it stays stopped ("OpenNord service is stopped.
\* Use the tray icon to start it again.", ensureServiceRunning).
StoppedByUser == /\ ~autoStart /\ scm.state = "stopped" /\ ~scm.due
                 /\ \E c \in Commands : command[c].name = "stop" /\ command[c].at = "done"
                 /\ \A c \in Commands : command[c].name # "stop" => Ended(c)
StopSticks == [][StoppedByUser => scm'.state = "stopped" \/ command' # command]_vars
=============================================================================
