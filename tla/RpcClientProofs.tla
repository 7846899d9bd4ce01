--------------------------- MODULE RpcClientProofs ---------------------------
(***************************************************************************)
(* What TLAPS proves of RpcClient and WindowsService, for any number of     *)
(* calls, commands and processes and for all faults.                       *)
(***************************************************************************)
EXTENDS RpcClient, TLAPS

\* The processes the SCM knows nothing of
Apart == Past \cup {"unborn"}

\* What the SCM knows of the one process that lives, and who has the pipe
ScmInv ==
    /\ scm.state = "stopped" <=> scm.pid = 0
    /\ scm.state = "startPending" => process[scm.pid] \in {"starting", "eventless"}
    /\ scm.state = "running" => process[scm.pid] = "serving"
    /\ scm.state = "stopPending" => process[scm.pid] \in {"stopping", "closing"}
    /\ scm.pid <= scm.last
    /\ \A p \in Pids : /\ process[p] \notin Apart => scm.pid = p
                       /\ process[p] = "unborn" <=> p > scm.last
    /\ pipe \in Pids => process[pipe] \in {"serving", "stopping"}

AllPast(n) == \A p \in 1..n : process[p] \in Past

\* How far a command has come, and what it has seen on its way
Honest(r) ==
    /\ r.at \notin {"idle", "failed"} => r.name # "none"
    /\ r.at = "configure" => r.name = "install"
    /\ r.at = "delete" => r.name = "uninstall"
    /\ r.at \in {"query", "control", "waitStopped"} => r.name \in {"stop", "restart", "uninstall"}
    /\ r.at \in {"start", "waitRunning", "reopen"} => r.name # "uninstall"
    /\ r.at \in {"open", "query"} => r.found = 0
    /\ r.found <= scm.last /\ r.began <= scm.last
    /\ r.name = "uninstall" /\ r.at \in {"delete", "done"} => r.found = 0 \/ process[r.found] \in Past
    /\ r.name = "restart" /\ r.at \in {"reopen", "start", "waitRunning", "done"} => AllPast(r.began)
CommandInv == \A c \in Commands : Honest(command[c])

\* How often a request can have been handled by now: once in this round, and
\* once before it if this is the second.
CallInv ==
    \A k \in Calls :
        /\ call[k].method = "other" => call[k].retry
        /\ call[k].at \notin {"handled", "ok", "error"} =>
              call[k].runs = 0 \/ (~call[k].retry /\ call[k].runs = 1)
        /\ call[k].retry => call[k].runs <= 1
        /\ call[k].at \in {"handled", "ok"} => call[k].runs >= 1
        /\ call[k].at \in {"trusted", "sent", "handled"} => call[k].peer \in Pids

WindowsInv == WindowsTypeOK /\ ScmInv /\ CommandInv
IInv == TypeOK /\ WindowsInv /\ CallInv

USE WindowsAssumption, CallsAssumption
USE DEF Pids, States, Places, Past, Apart, Idle, Absent

LEMMA InitInv == Init => IInv
  <1> SUFFICES ASSUME Init PROVE IInv
    OBVIOUS
  <1> USE DEF Init, InitWindows, Installed
  <1>1. WindowsTypeOK
    <2>1. scm \in [entry : {"none", "present", "deleted"}, recovery : {"none", "crash", "failure"},
                   state : States, pid : 0..MaxLaunches, last : 0..MaxLaunches, due : BOOLEAN]
      <3>1. CASE scm = Absent
        BY <3>1
      <3>2. CASE scm = Installed
        BY <3>2
      <3> QED BY <3>1, <3>2
    <2>2. process \in [Pids -> Places]
      OBVIOUS
    <2>3. pipe \in Pids \cup {Console, Nobody}
      OBVIOUS
    <2> QED BY <2>1, <2>2, <2>3 DEF WindowsTypeOK
  <1>2. ScmInv
    BY DEF ScmInv
  <1>3. CommandInv
    BY DEF CommandInv, Honest
  <1>4. TypeOK /\ CallInv
    BY <1>1 DEF TypeOK, CallInv, Fresh
  <1> QED BY <1>1, <1>2, <1>3, <1>4 DEF IInv, WindowsInv

-----------------------------------------------------------------------------
(* The processes and the SCM *)

\* A process that is past stays so, and the SCM counts up: no command forgets
\* what it has seen.
CommandType == [name : Names \cup {"none"}, found : 0..MaxLaunches, began : 0..MaxLaunches,
                at : {"idle", "open", "configure", "start", "waitRunning", "query", "control",
                      "waitStopped", "reopen", "delete", "done", "failed"}]

Remembers == /\ scm'.last \in 0..MaxLaunches /\ scm.last <= scm'.last
             /\ \A p \in Pids : process[p] \in Past => process'[p] \in Past

LEMMA HonestKeeps ==
  ASSUME WindowsTypeOK, NEW r \in CommandType, Honest(r), Remembers
  PROVE  Honest(r)'
  BY DEF WindowsTypeOK, CommandType, Honest, AllPast, Remembers

LEMMA CommandKeeps ==
  ASSUME WindowsTypeOK, CommandInv, UNCHANGED command, Remembers
  PROVE  CommandInv'
  <1> SUFFICES ASSUME NEW c \in Commands PROVE Honest(command[c])'
    BY DEF CommandInv
  <1>1. command[c] \in CommandType /\ Honest(command[c])
    BY DEF WindowsTypeOK, CommandType, CommandInv
  <1>2. PICK r \in CommandType : r = command[c]
    BY <1>1
  <1>3. Honest(r)'
    BY <1>1, <1>2, HonestKeeps
  <1> QED BY <1>2, <1>3 DEF Honest

\* One command moves on.
LEMMA CommandMoves ==
  ASSUME WindowsTypeOK, CommandInv, Remembers, NEW c \in Commands, NEW r \in CommandType, Honest(r)',
         command' = [command EXCEPT ![c] = r]
  PROVE  command' \in [Commands -> CommandType] /\ CommandInv'
  <1>1. command' \in [Commands -> CommandType]
    BY DEF WindowsTypeOK, CommandType
  <1>2. SUFFICES ASSUME NEW d \in Commands PROVE Honest(command[d])'
    BY <1>1 DEF CommandInv
  <1>3. PICK q \in CommandType : q = command'[d]
    BY <1>1
  <1>4. CASE d = c
    <2>1. q = r
      BY <1>3, <1>4 DEF WindowsTypeOK
    <2> QED BY <1>3, <2>1 DEF Honest
  <1>5. CASE d # c
    <2>1. q = command[d]
      BY <1>3, <1>5 DEF WindowsTypeOK
    <2>2. Honest(q)
      BY <2>1 DEF CommandInv
    <2>3. Honest(q)'
      BY <2>2, HonestKeeps
    <2> QED BY <1>3, <2>3 DEF Honest
  <1> QED BY <1>4, <1>5

ScmType == [entry : {"none", "present", "deleted"}, recovery : {"none", "crash", "failure"},
            state : States, pid : 0..MaxLaunches, last : 0..MaxLaunches, due : BOOLEAN]

\* The process the SCM knows of is over, or a new one begins.
LEMMA ScmEnds ==
  ASSUME scm \in ScmType, NEW pid \in 0..MaxLaunches, NEW due \in BOOLEAN
  PROVE  [scm EXCEPT !.state = "stopped", !.pid = pid, !.due = due] \in ScmType
  BY Zenon DEF ScmType

LEMMA ScmBegins ==
  ASSUME scm \in ScmType, NEW pid \in 0..MaxLaunches
  PROVE  [scm EXCEPT !.state = "startPending", !.pid = pid, !.last = pid, !.due = FALSE] \in ScmType
  BY Zenon DEF ScmType

LEMMA LaunchTypes ==
  ASSUME WindowsTypeOK, CanLaunch, Launch
  PROVE  /\ scm.last + 1 \in Pids
         /\ scm' \in ScmType
         /\ process' \in [Pids -> Places]
  <1>1. scm.last + 1 \in Pids /\ scm.last + 1 \in 0..MaxLaunches /\ scm \in ScmType
    BY DEF CanLaunch, WindowsTypeOK, ScmType
  <1>2. scm' = [scm EXCEPT !.state = "startPending", !.pid = scm.last + 1, !.last = scm.last + 1, !.due = FALSE]
    BY DEF Launch
  <1>3. scm' \in ScmType
    BY <1>1, <1>2, ScmBegins, Zenon
  <1> QED BY <1>1, <1>3 DEF Launch, WindowsTypeOK

LEMMA EndTypes ==
  ASSUME WindowsTypeOK, NEW p \in Pids, scm.pid = p, NEW wrong \in BOOLEAN, StateAfter(p, wrong)
  PROVE  /\ scm' \in ScmType
         /\ scm'.state = "stopped" /\ scm'.pid = 0 /\ scm'.last = scm.last
  <1>1. scm \in ScmType /\ 0 \in 0..MaxLaunches
    BY DEF WindowsTypeOK, ScmType
  <1>2. scm' = [scm EXCEPT !.state = "stopped", !.pid = 0, !.due = wrong]
    BY DEF StateAfter
  <1>3. scm' \in ScmType
    BY <1>1, <1>2, ScmEnds, Zenon
  <1>4. scm'.state = "stopped" /\ scm'.pid = 0 /\ scm'.last = scm.last
    BY <1>1, <1>2, Zenon DEF ScmType
  <1> QED BY <1>3, <1>4

\* A launch starts the next process, when no other lives.
LEMMA LaunchKeeps ==
  ASSUME WindowsInv, CanLaunch, Launch, UNCHANGED pipe
  PROVE  ScmInv' /\ Remembers
  <1> USE DEF WindowsInv
  <1> DEFINE p == scm.last + 1
  <1>1. /\ p \in Pids /\ process' = [process EXCEPT ![p] = "starting"]
        /\ scm' = [scm EXCEPT !.state = "startPending", !.pid = p, !.last = p, !.due = FALSE]
        /\ UNCHANGED pipe /\ scm.state = "stopped"
    BY DEF CanLaunch, Launch, WindowsTypeOK
  <1>2. ScmInv'
    BY <1>1 DEF WindowsTypeOK, ScmInv
  <1>3. Remembers
    BY <1>1 DEF WindowsTypeOK, ScmInv, Remembers
  <1> QED BY <1>2, <1>3

\* The process the SCM knows of ends as far as the SCM can tell.
LEMMA EndKeeps ==
  ASSUME WindowsInv, NEW p \in Pids, NEW at \in Past, NEW due \in BOOLEAN, StateAfter(p, due),
         scm.pid = p, process' = [process EXCEPT ![p] = at],
         pipe' \in {pipe, Nobody}, pipe' # p, UNCHANGED command
  PROVE  WindowsInv'
  <1> USE DEF WindowsInv
  <1>1. scm' \in ScmType /\ scm'.state = "stopped" /\ scm'.pid = 0 /\ scm'.last = scm.last
    BY EndTypes
  <1>2. WindowsTypeOK'
    BY <1>1 DEF WindowsTypeOK, ScmType
  <1>3. ScmInv'
    BY <1>1 DEF WindowsTypeOK, ScmInv
  <1>4. CommandInv'
    BY <1>1, CommandKeeps DEF Remembers, WindowsTypeOK, ScmInv
  <1> QED BY <1>2, <1>3, <1>4

\* A process the SCM knows nothing of goes.
LEMMA GoesKeeps ==
  ASSUME WindowsInv, NEW p \in Pids, process[p] = "leaving",
         process' = [process EXCEPT ![p] = "gone"], FreePipe(p), UNCHANGED <<scm, command>>
  PROVE  WindowsInv'
  <1> USE DEF WindowsInv
  <1>1. UNCHANGED pipe
    BY DEF FreePipe, ScmInv
  <1>2. WindowsTypeOK'
    BY <1>1 DEF WindowsTypeOK
  <1>3. ScmInv'
    BY <1>1 DEF WindowsTypeOK, ScmInv
  <1>4. CommandInv'
    BY <1>1, CommandKeeps DEF Remembers, WindowsTypeOK, ScmInv
  <1> QED BY <1>2, <1>3, <1>4

LEMMA ScmStep ==
  ASSUME WindowsInv, Scm \/ Disturbance \/ \E p \in Pids : Process(p)
  PROVE  WindowsInv'
  <1> USE DEF WindowsInv
  <1>1. CASE Recover
    <2>1. CanLaunch /\ Launch /\ UNCHANGED <<pipe, command>>
      BY <1>1 DEF Recover
    <2>2. WindowsTypeOK'
      BY <2>1, LaunchTypes DEF WindowsTypeOK, ScmType
    <2>3. ScmInv' /\ Remembers
      BY <2>1, LaunchKeeps
    <2>4. CommandInv'
      BY <2>1, <2>3, CommandKeeps
    <2> QED BY <2>2, <2>3, <2>4
  <1>2. CASE Purge
    <2>1. WindowsTypeOK'
      BY <1>2 DEF Purge, WindowsTypeOK, ScmInv
    <2>2. ScmInv'
      BY <1>2 DEF Purge, WindowsTypeOK, ScmInv
    <2>3. CommandInv'
      BY <1>2, CommandKeeps DEF Remembers, Purge, WindowsTypeOK, ScmInv
    <2> QED BY <2>1, <2>2, <2>3
  <1>3. CASE ConsoleRuns
    <2>1. WindowsTypeOK'
      BY <1>3 DEF ConsoleRuns, WindowsTypeOK, ScmInv
    <2>2. ScmInv'
      BY <1>3 DEF ConsoleRuns, WindowsTypeOK, ScmInv
    <2>3. CommandInv'
      BY <1>3, CommandKeeps DEF Remembers, ConsoleRuns, WindowsTypeOK, ScmInv
    <2> QED BY <2>1, <2>2, <2>3
  <1>4. ASSUME NEW p \in Pids, Crash(p) PROVE WindowsInv'
    <2>1. /\ process' = [process EXCEPT ![p] = "gone"] /\ UNCHANGED command
          /\ StateAfter(p, scm.recovery # "none") /\ FreePipe(p)
      BY <1>4, Zenon DEF Crash
    <2>2. CASE process[p] = "leaving"
      <3>1. scm.pid # p
        BY <2>2 DEF WindowsTypeOK, ScmInv
      <3>2. UNCHANGED scm
        BY <2>1, <3>1 DEF StateAfter
      <3> QED BY <2>1, <2>2, <3>2, GoesKeeps
    <2>3. CASE process[p] # "leaving"
      <3>1. scm.pid = p
        BY <1>4, <2>3 DEF Crash, WindowsTypeOK, ScmInv
      <3>2. pipe' \in {pipe, Nobody} /\ pipe' # p
        BY <2>1 DEF FreePipe
      <3>3. (scm.recovery # "none") \in BOOLEAN
        OBVIOUS
      <3> QED BY <2>1, <3>1, <3>2, <3>3, EndKeeps
    <2> QED BY <2>2, <2>3
  <1>5. ASSUME NEW p \in Pids, ServiceMain(p) PROVE WindowsInv'
    <2>0. process[p] = "starting" /\ scm.pid = p /\ scm.state = "startPending" /\ UNCHANGED command
      BY <1>5 DEF ServiceMain, WindowsTypeOK, ScmInv
    <2>1. CASE /\ pipe = Nobody /\ pipe' = p
               /\ process' = [process EXCEPT ![p] = "serving"] /\ SetState("running")
      <3>1. scm' = [scm EXCEPT !.state = "running"]
        BY <2>1 DEF SetState
      <3>2. WindowsTypeOK'
        BY <2>0, <2>1, <3>1 DEF WindowsTypeOK
      <3>3. ScmInv'
        BY <2>0, <2>1, <3>1 DEF WindowsTypeOK, ScmInv
      <3>4. CommandInv'
        BY <2>0, <2>1, <3>1, CommandKeeps DEF Remembers, WindowsTypeOK, ScmInv
      <3> QED BY <3>2, <3>3, <3>4
    <2>2. CASE /\ process' = [process EXCEPT ![p] = "leaving"]
               /\ StateAfter(p, EndsWithError) /\ UNCHANGED pipe
      <3>1. EndsWithError \in BOOLEAN /\ pipe' # p
        BY <2>0, <2>2 DEF EndsWithError, ScmInv
      <3> QED BY <2>0, <2>2, <3>1, EndKeeps
    <2>3. CASE process' = [process EXCEPT ![p] = "eventless"] /\ UNCHANGED <<scm, pipe>>
      <3>1. WindowsTypeOK'
        BY <2>0, <2>3 DEF WindowsTypeOK
      <3>2. ScmInv'
        BY <2>0, <2>3 DEF WindowsTypeOK, ScmInv
      <3>3. CommandInv'
        BY <2>0, <2>3, CommandKeeps DEF Remembers, WindowsTypeOK
      <3> QED BY <3>1, <3>2, <3>3
    <2> QED BY <1>5, <2>1, <2>2, <2>3, Zenon DEF ServiceMain
  <1>6. ASSUME NEW p \in Pids, StopServer(p) /\ UNCHANGED command PROVE WindowsInv'
    <2>1. WindowsTypeOK'
      BY <1>6 DEF StopServer, FreePipe, WindowsTypeOK, ScmInv
    <2>2. ScmInv'
      BY <1>6 DEF StopServer, FreePipe, WindowsTypeOK, ScmInv
    <2>3. CommandInv'
      BY <1>6, CommandKeeps DEF Remembers, StopServer, FreePipe, WindowsTypeOK, ScmInv
    <2> QED BY <2>1, <2>2, <2>3
  <1>7. ASSUME NEW p \in Pids, StopController(p) \/ StopEventless(p), UNCHANGED command
        PROVE  WindowsInv'
    <2>1. PICK due \in BOOLEAN : StateAfter(p, due)
      <3>1. EndsWithError \in BOOLEAN
        BY DEF EndsWithError
      <3> QED BY <1>7, <3>1, Zenon DEF StopController, StopEventless
    <2>2. /\ process' = [process EXCEPT ![p] = "leaving"] /\ UNCHANGED pipe
          /\ process[p] \in {"closing", "eventless"}
      BY <1>7, Zenon DEF StopController, StopEventless
    <2>3. scm.pid = p /\ pipe' # p
      BY <2>2 DEF WindowsTypeOK, ScmInv
    <2> QED BY <1>7, <2>1, <2>2, <2>3, EndKeeps
  <1>8. ASSUME NEW p \in Pids, Exit(p), UNCHANGED command PROVE WindowsInv'
    BY <1>8, GoesKeeps DEF Exit
  <1> QED BY <1>1, <1>2, <1>3, <1>4, <1>5, <1>6, <1>7, <1>8 DEF Scm, Disturbance, Process, Serve

-----------------------------------------------------------------------------
(* The commands *)

LEMMA StoppedAllPast ==
  ASSUME WindowsTypeOK, ScmInv, scm.state = "stopped"
  PROVE  \A p \in 1..scm.last : p \in Pids /\ process[p] \in Past
  BY DEF WindowsTypeOK, ScmInv

\* Where a command goes by itself, and when it may
LEMMA CommandGoes ==
  ASSUME WindowsTypeOK, CommandInv, Remembers, NEW c \in Commands, NEW at, Go(c, at),
         \A r \in CommandType : r = [command[c] EXCEPT !.at = at] => Honest(r)',
         [command[c] EXCEPT !.at = at] \in CommandType
  PROVE  command' \in [Commands -> CommandType] /\ CommandInv'
  <1>1. PICK r \in CommandType : r = [command[c] EXCEPT !.at = at]
    OBVIOUS
  <1>2. command' = [command EXCEPT ![c] = r]
    BY <1>1 DEF Go, WindowsTypeOK
  <1> QED BY <1>1, <1>2, CommandMoves

LEMMA CommandFails ==
  ASSUME WindowsTypeOK, CommandInv, Remembers, NEW c \in Commands, Return(c, FALSE)
  PROVE  command' \in [Commands -> CommandType] /\ CommandInv'
  <1>0. [Idle EXCEPT !.at = "failed"] \in CommandType
    BY DEF CommandType
  <1>1. PICK r \in CommandType : r = [Idle EXCEPT !.at = "failed"]
    BY <1>0
  <1>2. command' = [command EXCEPT ![c] = r]
    BY <1>1 DEF Return
  <1>3. Honest(r)'
    BY <1>1 DEF Honest, Remembers
  <1> QED BY <1>1, <1>2, <1>3, CommandMoves
LEMMA AfterStopKeeps ==
  ASSUME WindowsInv, Remembers, NEW c \in Commands, command[c].at \in {"query", "waitStopped"},
         scm.state = "stopped", AfterStop(c), UNCHANGED <<scm, process>>
  PROVE  command' \in [Commands -> CommandType] /\ CommandInv'
  <1> USE DEF WindowsInv
  <1>1. command[c] \in CommandType /\ Honest(command[c])
    BY DEF WindowsTypeOK, CommandType, CommandInv
  <1>2. command[c].name \in {"stop", "restart", "uninstall"}
    BY <1>1 DEF Honest
  <1>3. CASE command[c].name = "stop"
    <2>1. Go(c, "done")
      BY <1>3 DEF AfterStop, Return
    <2>2. [command[c] EXCEPT !.at = "done"] \in CommandType
      BY <1>1 DEF CommandType
    <2>3. ASSUME NEW r \in CommandType, r = [command[c] EXCEPT !.at = "done"] PROVE Honest(r)'
      BY <1>1, <1>3, <2>3 DEF CommandType, Honest
    <2> QED BY <2>1, <2>2, <2>3, CommandGoes
  <1>4. CASE command[c].name = "restart"
    <2>1. Go(c, "reopen")
      BY <1>4 DEF AfterStop, Return
    <2>2. [command[c] EXCEPT !.at = "reopen"] \in CommandType
      BY <1>1 DEF CommandType
    <2>3. AllPast(command[c].began)
      BY <1>1, StoppedAllPast DEF WindowsTypeOK, CommandType, Honest, AllPast
    <2>4. ASSUME NEW r \in CommandType, r = [command[c] EXCEPT !.at = "reopen"] PROVE Honest(r)'
      BY <1>1, <1>4, <2>3, <2>4 DEF CommandType, Honest, AllPast
    <2> QED BY <2>1, <2>2, <2>4, CommandGoes
  <1>5. CASE command[c].name = "uninstall"
    <2>1. Go(c, "delete")
      BY <1>5 DEF AfterStop, Return
    <2>2. [command[c] EXCEPT !.at = "delete"] \in CommandType
      BY <1>1 DEF CommandType
    <2>3. command[c].found = 0 \/ process[command[c].found] \in Past
      BY <1>1, StoppedAllPast DEF WindowsTypeOK, CommandType, Honest
    <2>4. ASSUME NEW r \in CommandType, r = [command[c] EXCEPT !.at = "delete"] PROVE Honest(r)'
      BY <1>1, <1>5, <2>3, <2>4 DEF CommandType, Honest
    <2> QED BY <2>1, <2>2, <2>4, CommandGoes
  <1> QED BY <1>2, <1>3, <1>4, <1>5

\* The steps that only read the SCM
LEMMA Reads ==
  ASSUME WindowsInv, UNCHANGED <<scm, process, pipe>>,
         command' \in [Commands -> CommandType], CommandInv'
  PROVE  WindowsInv'
  BY DEF WindowsInv, WindowsTypeOK, ScmInv, CommandType
LEMMA BeginsTypes ==
  ASSUME NEW old \in CommandType, NEW name \in Names \cup {"none"}, NEW began \in 0..MaxLaunches
  PROVE  [old EXCEPT !.name = name, !.at = "open", !.began = began] \in CommandType
  BY Zenon DEF CommandType

\* A command begins.
LEMMA RunKeeps ==
  ASSUME WindowsInv, NEW c \in Commands, NEW name \in Names, Run(c, name), UNCHANGED <<scm, process, pipe>>
  PROVE  WindowsInv'
  <1> USE DEF WindowsInv
  <1>1. Idle \in CommandType
    BY DEF CommandType
  <1>2. PICK r \in CommandType : r = [Idle EXCEPT !.name = name, !.at = "open", !.began = scm.last]
    <2>1. name \in Names \cup {"none"} /\ scm.last \in 0..MaxLaunches
      BY DEF WindowsTypeOK
    <2> QED BY <1>1, <2>1, BeginsTypes, Zenon
  <1>3. command' = [command EXCEPT ![c] = r]
    BY <1>2, Zenon DEF Run
  <1>4. r.name = name /\ r.name # "none" /\ r.at = "open" /\ r.found = 0 /\ r.began = scm.last
    BY <1>2
  <1>5. Remembers /\ Honest(r)'
    BY <1>4 DEF WindowsTypeOK, Remembers, Honest
  <1> QED BY <1>3, <1>5, CommandMoves, Reads

LEMMA ReadingSteps ==
  ASSUME WindowsInv, NEW c \in Commands,
         Open(c) \/ WaitRunning(c) \/ Query(c) \/ WaitStopped(c) \/ Reopen(c) \/ ScmFails(c)
  PROVE  WindowsInv'
  <1> USE DEF WindowsInv
  <1>1. UNCHANGED <<scm, process, pipe>>
    BY DEF Open, WaitRunning, Query, WaitStopped, Reopen, ScmFails
  <1>2. Remembers
    BY <1>1 DEF WindowsTypeOK, Remembers
  <1>3. command[c] \in CommandType /\ Honest(command[c])
    BY DEF WindowsTypeOK, CommandType, CommandInv
  <1>4. CASE Return(c, FALSE)
    BY <1>1, <1>2, <1>4, CommandFails, Reads
  <1>5. CASE Open(c) /\ ~Return(c, FALSE)
    <2>1. PICK at \in {"start", "query", "done"} :
            /\ Go(c, at)
            /\ at = "start" => command[c].name = "start"
            /\ at = "query" => command[c].name \in {"stop", "restart", "uninstall"}
            /\ at = "done" => command[c].name = "uninstall"
      <3>1. command[c].name \in {"uninstall", "start", "stop", "restart"}
        BY <1>3, <1>5 DEF Open, CommandType, Honest
      <3> QED BY <1>5, <3>1 DEF Open, Return
    <2>2. [command[c] EXCEPT !.at = at] \in CommandType
      BY <1>3 DEF CommandType
    <2>3. command[c].at = "open"
      BY <1>5 DEF Open
    <2>4. ASSUME NEW r \in CommandType, r = [command[c] EXCEPT !.at = at] PROVE Honest(r)'
      BY <1>1, <1>3, <2>1, <2>3, <2>4 DEF CommandType, Honest, AllPast
    <2> QED BY <1>1, <1>2, <2>1, <2>2, <2>4, CommandGoes, Reads
  <1>6. CASE WaitRunning(c) /\ ~Return(c, FALSE)
    <2>1. command[c].at = "waitRunning" /\ Go(c, "done")
      BY <1>6 DEF WaitRunning, Return
    <2>2. [command[c] EXCEPT !.at = "done"] \in CommandType
      BY <1>3 DEF CommandType
    <2>4. ASSUME NEW r \in CommandType, r = [command[c] EXCEPT !.at = "done"] PROVE Honest(r)'
      BY <1>1, <1>3, <2>1, <2>4 DEF CommandType, Honest, AllPast
    <2> QED BY <1>1, <1>2, <2>1, <2>2, <2>4, CommandGoes, Reads
  <1>7. CASE Query(c) \/ WaitStopped(c)
    <2>1. CASE scm.state = "stopped" /\ AfterStop(c)
      BY <1>1, <1>2, <1>7, <2>1, AfterStopKeeps, Reads DEF Query, WaitStopped
    <2>2. CASE Query(c) /\ scm.state # "stopped"
      <3>1. PICK at \in {"waitStopped", "control"} : command' = [command EXCEPT ![c].at = at, ![c].found = scm.pid]
        BY <2>2 DEF Query
      <3>2. [command[c] EXCEPT !.at = at, !.found = scm.pid] \in CommandType
        BY <1>3 DEF CommandType, WindowsTypeOK
      <3>3. PICK r \in CommandType : r = [command[c] EXCEPT !.at = at, !.found = scm.pid]
        BY <3>2
      <3>4. command' = [command EXCEPT ![c] = r]
        BY <3>1, <3>3 DEF WindowsTypeOK
      <3>5. /\ r.at = at /\ r.found = scm.pid /\ r.name = command[c].name /\ r.began = command[c].began
            /\ command[c].at = "query"
        BY <1>3, <2>2, <3>3 DEF CommandType, Query
      <3>6. Honest(r)'
        BY <1>1, <1>3, <3>5 DEF Honest, ScmInv
      <3> QED BY <1>1, <1>2, <3>4, <3>6, CommandMoves, Reads
    <2> QED BY <1>4, <1>7, <2>1, <2>2 DEF Query, WaitStopped
  <1>8. CASE Reopen(c) /\ ~Return(c, FALSE)
    <2>1. command[c].at = "reopen" /\ Go(c, "start")
      BY <1>8 DEF Reopen
    <2>2. [command[c] EXCEPT !.at = "start"] \in CommandType
      BY <1>3 DEF CommandType
    <2>4. ASSUME NEW r \in CommandType, r = [command[c] EXCEPT !.at = "start"] PROVE Honest(r)'
      BY <1>1, <1>3, <2>1, <2>4 DEF CommandType, Honest, AllPast
    <2> QED BY <1>1, <1>2, <2>1, <2>2, <2>4, CommandGoes, Reads
  <1> QED BY <1>4, <1>5, <1>6, <1>7, <1>8 DEF ScmFails
\* The steps that change what the SCM knows
LEMMA InstallKeeps ==
  ASSUME WindowsInv, NEW c \in Commands, Install(c)
  PROVE  WindowsInv'
  <1> USE DEF WindowsInv
  <1>1. command[c] \in CommandType /\ Honest(command[c])
    BY DEF WindowsTypeOK, CommandType, CommandInv
  <1>2. CASE scm.entry = "deleted"
    <2>1. Remembers
      BY <1>2 DEF Install, WindowsTypeOK, Remembers
    <2> QED BY <1>2, <2>1, CommandFails, Reads DEF Install
  <1>3. CASE scm.entry # "deleted"
    <2>1. /\ command[c].at = "open" /\ command[c].name = "install" /\ Go(c, "configure")
          /\ scm' = [scm EXCEPT !.entry = "present"] /\ UNCHANGED <<process, pipe>>
      BY <1>3 DEF Install
    <2>2. Remembers
      BY <2>1 DEF WindowsTypeOK, Remembers
    <2>3. [command[c] EXCEPT !.at = "configure"] \in CommandType
      BY <1>1 DEF CommandType
    <2>4. scm'.last = scm.last
      BY <2>1 DEF WindowsTypeOK
    <2>5. ASSUME NEW r \in CommandType, r = [command[c] EXCEPT !.at = "configure"] PROVE Honest(r)'
      BY <1>1, <2>1, <2>4, <2>5 DEF CommandType, Honest
    <2>6. command' \in [Commands -> CommandType] /\ CommandInv'
      BY <2>1, <2>2, <2>3, <2>5, CommandGoes
    <2>7. WindowsTypeOK'
      BY <2>1, <2>6 DEF WindowsTypeOK, CommandType
    <2>8. ScmInv'
      BY <2>1 DEF WindowsTypeOK, ScmInv
    <2> QED BY <2>6, <2>7, <2>8
  <1> QED BY <1>2, <1>3

LEMMA ConfigureKeeps ==
  ASSUME WindowsInv, NEW c \in Commands, ConfigureRecovery(c)
  PROVE  WindowsInv'
  <1> USE DEF WindowsInv
  <1>1. command[c] \in CommandType /\ Honest(command[c])
    BY DEF WindowsTypeOK, CommandType, CommandInv
  <1>2. PICK recovery \in {"none", "crash", "failure"} : scm' = [scm EXCEPT !.recovery = recovery]
    BY DEF ConfigureRecovery, RecoveryAfter, WindowsTypeOK
  <1>3. command[c].at = "configure" /\ Go(c, "start") /\ UNCHANGED <<process, pipe>>
    BY DEF ConfigureRecovery
  <1>4. Remembers
    BY <1>2, <1>3 DEF WindowsTypeOK, Remembers
  <1>5. [command[c] EXCEPT !.at = "start"] \in CommandType
    BY <1>1 DEF CommandType
  <1>6. scm'.last = scm.last
    BY <1>2 DEF WindowsTypeOK
  <1>7. ASSUME NEW r \in CommandType, r = [command[c] EXCEPT !.at = "start"] PROVE Honest(r)'
    BY <1>1, <1>3, <1>6, <1>7 DEF CommandType, Honest
  <1>8. command' \in [Commands -> CommandType] /\ CommandInv'
    BY <1>3, <1>4, <1>5, <1>7, CommandGoes
  <1>9. WindowsTypeOK'
    BY <1>2, <1>3, <1>8 DEF WindowsTypeOK, CommandType
  <1>10. ScmInv'
    BY <1>2, <1>3 DEF WindowsTypeOK, ScmInv
  <1> QED BY <1>8, <1>9, <1>10

LEMMA DeleteKeeps ==
  ASSUME WindowsInv, NEW c \in Commands, Delete(c)
  PROVE  WindowsInv'
  <1> USE DEF WindowsInv
  <1>1. command[c] \in CommandType /\ Honest(command[c])
    BY DEF WindowsTypeOK, CommandType, CommandInv
  <1>2. /\ command[c].at = "delete" /\ Go(c, "done") /\ UNCHANGED <<process, pipe>>
        /\ scm' = [scm EXCEPT !.entry = "deleted", !.due = FALSE]
    BY DEF Delete, Return
  <1>3. scm'.last = scm.last /\ scm'.state = scm.state /\ scm'.pid = scm.pid /\ scm' \in ScmType
    <2>1. scm \in ScmType
      BY DEF WindowsTypeOK, ScmType
    <2> QED BY <1>2, <2>1 DEF ScmType
  <1>4. Remembers
    BY <1>2, <1>3 DEF WindowsTypeOK, Remembers
  <1>5. [command[c] EXCEPT !.at = "done"] \in CommandType
    BY <1>1 DEF CommandType
  <1>6. command[c].name # "restart"
    BY <1>1, <1>2 DEF Honest
  <1>7. ASSUME NEW r \in CommandType, r = [command[c] EXCEPT !.at = "done"] PROVE Honest(r)'
    BY <1>1, <1>2, <1>3, <1>6, <1>7 DEF CommandType, Honest
  <1>8. command' \in [Commands -> CommandType] /\ CommandInv'
    BY <1>2, <1>4, <1>5, <1>7, CommandGoes
  <1>9. WindowsTypeOK'
    BY <1>2, <1>3, <1>8 DEF WindowsTypeOK, CommandType, ScmType
  <1>10. ScmInv'
    BY <1>2, <1>3 DEF WindowsTypeOK, ScmInv
  <1> QED BY <1>8, <1>9, <1>10

LEMMA StartServiceKeeps ==
  ASSUME WindowsInv, NEW c \in Commands, StartService(c)
  PROVE  WindowsInv'
  <1> USE DEF WindowsInv
  <1>1. command[c] \in CommandType /\ Honest(command[c]) /\ command[c].at = "start" /\ UNCHANGED pipe
    BY DEF WindowsTypeOK, CommandType, CommandInv, StartService
  <1>2. [command[c] EXCEPT !.at = "waitRunning"] \in CommandType
    BY <1>1 DEF CommandType
  <1>3. ASSUME Remembers, NEW r \in CommandType, r = [command[c] EXCEPT !.at = "waitRunning"] PROVE Honest(r)'
    <2>1. PICK old \in CommandType : old = command[c]
      BY <1>1
    <2>2. Honest(old)' /\ old.at = "start"
      BY <1>1, <1>3, <2>1, HonestKeeps
    <2>3. r.at = "waitRunning" /\ r.name = old.name /\ r.found = old.found /\ r.began = old.began
      BY <1>3, <2>1 DEF CommandType
    <2> QED BY <2>2, <2>3 DEF Honest
  <1>4. CASE CanLaunch
    <2>1. Launch /\ Go(c, "waitRunning")
      BY <1>4 DEF StartService
    <2>2. ScmInv' /\ Remembers
      BY <1>1, <1>4, <2>1, LaunchKeeps
    <2>3. command' \in [Commands -> CommandType] /\ CommandInv'
      BY <1>2, <1>3, <2>1, <2>2, CommandGoes
    <2>4. WindowsTypeOK'
      BY <1>1, <1>4, <2>1, <2>3, LaunchTypes DEF WindowsTypeOK, ScmType, CommandType
    <2> QED BY <2>2, <2>3, <2>4
  <1>5. CASE ~CanLaunch
    <2>1. UNCHANGED <<scm, process, pipe>> /\ (Go(c, "waitRunning") \/ Return(c, FALSE))
      BY <1>1, <1>5 DEF StartService
    <2>2. Remembers
      BY <2>1 DEF WindowsTypeOK, Remembers
    <2>3. command' \in [Commands -> CommandType] /\ CommandInv'
      BY <1>2, <1>3, <2>1, <2>2, CommandGoes, CommandFails
    <2> QED BY <2>1, <2>3, Reads
  <1> QED BY <1>4, <1>5

LEMMA ControlKeeps ==
  ASSUME WindowsInv, NEW c \in Commands, ControlStop(c)
  PROVE  WindowsInv'
  <1> USE DEF WindowsInv
  <1>1. command[c] \in CommandType /\ Honest(command[c]) /\ command[c].at = "control" /\ UNCHANGED pipe
    BY DEF WindowsTypeOK, CommandType, CommandInv, ControlStop
  <1>2. [command[c] EXCEPT !.at = "waitStopped"] \in CommandType
    BY <1>1 DEF CommandType
  <1>3. ASSUME scm'.last = scm.last, NEW r \in CommandType, r = [command[c] EXCEPT !.at = "waitStopped"]
        PROVE  Honest(r)'
    BY <1>1, <1>3 DEF CommandType, Honest
  <1>4. CASE scm.state = "running"
    <2>1. /\ scm' = [scm EXCEPT !.state = "stopPending"] /\ process' = [process EXCEPT ![scm.pid] = "stopping"]
          /\ scm.pid \in Pids /\ process[scm.pid] = "serving"
      BY <1>4 DEF ControlStop, ControlHandler, SetState, WindowsTypeOK, ScmInv
    <2>2. Remembers /\ scm'.last = scm.last
      BY <2>1 DEF WindowsTypeOK, Remembers
    <2>3. Go(c, "waitStopped")
      BY <1>4 DEF ControlStop
    <2>4. command' \in [Commands -> CommandType] /\ CommandInv'
      BY <1>2, <1>3, <2>2, <2>3, CommandGoes
    <2>5. WindowsTypeOK'
      BY <1>1, <2>1, <2>4 DEF WindowsTypeOK, CommandType
    <2>6. ScmInv'
      BY <1>1, <2>1 DEF WindowsTypeOK, ScmInv
    <2> QED BY <2>4, <2>5, <2>6
  <1>5. CASE scm.state # "running"
    <2>1. UNCHANGED <<scm, process, pipe>> /\ (Go(c, "waitStopped") \/ Return(c, FALSE))
      BY <1>1, <1>5 DEF ControlStop
    <2>2. Remembers
      BY <2>1 DEF WindowsTypeOK, Remembers
    <2>3. command' \in [Commands -> CommandType] /\ CommandInv'
      BY <1>2, <1>3, <2>1, <2>2, CommandGoes, CommandFails
    <2> QED BY <2>1, <2>3, Reads
  <1> QED BY <1>4, <1>5

LEMMA CommandKeepsAll ==
  ASSUME WindowsInv, NEW c \in Commands, Command(c)
  PROVE  WindowsInv'
  BY InstallKeeps, ConfigureKeeps, DeleteKeeps, StartServiceKeeps, ControlKeeps, ReadingSteps
     DEF Command, CommandStep
-----------------------------------------------------------------------------
(* The calls *)

CallType == [method : {"status", "other"}, allow : BOOLEAN, retry : BOOLEAN,
             peer : Pids \cup {Console, Nobody}, runs : 0..2,
             at : {"none", "check", "pending", "start", "launched", "wait", "opened", "trusted",
                   "sent", "handled", "ok", "error"}]

\* What CallInv says of one call
Once(r) ==
    /\ r.method = "other" => r.retry
    /\ r.at \notin {"handled", "ok", "error"} => r.runs = 0 \/ (~r.retry /\ r.runs = 1)
    /\ r.retry => r.runs <= 1
    /\ r.at \in {"handled", "ok"} => r.runs >= 1
    /\ r.at \in {"trusted", "sent", "handled"} => r.peer \in Pids

\* One call moves on.
LEMMA CallMoves ==
  ASSUME call \in [Calls -> CallType], CallInv, NEW k \in Calls, NEW r \in CallType, Once(r),
         call' = [call EXCEPT ![k] = r]
  PROVE  call' \in [Calls -> CallType] /\ CallInv'
  <1>1. call' \in [Calls -> CallType]
    BY DEF CallType
  <1>2. \A l \in Calls : Once(call'[l])
    <2>1. ASSUME NEW l \in Calls, l # k PROVE Once(call'[l])
      <3>1. call'[l] = call[l]
        BY <2>1 DEF CallType
      <3>2. Once(call[l])
        BY DEF CallInv, Once
      <3> QED BY <3>1, <3>2
    <2>2. call'[k] = r
      OBVIOUS
    <2> QED BY <2>1, <2>2
  <1> QED BY <1>1, <1>2 DEF CallInv, Once

\* The steps that only say where the call is next
LEMMA PutKeeps ==
  ASSUME call \in [Calls -> CallType], CallInv, NEW k \in Calls,
         NEW at \in {"check", "pending", "start", "launched", "wait", "sent", "trusted"}, Put(k, at),
         call[k].at \notin {"handled", "ok", "error"},
         at \in {"sent", "trusted"} => call[k].peer \in Pids
  PROVE  call' \in [Calls -> CallType] /\ CallInv'
  <1>1. call[k] \in CallType /\ Once(call[k])
    BY DEF CallInv, Once
  <1>2. [call[k] EXCEPT !.at = at] \in CallType
    BY <1>1, Zenon DEF CallType
  <1>3. PICK r \in CallType : r = [call[k] EXCEPT !.at = at]
    BY <1>2
  <1>4. call' = [call EXCEPT ![k] = r]
    BY <1>3 DEF Put
  <1>5. /\ r.at = at /\ r.method = call[k].method /\ r.retry = call[k].retry
        /\ r.runs = call[k].runs /\ r.peer = call[k].peer
    BY <1>1, <1>3, Zenon DEF CallType
  <1>6. Once(r)
    BY <1>1, <1>5 DEF Once
  <1> QED BY <1>4, <1>6, CallMoves

LEMMA AnswerKeeps ==
  ASSUME call \in [Calls -> CallType], CallInv, NEW k \in Calls, NEW ok \in BOOLEAN, Answer(k, ok),
         ok => call[k].at = "handled"
  PROVE  call' \in [Calls -> CallType] /\ CallInv'
  <1>1. call[k] \in CallType /\ Once(call[k])
    BY DEF CallInv, Once
  <1>2. PICK at \in {"ok", "error"} : at = IF ok THEN "ok" ELSE "error"
    OBVIOUS
  <1>3. [call[k] EXCEPT !.at = at, !.peer = Nobody] \in CallType
    BY <1>1, Zenon DEF CallType
  <1>4. PICK r \in CallType : r = [call[k] EXCEPT !.at = at, !.peer = Nobody]
    BY <1>3
  <1>5. call' = [call EXCEPT ![k] = r]
    BY <1>2, <1>4 DEF Answer
  <1>6. r.at = at /\ r.method = call[k].method /\ r.retry = call[k].retry /\ r.runs = call[k].runs
    BY <1>1, <1>4, Zenon DEF CallType
  <1>7. Once(r)
    BY <1>1, <1>2, <1>6 DEF Once
  <1> QED BY <1>5, <1>7, CallMoves
\* The second round, of a status call only
LEMMA FailKeeps ==
  ASSUME call \in [Calls -> CallType], CallInv, NEW k \in Calls, ConnectionFails(k)
  PROVE  call' \in [Calls -> CallType] /\ CallInv'
  <1>1. call[k] \in CallType /\ Once(call[k])
    BY DEF CallInv, Once
  <1>2. CASE call[k].method = "status" /\ call[k].retry
    <2>1. [call[k] EXCEPT !.at = "check", !.retry = FALSE, !.peer = Nobody] \in CallType
      BY <1>1, Zenon DEF CallType
    <2>2. PICK r \in CallType : r = [call[k] EXCEPT !.at = "check", !.retry = FALSE, !.peer = Nobody]
      BY <2>1
    <2>3. call' = [call EXCEPT ![k] = r]
      BY <1>2, <2>2 DEF ConnectionFails
    <2>4. r.at = "check" /\ r.method = call[k].method /\ ~r.retry /\ r.runs = call[k].runs
      BY <1>1, <2>2, Zenon DEF CallType
    <2>5. Once(r)
      BY <1>1, <1>2, <2>4 DEF Once, CallType
    <2> QED BY <2>3, <2>5, CallMoves
  <1>3. CASE ~(call[k].method = "status" /\ call[k].retry)
    BY <1>3, AnswerKeeps DEF ConnectionFails
  <1> QED BY <1>2, <1>3

LEMMA CallKeeps ==
  ASSUME call \in [Calls -> CallType], CallInv, autoStart \in BOOLEAN,
         NEW k \in Calls, NEW method \in {"status", "other"}, Call(k, method)
  PROVE  call' \in [Calls -> CallType] /\ CallInv'
  <1> DEFINE new == [Fresh EXCEPT !.at = "check", !.method = method, !.allow = autoStart]
  <1>1. Fresh \in CallType
    BY DEF Fresh, CallType
  <1>2. new \in CallType
    BY <1>1, Zenon DEF CallType
  <1>3. PICK r \in CallType : r = new
    BY <1>2
  <1>4. call' = [call EXCEPT ![k] = r]
    BY <1>3, Zenon DEF Call
  <1>5. r.at = "check" /\ r.retry = Fresh.retry /\ r.runs = Fresh.runs
    BY <1>1, <1>3, Zenon DEF CallType
  <1>6. Fresh.retry /\ Fresh.runs = 0
    BY DEF Fresh
  <1>7. Once(r)
    BY <1>5, <1>6 DEF Once
  <1> QED BY <1>4, <1>7, CallMoves

LEMMA OpenKeeps ==
  ASSUME call \in [Calls -> CallType], CallInv, WindowsTypeOK, NEW k \in Calls, OpenPipe(k)
  PROVE  call' \in [Calls -> CallType] /\ CallInv'
  <1>1. call[k] \in CallType /\ Once(call[k]) /\ call[k].at = "wait"
    BY DEF CallInv, Once, OpenPipe
  <1>2. CASE call' = [call EXCEPT ![k].at = "opened", ![k].peer = pipe]
    <2>1. pipe \in Pids \cup {Console, Nobody}
      BY DEF WindowsTypeOK
    <2>2. [call[k] EXCEPT !.at = "opened", !.peer = pipe] \in CallType
      BY <1>1, <2>1, Zenon DEF CallType
    <2>3. PICK r \in CallType : r = [call[k] EXCEPT !.at = "opened", !.peer = pipe]
      BY <2>2
    <2>4. call' = [call EXCEPT ![k] = r]
      BY <1>2, <2>3
    <2>5. r.at = "opened" /\ r.method = call[k].method /\ r.retry = call[k].retry /\ r.runs = call[k].runs
      BY <1>1, <2>3, Zenon DEF CallType
    <2>6. Once(r)
      BY <1>1, <2>5 DEF Once
    <2> QED BY <2>4, <2>6, CallMoves
  <1> QED BY <1>2, FailKeeps DEF OpenPipe

LEMMA HandleKeeps ==
  ASSUME call \in [Calls -> CallType], CallInv, NEW k \in Calls, Handle(k)
  PROVE  call' \in [Calls -> CallType] /\ CallInv'
  <1>1. call[k] \in CallType /\ Once(call[k]) /\ call[k].at = "sent"
    BY DEF CallInv, Once, Handle
  <1>2. PICK runs \in 0..2 : runs = call[k].runs + 1 /\ (call[k].retry => runs = 1)
    <2>1. call[k].runs \in {0, 1} /\ (call[k].retry => call[k].runs = 0)
      BY <1>1 DEF Once, CallType
    <2> QED BY <2>1
  <1>3. [call[k] EXCEPT !.at = "handled", !.runs = runs] \in CallType
    BY <1>1, Zenon DEF CallType
  <1>4. PICK r \in CallType : r = [call[k] EXCEPT !.at = "handled", !.runs = runs]
    BY <1>3
  <1>5. call' = [call EXCEPT ![k] = r]
    BY <1>1, <1>2, <1>4 DEF Handle, CallType
  <1>6. /\ r.at = "handled" /\ r.method = call[k].method /\ r.retry = call[k].retry
        /\ r.runs = runs /\ r.peer = call[k].peer
    BY <1>1, <1>4, Zenon DEF CallType
  <1>7. runs >= 1
    BY <1>1, <1>2 DEF CallType
  <1>8. Once(r)
    BY <1>1, <1>2, <1>6, <1>7 DEF Once
  <1> QED BY <1>5, <1>8, CallMoves

LEMMA ClientKeeps ==
  ASSUME call \in [Calls -> CallType], CallInv, WindowsInv, NEW k \in Calls, ClientStep(k)
  PROVE  call' \in [Calls -> CallType] /\ CallInv'
  <1>1. CASE CheckService(k)
    BY <1>1, PutKeeps, AnswerKeeps DEF CheckService, Stopped
  <1>2. CASE AwaitPending(k)
    BY <1>2, PutKeeps, AnswerKeeps DEF AwaitPending, Stopped
  <1>3. CASE StartStopped(k)
    BY <1>3, PutKeeps, AnswerKeeps DEF StartStopped
  <1>4. CASE AwaitStart(k)
    BY <1>4, PutKeeps, AnswerKeeps DEF AwaitStart
  <1>5. CASE OpenPipe(k)
    BY <1>5, OpenKeeps DEF WindowsInv
  <1>6. CASE Identify(k)
    <2>1. IsRegisteredServicePipe(call[k].peer) => call[k].peer \in Pids
      BY DEF IsRegisteredServicePipe, WindowsInv, WindowsTypeOK, ScmInv
    <2> QED BY <1>6, <2>1, PutKeeps, AnswerKeeps DEF Identify
  <1>7. CASE Send(k)
    <2>1. call[k].peer \in Pids
      BY <1>7 DEF Send, CallInv
    <2> QED BY <1>7, <2>1, PutKeeps, AnswerKeeps DEF Send
  <1>8. CASE ReadAnswer(k)
    BY <1>8, AnswerKeeps DEF ReadAnswer
  <1>9. CASE ReadFails(k)
    BY <1>9, FailKeeps DEF ReadFails
  <1>10. CASE ReadIncomplete(k)
    BY <1>10, AnswerKeeps DEF ReadIncomplete
  <1> QED BY <1>1, <1>2, <1>3, <1>4, <1>5, <1>6, <1>7, <1>8, <1>9, <1>10 DEF ClientStep

\* A call that starts the service starts it as a command does.
LEMMA ClientSparesWindows ==
  ASSUME WindowsInv, NEW k \in Calls, ClientStep(k) \/ Handle(k)
  PROVE  WindowsInv' /\ UNCHANGED autoStart
  <1> USE DEF WindowsInv
  <1>1. UNCHANGED <<pipe, command, autoStart>> /\ (UNCHANGED <<scm, process>> \/ (CanLaunch /\ Launch))
    <2>1. CASE StartStopped(k)
      BY <2>1, Zenon DEF StartStopped
    <2>2. CASE ~StartStopped(k)
      <3>1. Only(k)
        BY <2>2, Zenon DEF ClientStep, CheckService, AwaitPending, AwaitStart, OpenPipe, Identify, Send,
                    ReadAnswer, ReadFails, ReadIncomplete, Handle
      <3> QED BY <3>1, Zenon DEF Only, Calling
    <2> QED BY <2>1, <2>2
  <1>2. CASE UNCHANGED <<scm, process>>
    <2>1. Remembers
      BY <1>2 DEF WindowsTypeOK, Remembers
    <2>2. CommandInv'
      BY <1>1, <2>1, CommandKeeps
    <2>3. command' \in [Commands -> CommandType]
      BY <1>1 DEF WindowsTypeOK, CommandType
    <2> QED BY <1>1, <1>2, <2>2, <2>3, Reads
  <1>3. CASE CanLaunch /\ Launch
    <2>1. ScmInv' /\ Remembers
      BY <1>1, <1>3, LaunchKeeps
    <2>2. CommandInv'
      BY <1>1, <2>1, CommandKeeps
    <2>3. WindowsTypeOK'
      BY <1>1, <1>3, LaunchTypes DEF WindowsTypeOK, ScmType
    <2> QED BY <1>1, <2>1, <2>2, <2>3
  <1> QED BY <1>1, <1>2, <1>3
-----------------------------------------------------------------------------
(* The specification *)

LEMMA NextInv == IInv /\ [Next]_vars => IInv'
  <1> SUFFICES ASSUME IInv, [Next]_vars PROVE IInv'
    OBVIOUS
  <1>1. WindowsInv /\ CallInv /\ call \in [Calls -> CallType] /\ autoStart \in BOOLEAN
    BY DEF IInv, TypeOK, CallType
  <1>2. (WindowsInv' /\ CallInv' /\ call' \in [Calls -> CallType] /\ autoStart' \in BOOLEAN) => IInv'
    BY Zenon DEF IInv, TypeOK, CallType, WindowsInv
  <1>3. ASSUME UNCHANGED call PROVE CallInv' /\ call' \in [Calls -> CallType]
    BY <1>1, <1>3 DEF CallInv, CallType
  <1>4. ASSUME UNCHANGED windows PROVE WindowsInv'
    BY <1>1, <1>4 DEF windows, WindowsInv, WindowsTypeOK, ScmInv, CommandInv, Honest, AllPast
  <1>5. CASE ServiceStep /\ UNCHANGED <<call, autoStart>>
    <2>1. WindowsInv'
      BY <1>1, <1>5, ScmStep, CommandKeepsAll DEF ServiceStep
    <2> QED BY <1>1, <1>2, <1>3, <1>5, <2>1
  <1>6. CASE Disturbance /\ UNCHANGED <<call, autoStart>>
    <2>1. WindowsInv'
      BY <1>1, <1>6, ScmStep
    <2> QED BY <1>1, <1>2, <1>3, <1>6, <2>1
  <1>7. ASSUME NEW c \in Commands, NEW name \in Names, Tray(c, name) \/ Administrator(c, name)
        PROVE  IInv'
    <2>1. Run(c, name) /\ UNCHANGED <<scm, process, pipe, call>>
      BY <1>7 DEF Tray, Administrator
    <2>2. autoStart' \in BOOLEAN
      BY <1>1, <1>7, Zenon DEF Tray, Administrator
    <2>3. WindowsInv'
      BY <1>1, <2>1, RunKeeps
    <2> QED BY <1>2, <1>3, <2>1, <2>2, <2>3
  <1>8. CASE TrayRefused
    <2>1. UNCHANGED <<windows, call>> /\ autoStart' \in BOOLEAN
      BY <1>8 DEF TrayRefused
    <2> QED BY <1>1, <1>2, <1>3, <1>4, <2>1
  <1>9. ASSUME NEW k \in Calls, NEW method \in {"status", "other"}, Call(k, method) PROVE IInv'
    <2>1. UNCHANGED <<windows, autoStart>>
      BY <1>9 DEF Call, Only, Calling, windows
    <2>2. CallInv' /\ call' \in [Calls -> CallType]
      BY <1>1, <1>9, CallKeeps
    <2> QED BY <1>1, <1>2, <1>4, <2>1, <2>2
  <1>10. ASSUME NEW k \in Calls, ClientStep(k) \/ Handle(k) PROVE IInv'
    BY <1>1, <1>2, <1>10, ClientKeeps, HandleKeeps, ClientSparesWindows
  <1>11. CASE UNCHANGED vars
    <2>1. UNCHANGED <<windows, call, autoStart>>
      BY <1>11 DEF vars
    <2> QED BY <1>1, <1>2, <1>3, <1>4, <2>1
  <1> QED BY <1>5, <1>6, <1>7, <1>8, <1>9, <1>10, <1>11 DEF Next

\* The inductive invariant holds of every behaviour.
THEOREM RpcInvariant == Spec => []IInv
  BY InitInv, NextInv, PTL DEF Spec

\* The variables of the SCM, its processes, the commands and the calls keep
\* their types; the counters never leave their bounds (callBlocking handles no
\* request more than twice).
THEOREM RpcTypeCorrect == Spec => []TypeOK
  <1>1. IInv => TypeOK
    BY DEF IInv
  <1> QED BY <1>1, RpcInvariant, PTL

\* While the SCM calls the service stopped, no process of it holds the pipe or is in
\* its shutdown, whatever crashes, fails or is recovered; one that has published the
\* stop may still be there to exit (serviceMain).
THEOREM ReleasedWhenStopped == Spec => []StoppedMeansReleased
  <1>1. IInv => StoppedMeansReleased
    BY DEF IInv, WindowsInv, WindowsTypeOK, ScmInv, StoppedMeansReleased
  <1> QED BY <1>1, RpcInvariant, PTL

\* An uninstall that reaches the deletion has seen the process it found close its pipe
\* and end its tunnel, and a restart that succeeds every process it began with, which
\* may still be there to exit (uninstall, stop and restart wait for SERVICE_STOPPED).
THEOREM CommandsAreTruthful == Spec => []CommandsTellTheTruth
  <1>1. IInv => CommandsTellTheTruth
    BY DEF IInv, WindowsInv, CommandInv, Honest, AllPast, CommandsTellTheTruth
  <1> QED BY <1>1, RpcInvariant, PTL

\* A request that changes something is handled at most once, and an answer ok
\* means it was, for any number of calls (callBlocking).
THEOREM HandledAtMostOnce == Spec => []AtMostOnce
  <1>1. IInv => AtMostOnce
    BY DEF IInv, CallInv, AtMostOnce
  <1> QED BY <1>1, RpcInvariant, PTL

\* A request is only ever sent to a process the SCM started, though --console
\* may own the pipe at any time (isRegisteredServicePipe).
THEOREM OnlySentToTheService == Spec => []SentToTheService
  <1>1. IInv => SentToTheService
    BY DEF IInv, CallInv, SentToTheService
  <1> QED BY <1>1, RpcInvariant, PTL
=============================================================================
