--------------------------- MODULE NamedPipeProofs ---------------------------
(***************************************************************************)
(* What TLAPS proves of NamedPipeServer, for any number of clients and of   *)
(* instances of the pipe.                                                  *)
(***************************************************************************)
EXTENDS NamedPipeServer, TLAPS

\* What the thread of ServiceMain knows of the accept thread and the workers
PhaseInv ==
    /\ running <=> main = "run"
    /\ main = "start" => accept = "none" /\ cancelled = {}
    /\ main = "run" => accept \notin {"none", "ended"}
    /\ main \in {"cancel", "shutdown"} => accept = "ended"
    /\ main = "shutdown" => \A c \in Clients : worker[c] = "none"
    /\ cancelled # {} => accept \in {"none", "ended"}

\* A client is at the end of one instance, which is attached or was.
PeerInv ==
    /\ \A i \in Instances : peer[i] \in Clients => pipe[i] \in {"attached", "closed"}
    /\ \A i, j \in Instances : peer[i] \in Clients /\ peer[i] = peer[j] => i = j

\* Who holds which instance
HolderInv ==
    /\ accept \notin {"none", "ended"} => pipe[listener] # "free"
    /\ \A c \in Clients : Live(c) =>
          /\ serves[c] \in Instances /\ serves[c] # listener /\ peer[serves[c]] = c
    /\ \A i \in Instances \ Free :
          i = listener \/ \E c \in Clients : Live(c) /\ serves[c] = i

\* A reply nobody has read yet is flushed by the worker that wrote it.
ReplyInv ==
    \A c \in Clients : client[c] = "replied" =>
        \/ worker[c] \in {"toFlush", "flushing"}
        \/ c \in cancelled
        \/ \A i \in Instances : peer[i] # c

IInv == TypeOK /\ PhaseInv /\ PeerInv /\ HolderInv /\ ReplyInv

USE NamedPipeAssumption
USE DEF SetPipe, Goto, Live, Free, server, acceptor, instances, workers

LEMMA InitInv == Init => IInv
  BY DEF Init, IInv, TypeOK, PhaseInv, PeerInv, HolderInv, ReplyInv

-----------------------------------------------------------------------------
(* ServiceMain *)

LEMMA MainInv ==
  ASSUME IInv, Start \/ Stop \/ Stops
  PROVE  IInv'
  <1> USE DEF IInv
  <1>1. CASE Start
    <2>1. CASE main' = "stopped"
      BY <1>1, <2>1 DEF Start, TypeOK, PhaseInv, PeerInv, HolderInv, ReplyInv
    <2>2. CASE main' # "stopped"
      <3>1. PICK i \in Free : listener' = i /\ SetPipe(i, "listening", NoClient)
        BY <1>1, <2>2 DEF Start
      <3>2. /\ main' = "run" /\ running' = TRUE /\ accept' = "loop"
            /\ listener = NoInstance /\ UNCHANGED <<cancelled, workers, client>>
        BY <1>1, <2>2 DEF Start, TypeOK, PhaseInv
      <3>3. TypeOK' /\ PhaseInv'
        BY <1>1, <3>1, <3>2 DEF Start, TypeOK, PhaseInv
      <3>4. PeerInv' /\ ReplyInv'
        BY <3>1, <3>2 DEF TypeOK, PeerInv, ReplyInv
      <3>5. HolderInv'
        BY <3>1, <3>2 DEF TypeOK, PeerInv, HolderInv
      <3> QED BY <3>3, <3>4, <3>5
    <2> QED BY <2>1, <2>2
  <1>2. CASE Stop
    BY <1>2 DEF Stop, TypeOK, PhaseInv, PeerInv, HolderInv, ReplyInv
  <1>3. CASE StopWake
    BY <1>3 DEF StopWake, TypeOK, PhaseInv, PeerInv, HolderInv, ReplyInv
  <1>4. CASE StopJoin
    BY <1>4 DEF StopJoin, TypeOK, PhaseInv, PeerInv, HolderInv, ReplyInv
  <1>5. ASSUME NEW c \in Clients, StopCancel(c) PROVE IInv'
    BY <1>5 DEF StopCancel, TypeOK, PhaseInv, PeerInv, HolderInv, ReplyInv
  <1>6. CASE StopReap
    BY <1>6 DEF StopReap, AllDone, TypeOK, PhaseInv, PeerInv, HolderInv, ReplyInv
  <1>7. CASE Shutdown
    BY <1>7 DEF Shutdown, TypeOK, PhaseInv, PeerInv, HolderInv, ReplyInv
  <1> QED BY <1>1, <1>2, <1>3, <1>4, <1>5, <1>6, <1>7 DEF Stops

-----------------------------------------------------------------------------
(* The accept thread *)

LEMMA RefuseInv ==
  ASSUME IInv, Refuse, accept \in {"connect", "serve"},
         UNCHANGED <<server, client, serves>>,
         \/ worker' = worker
         \/ worker' = [c \in Clients |-> IF worker[c] = "done" THEN "none" ELSE worker[c]]
  PROVE  IInv'
  BY DEF IInv, Refuse, TypeOK, PhaseInv, PeerInv, HolderInv, ReplyInv

LEMMA EndsInv ==
  ASSUME IInv, AcceptEnds, ~running, accept \in {"loop", "check"},
         UNCHANGED <<server, workers, client>>
  PROVE  IInv'
  BY DEF IInv, AcceptEnds, TypeOK, PhaseInv, PeerInv, HolderInv, ReplyInv

LEMMA ServeInv ==
  ASSUME IInv, AcceptServe
  PROVE  IInv'
  <1> DEFINE reaped == [c \in Clients |-> IF worker[c] = "done" THEN "none" ELSE worker[c]]
  <1>1. CASE Refuse /\ worker' = reaped /\ UNCHANGED serves
    BY <1>1, RefuseInv DEF AcceptServe
  <1>2. ASSUME NEW i \in Free, NEW c \in Clients,
               accept = "serve", UNCHANGED <<server, client>>,
               peer[listener] = c, accept' = "loop", listener' = i,
               SetPipe(i, "listening", NoClient),
               worker' = [reaped EXCEPT ![c] = "toRead"],
               serves' = [serves EXCEPT ![c] = listener]
        PROVE  IInv'
    <2> USE DEF IInv
    <2>1. listener \in Instances /\ listener # i /\ i \in Instances
      BY <1>2 DEF TypeOK, PeerInv
    <2>2. ~Live(c) /\ cancelled = {}
      BY <1>2, <2>1 DEF TypeOK, HolderInv, PeerInv, PhaseInv
    <2>3. TypeOK' /\ PhaseInv'
      BY <1>2, <2>1, <2>2 DEF TypeOK, PhaseInv
    <2>4. PeerInv'
      BY <1>2, <2>1, <2>2 DEF TypeOK, PeerInv
    <2>5. HolderInv'
      BY <1>2, <2>1, <2>2 DEF TypeOK, PeerInv, HolderInv
    <2>6. ReplyInv'
      BY <1>2, <2>1, <2>2 DEF TypeOK, ReplyInv
    <2> QED BY <2>3, <2>4, <2>5, <2>6
  <1> QED BY <1>1, <1>2 DEF AcceptServe, Spare

LEMMA AcceptInv ==
  ASSUME IInv, Accepts
  PROVE  IInv'
  <1>1. CASE AcceptLoop
    <2>1. CASE running
      BY <1>1, <2>1 DEF AcceptLoop, IInv, TypeOK, PhaseInv, PeerInv, HolderInv, ReplyInv
    <2>2. CASE ~running
      BY <1>1, <2>2, EndsInv DEF AcceptLoop
    <2> QED BY <2>1, <2>2
  <1>2. CASE AcceptConnect
    <2>1. CASE pipe[listener] = "closed" /\ Refuse
      BY <1>2, <2>1, RefuseInv DEF AcceptConnect
    <2>2. CASE ~(pipe[listener] = "closed" /\ Refuse)
      BY <1>2, <2>2 DEF AcceptConnect, IInv, TypeOK, PhaseInv, PeerInv, HolderInv, ReplyInv
    <2> QED BY <2>1, <2>2
  <1>3. CASE AcceptCheck
    <2>1. CASE running
      BY <1>3, <2>1 DEF AcceptCheck, IInv, TypeOK, PhaseInv, PeerInv, HolderInv, ReplyInv
    <2>2. CASE ~running
      BY <1>3, <2>2, EndsInv DEF AcceptCheck
    <2> QED BY <2>1, <2>2
  <1>4. CASE AcceptServe
    BY <1>4, ServeInv
  <1> QED BY <1>1, <1>2, <1>3, <1>4 DEF Accepts

-----------------------------------------------------------------------------
(* The workers and the clients *)

LEMMA WorkInv ==
  ASSUME IInv, NEW c \in Clients, Works(c)
  PROVE  IInv'
  <1> USE DEF IInv
  <1>1. CASE WorkerReads(c)
    BY <1>1 DEF WorkerReads, TypeOK, PhaseInv, PeerInv, HolderInv, ReplyInv
  <1>2. CASE WorkerHandles(c)
    BY <1>2 DEF WorkerHandles, TypeOK, PhaseInv, PeerInv, HolderInv, ReplyInv
  <1>3. CASE WorkerFlushes(c)
    BY <1>3 DEF WorkerFlushes, Pending, TypeOK, PhaseInv, PeerInv, HolderInv, ReplyInv
  <1>4. CASE WorkerLeaves(c)
    BY <1>4 DEF WorkerLeaves, CloseInstance, TypeOK, PhaseInv, PeerInv, HolderInv, ReplyInv
  <1> QED BY <1>1, <1>2, <1>3, <1>4 DEF Works

LEMMA ClientInv ==
  ASSUME IInv, NEW c \in Clients, ClientOpens(c) \/ ClientCalls(c) \/ ClientCloses(c)
  PROVE  IInv'
  <1> USE DEF IInv
  <1>1. CASE ClientOpens(c)
    BY <1>1 DEF ClientOpens, TypeOK, PhaseInv, PeerInv, HolderInv, ReplyInv
  <1>2. CASE ClientCalls(c)
    BY <1>2 DEF ClientCalls, TypeOK, PhaseInv, PeerInv, HolderInv, ReplyInv
  <1>3. CASE ClientCloses(c)
    BY <1>3 DEF ClientCloses, TypeOK, PhaseInv, PeerInv, HolderInv, ReplyInv
  <1> QED BY <1>1, <1>2, <1>3

LEMMA StepInv == IInv /\ [Next]_vars => IInv'
  <1> SUFFICES ASSUME IInv, [Next]_vars PROVE IInv'
    OBVIOUS
  <1>1. CASE UNCHANGED vars
    BY <1>1 DEF vars, IInv, TypeOK, PhaseInv, PeerInv, HolderInv, ReplyInv
  <1> QED BY <1>1, MainInv, AcceptInv, WorkInv, ClientInv DEF Next

-----------------------------------------------------------------------------
LEMMA AlwaysInv == Spec => []IInv
  BY InitInv, StepInv, PTL DEF Spec

\* The server keeps its types, whoever connects, leaves or stops it.
THEOREM PipeTypeCorrect == Spec => []TypeOK
  <1>1. IInv => TypeOK
    BY DEF IInv
  <1> QED BY <1>1, AlwaysInv, PTL

\* Until a stop the server always has an instance of its own to listen on, for
\* any number of clients and of instances.
THEOREM PipeIsKept == Spec => []ListenerIsKept
  <1>1. IInv => ListenerIsKept
    BY DEF IInv, TypeOK, PhaseInv, HolderInv, ListenerIsKept
  <1> QED BY <1>1, AlwaysInv, PTL

\* No instance is lost and none is served by two workers, for any number of
\* requests, refusals and clients that vanish.
THEOREM InstancesAreHeld == Spec => []NoInstanceLeaks
  <1>1. IInv => NoInstanceLeaks
    BY DEF IInv, HolderInv, NoInstanceLeaks
  <1> QED BY <1>1, AlwaysInv, PTL

\* Once NamedPipeServer::stop has returned, nothing of the server can call
\* into the controller that is shut down next.
THEOREM StopLeavesNothing == Spec => []StopIsClean
  <1>1. IInv => StopIsClean
    BY DEF IInv, TypeOK, PhaseInv, HolderInv, StopIsClean
  <1> QED BY <1>1, AlwaysInv, PTL

\* A worker that handled a request does not disconnect before the client has
\* read the reply, unless the service stops.
THEOREM RepliesAreRead == Spec => HandledIsAnswered
  <1>1. ASSUME IInv, [Next]_vars
        PROVE  [\A c \in Clients : worker[c] = "leave" /\ worker'[c] = "done"
                  => client[c] # "replied" \/ c \in cancelled]_vars
    BY <1>1 DEF IInv, HolderInv, ReplyInv
  <1> QED BY <1>1, AlwaysInv, PTL DEF Spec, HandledIsAnswered
=============================================================================
