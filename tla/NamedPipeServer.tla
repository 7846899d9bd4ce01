--------------------------- MODULE NamedPipeServer ---------------------------
(***************************************************************************)
(* The named pipe of OpenNordService: ServiceMain, which starts and stops   *)
(* the server, the accept thread, one worker thread per request, and the    *)
(* clients.  A client has one connection at a time, with one request.       *)
(*                                                                         *)
(* Windows' part: an instance of the pipe can be opened while it listens,   *)
(* which it does from its creation on and, once disconnected, again in the  *)
(* next ConnectNamedPipe; CancelSynchronousIo ends a call that is blocked   *)
(* and does nothing to a thread that is not.                                *)
(***************************************************************************)
CONSTANTS
    Clients,
    Instances,      \* the instances of the pipe, 16 in CreateNamedPipeW
    NoClient,       \* the other end of an instance is the wake of stop
    NoInstance

ASSUME NamedPipeAssumption ==
    /\ NoClient \notin Clients
    /\ NoInstance \notin Instances

VARIABLES
    main,       \* the thread of ServiceMain
    running,    \* running_; the stop token is set right after it is cleared
    accept,     \* the accept thread's place in acceptLoop
    listener,   \* the instance the accept thread holds
    pipe,       \* the state of each instance
    peer,       \* the client at the other end of an attached instance
    worker,     \* for each client, the worker in clients_ that serves it
    serves,     \* the instance it serves it on
    cancelled,  \* the workers whose blocked call stop has cancelled
    client      \* where each client is

server == <<main, running, cancelled>>
acceptor == <<accept, listener>>
instances == <<pipe, peer>>
workers == <<worker, serves>>
vars == <<server, acceptor, instances, workers, client>>

Free == {i \in Instances : pipe[i] = "free"}
Live(c) == worker[c] \notin {"none", "done"}
Linked(c) == \E i \in Instances : pipe[i] = "attached" /\ peer[i] = c

SetPipe(i, state, c) == /\ pipe' = [pipe EXCEPT ![i] = state]
                        /\ peer' = [peer EXCEPT ![i] = c]

-----------------------------------------------------------------------------
(* ServiceMain: start, stop and shutdown *)

Start ==
    /\ main = "start"
    /\ \/ main' = "stopped" /\ UNCHANGED <<running, acceptor, instances>>
       \/ /\ main' = "run" /\ running' = TRUE /\ accept' = "loop"
          /\ \E i \in Free : listener' = i /\ SetPipe(i, "listening", NoClient)
    /\ UNCHANGED <<cancelled, workers, client>>

Stop ==
    /\ main = "run" /\ main' = "wake"
    /\ running' = FALSE
    /\ UNCHANGED <<cancelled, acceptor, instances, workers, client>>

\* Mutant: the accept thread is only told to stop
TellOnly == /\ main = "wake" /\ main' = "join"
            /\ UNCHANGED <<running, cancelled, acceptor, instances, workers, client>>

\* CreateFileW opens an instance that listens, if there is one.
StopWake ==
    /\ main = "wake" /\ main' = "join"
    /\ \/ \E i \in Instances : pipe[i] = "listening" /\ SetPipe(i, "attached", NoClient)
       \/ (\A i \in Instances : pipe[i] # "listening") /\ UNCHANGED instances
    /\ UNCHANGED <<running, cancelled, acceptor, workers, client>>

StopJoin ==
    /\ main = "join" /\ accept = "ended" /\ main' = "cancel"
    /\ UNCHANGED <<running, cancelled, acceptor, instances, workers, client>>

StopCancel(c) ==
    /\ main = "cancel" /\ worker[c] # "none" /\ c \notin cancelled
    /\ cancelled' = cancelled \cup {c}
    /\ worker' = [worker EXCEPT ![c] = IF @ \in {"reading", "flushing"} THEN "leave" ELSE @]
    /\ UNCHANGED <<main, running, acceptor, instances, serves, client>>

\* clients_.clear() joins every worker.
\* Mutant: the workers are not waited for
NobodyWorks == TRUE
AllDone == \A c \in Clients : ~Live(c)

StopReap ==
    /\ main = "cancel"
    /\ \A c \in Clients : worker[c] # "none" => c \in cancelled
    /\ AllDone
    /\ main' = "shutdown" /\ worker' = [c \in Clients |-> "none"]
    /\ UNCHANGED <<running, cancelled, acceptor, instances, serves, client>>

Shutdown ==
    /\ main = "shutdown" /\ main' = "stopped"
    /\ UNCHANGED <<running, cancelled, acceptor, instances, workers, client>>

-----------------------------------------------------------------------------
(* acceptLoop *)

AcceptEnds == /\ accept' = "ended" /\ listener' = NoInstance
              /\ SetPipe(listener, "free", NoClient)

\* Mutant: around again with the client attached
RefuseQuietly == accept' = "loop" /\ UNCHANGED <<listener, instances>>

\* DisconnectNamedPipe, and around again
Refuse == /\ accept' = "loop" /\ SetPipe(listener, "disconnected", NoClient)
          /\ UNCHANGED listener

AcceptLoop ==
    /\ accept = "loop"
    /\ \/ running /\ accept' = "connect" /\ UNCHANGED <<listener, instances>>
       \/ ~running /\ AcceptEnds
    /\ UNCHANGED <<server, workers, client>>

\* ConnectNamedPipe blocks while nobody is attached; a client that has left
\* before it looked is an error.
AcceptConnect ==
    /\ accept = "connect"
    /\ \/ /\ pipe[listener] = "disconnected" /\ SetPipe(listener, "listening", NoClient)
          /\ UNCHANGED acceptor
       \/ /\ pipe[listener] \in {"attached", "closed"} /\ accept' = "check"
          /\ UNCHANGED <<listener, instances>>
       \/ pipe[listener] = "closed" /\ Refuse
    /\ UNCHANGED <<server, workers, client>>

AcceptCheck ==
    /\ accept = "check"
    /\ \/ running /\ accept' = "serve" /\ UNCHANGED <<listener, instances>>
       \/ ~running /\ AcceptEnds
    /\ UNCHANGED <<server, workers, client>>

Spare == Free

\* Under clientsMutex_: workers that are done leave clients_, and the connection
\* is handed to a worker if another instance can be created to listen on.
AcceptServe ==
    LET reaped == [c \in Clients |-> IF worker[c] = "done" THEN "none" ELSE worker[c]]
    IN /\ accept = "serve"
       /\ \/ \E i \in Spare, c \in Clients :
                /\ peer[listener] = c
                /\ accept' = "loop" /\ listener' = i /\ SetPipe(i, "listening", NoClient)
                /\ worker' = [reaped EXCEPT ![c] = "toRead"]
                /\ serves' = [serves EXCEPT ![c] = listener]
          \/ Refuse /\ worker' = reaped /\ UNCHANGED serves
       /\ UNCHANGED <<server, client>>

-----------------------------------------------------------------------------
(* serveClient of client c *)

Goto(c, label) == worker' = [worker EXCEPT ![c] = label] /\ UNCHANGED serves

\* A whole frame, or one that is cut off, out of bounds or of an unknown user
WorkerReads(c) ==
    /\ \/ worker[c] = "toRead" /\ Goto(c, "reading")
       \/ worker[c] = "reading" /\ client[c] \in {"sent", "left"} /\ Goto(c, "handle")
       \/ worker[c] = "reading" /\ client[c] # "open" /\ Goto(c, "leave")
    /\ UNCHANGED <<server, acceptor, instances, client>>

WorkerHandles(c) ==
    /\ worker[c] = "handle" /\ Goto(c, "toFlush")
    /\ client' = [client EXCEPT ![c] = IF @ = "sent" THEN "replied" ELSE @]
    /\ UNCHANGED <<server, acceptor, instances>>

\* Mutant: the pipe is disconnected with the reply still in it
Unread(c) == FALSE
Pending(c) == client[c] = "replied"

\* FlushFileBuffers waits until the client has read the reply.
WorkerFlushes(c) ==
    /\ \/ worker[c] = "toFlush" /\ Goto(c, "flushing")
       \/ worker[c] = "flushing" /\ ~Pending(c) /\ Goto(c, "leave")
    /\ UNCHANGED <<server, acceptor, instances, client>>

\* Mutant: the instance is disconnected and not closed
KeepInstance(c) == SetPipe(serves[c], "disconnected", NoClient)
CloseInstance(c) == SetPipe(serves[c], "free", NoClient)

WorkerLeaves(c) ==
    /\ worker[c] = "leave"
    /\ CloseInstance(c)
    /\ worker' = [worker EXCEPT ![c] = "done"]
    /\ serves' = [serves EXCEPT ![c] = NoInstance]
    /\ UNCHANGED <<server, acceptor, client>>

-----------------------------------------------------------------------------
(* RpcClient::callBlocking, as far as the pipe goes *)

ClientOpens(c) ==
    /\ client[c] \in {"closed", "left"} /\ client' = [client EXCEPT ![c] = "open"]
    /\ \A i \in Instances : peer[i] # c
    /\ \E i \in Instances : pipe[i] = "listening" /\ SetPipe(i, "attached", c)
    /\ UNCHANGED <<server, acceptor, workers>>

ClientCalls(c) ==
    /\ Linked(c)
    /\ \/ client[c] = "open" /\ client' = [client EXCEPT ![c] = "sent"]
       \/ client[c] = "replied" /\ client' = [client EXCEPT ![c] = "answered"]
    /\ UNCHANGED <<server, acceptor, instances, workers>>

\* After the answer, when the pipe breaks, or because the process ends.  A request
\* that is not read yet stays in the pipe.
ClientCloses(c) ==
    /\ client[c] \notin {"left", "closed"}
    /\ client' = [client EXCEPT ![c] = IF @ = "sent" THEN "left" ELSE "closed"]
    /\ pipe' = [i \in Instances |->
                  IF pipe[i] = "attached" /\ peer[i] = c THEN "closed" ELSE pipe[i]]
    /\ UNCHANGED <<server, acceptor, peer, workers>>

-----------------------------------------------------------------------------
Init ==
    /\ main = "start" /\ running = FALSE
    /\ accept = "none" /\ listener = NoInstance
    /\ pipe = [i \in Instances |-> "free"] /\ peer = [i \in Instances |-> NoClient]
    /\ worker = [c \in Clients |-> "none"] /\ serves = [c \in Clients |-> NoInstance]
    /\ cancelled = {} /\ client = [c \in Clients |-> "closed"]

Stops == StopWake \/ StopJoin \/ (\E c \in Clients : StopCancel(c)) \/ StopReap \/ Shutdown
Accepts == AcceptLoop \/ AcceptConnect \/ AcceptCheck \/ AcceptServe
Works(c) == WorkerReads(c) \/ WorkerHandles(c) \/ WorkerFlushes(c) \/ WorkerLeaves(c)

Next == \/ Start \/ Stop \/ Stops \/ Accepts
        \/ \E c \in Clients : Works(c) \/ ClientOpens(c) \/ ClientCalls(c) \/ ClientCloses(c)
        \/ main = "stopped" /\ UNCHANGED vars

Spec == Init /\ [][Next]_vars

-----------------------------------------------------------------------------
(* Properties *)

TypeOK ==
    /\ main \in {"start", "run", "wake", "join", "cancel", "shutdown", "stopped"}
    /\ running \in BOOLEAN
    /\ accept \in {"none", "loop", "connect", "check", "serve", "ended"}
    /\ listener \in Instances \cup {NoInstance}
    /\ listener = NoInstance <=> accept \in {"none", "ended"}
    /\ pipe \in [Instances -> {"free", "listening", "attached", "closed", "disconnected"}]
    /\ peer \in [Instances -> Clients \cup {NoClient}]
    /\ worker \in [Clients -> {"none", "toRead", "reading", "handle", "toFlush",
                               "flushing", "leave", "done"}]
    /\ serves \in [Clients -> Instances \cup {NoInstance}]
    /\ cancelled \subseteq Clients
    /\ client \in [Clients -> {"open", "sent", "replied", "answered", "left", "closed"}]

\* Until a stop, one instance is kept to listen on and no worker serves it: at
\* capacity a connection is refused, the pipe never disappears (acceptLoop: keep
\* one service-owned instance alive between requests).
ListenerIsKept ==
    main = "run" => /\ listener \in Instances /\ pipe[listener] # "free"
                    /\ \A c \in Clients : Live(c) => serves[c] # listener

\* Every instance in use is held by the accept thread or by one live worker, so
\* that no sequence of requests uses the sixteen up.
NoInstanceLeaks ==
    /\ \A i \in Instances \ Free : i = listener \/ \E c \in Clients : Live(c) /\ serves[c] = i
    /\ \A c, d \in Clients : Live(c) /\ Live(d) /\ serves[c] = serves[d] => c = d

\* When VpnController::shutdown runs, no thread of the server is left and no
\* instance of the pipe.
StopIsClean ==
    main = "shutdown" => /\ accept = "ended" /\ Free = Instances
                         /\ \A c \in Clients : ~Live(c)

\* A worker leaves a client whose request it handled only after the client has
\* read the reply, unless the client is gone or the service stops.
HandledIsAnswered ==
    [][\A c \in Clients : worker[c] = "leave" /\ worker'[c] = "done"
          => client[c] # "replied" \/ c \in cancelled]_vars

-----------------------------------------------------------------------------
(* Liveness: the threads of the service run; a client that is attached sends, *)
(* reads, and closes when it has its answer or the pipe is broken.           *)

Finishes(c) == \/ ClientCalls(c)
               \/ ClientCloses(c) /\ (client[c] = "answered" \/ ~Linked(c))

Fairness == /\ WF_vars(Stops) /\ WF_vars(Accepts)
            /\ \A c \in Clients : WF_vars(Works(c)) /\ WF_vars(Finishes(c))
FairSpec == Spec /\ Fairness

\* Every call ends: the client is answered or sees the pipe broken, whether it
\* was accepted, refused at capacity, or stopped.
CallEnds == \A c \in Clients : (client[c] = "open") ~> (client[c] \in {"answered", "left", "closed"})

\* A stop returns, unless it came while the accept thread was about to listen
\* again on the one instance it holds: then the wake finds nothing to open.
Rearming == accept = "connect" /\ pipe[listener] = "disconnected"
StopReturns == (main = "wake" /\ ~Rearming) ~> (main = "stopped")
=============================================================================
