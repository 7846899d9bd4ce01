----------------------------- MODULE PrivateFiles -----------------------------
(***************************************************************************)
(* The private files of the service: an encrypted session per user, which   *)
(* SecureStore loads, saves and removes, and the tunnel configuration.  Any *)
(* worker may be inside SecureStore beside any other.  writePrivateFile     *)
(* writes a temporary file, flushes it and renames it over the destination. *)
(*                                                                         *)
(* Windows' part: QFile opens for reading without sharing deletion, so that *)
(* a file that is being read is neither replaced nor deleted; the handle of *)
(* a writer shares nothing, before the rename and after it.  What was not   *)
(* flushed is lost with the power.                                          *)
(***************************************************************************)
EXTENDS Naturals, FiniteSets

CONSTANTS
    Threads,
    Paths,
    Values,
    None,
    Torn,           \* what a lost write leaves in a file, and what a temporary
                    \* file that is left behind counts as
    MaxCalls,       \* calls of SecureStore
    DiskFaults      \* "io", "crash", "power"

ASSUME FilesAssumption ==
    /\ None \notin Values \cup Threads /\ Torn \notin Values \cup {None}
    /\ MaxCalls \in Nat

VARIABLES
    file,       \* what each path holds
    flushed,    \* whether it would survive a loss of power
    readers,    \* who has it open for reading
    writer,     \* whose exclusive handle it is
    temp,       \* the last temporary file of each thread of this process: None,
                \* Torn or whole
    litter,     \* a crash or a failed deletion has left one behind
    call,       \* what each thread is doing
    calls       \* calls so far, for the bound

disk == <<file, flushed, readers, writer, temp, litter>>
files == <<disk, call, calls>>

\* ok tells how the last call ended; got is what a load answered.
Idle == [op |-> "none", path |-> None, arg |-> None, at |-> "idle", ok |-> TRUE, got |-> None]

InitFiles ==
    /\ flushed = [p \in Paths |-> TRUE]
    /\ readers = [p \in Paths |-> {}] /\ writer = [p \in Paths |-> None]
    /\ temp = [t \in Threads |-> None] /\ litter = FALSE
    /\ call = [t \in Threads |-> Idle] /\ calls = 0

At(t, at) == call[t].at = at
Path(t) == call[t].path
Goto(t, at) == call' = [call EXCEPT ![t].at = at]

\* The call ends.
Done(t, ok) == call' = [call EXCEPT ![t] = [Idle EXCEPT !.ok = ok]]
Answer(t, got) == call' = [call EXCEPT ![t] = [Idle EXCEPT !.got = got]]

Begin(t, op, path, arg, at) ==
    /\ At(t, "idle")
    /\ call' = [call EXCEPT ![t] = [Idle EXCEPT !.op = op, !.path = path, !.arg = arg, !.at = at]]
    /\ UNCHANGED disk

Fails == "io" \in DiskFaults

\* An open, a rename or a deletion needs the file for itself.
Shared(p) == readers[p] # {} \/ writer[p] # None

-----------------------------------------------------------------------------
(* writePrivateFile *)

\* CREATE_NEW of a name nobody has had; what an earlier one has left stays.
Create(t) ==
    /\ At(t, "create")
    /\ \/ temp' = [temp EXCEPT ![t] = Torn] /\ Goto(t, "write")
       \/ Fails /\ Done(t, FALSE) /\ UNCHANGED temp
    /\ UNCHANGED <<file, flushed, readers, writer, litter>>

Write(t) ==
    /\ At(t, "write")
    /\ \/ temp' = [temp EXCEPT ![t] = call[t].arg] /\ Goto(t, "flush")
       \/ Fails /\ Goto(t, "cleanup") /\ UNCHANGED temp
    /\ UNCHANGED <<file, flushed, readers, writer, litter>>

Flush(t) ==
    /\ At(t, "flush")
    /\ Goto(t, "rename") \/ (Fails /\ Goto(t, "cleanup"))
    /\ UNCHANGED disk

\* Mutant: nothing is flushed
Unflushed == FALSE

\* What Flush has done by the time of the rename
IsFlushed == TRUE

\* The temporary file becomes the destination, still open.
Rename(t) ==
    /\ At(t, "rename")
    /\ \/ /\ ~Shared(Path(t)) /\ Goto(t, "renamed")
          /\ file' = [file EXCEPT ![Path(t)] = temp[t]]
          /\ flushed' = [flushed EXCEPT ![Path(t)] = IsFlushed]
          /\ writer' = [writer EXCEPT ![Path(t)] = t]
          /\ temp' = [temp EXCEPT ![t] = None]
       \/ /\ Fails \/ Shared(Path(t))
          /\ Goto(t, "cleanup") /\ UNCHANGED <<file, flushed, writer, temp>>
    /\ UNCHANGED <<readers, litter>>

\* The scope guard closes the file and deletes the temporary one, which after
\* the rename is no longer there; that a deletion fails goes unnoticed.
Cleanup(t) ==
    /\ At(t, "cleanup") \/ At(t, "renamed")
    /\ Done(t, At(t, "renamed"))
    /\ writer' = [p \in Paths |-> IF writer[p] = t THEN None ELSE writer[p]]
    /\ \/ temp' = [temp EXCEPT ![t] = None] /\ UNCHANGED litter
       \/ Fails /\ temp[t] # None /\ litter' = TRUE /\ temp' = [temp EXCEPT ![t] = Torn]
    /\ UNCHANGED <<file, flushed, readers>>

-----------------------------------------------------------------------------
(* SecureStore::load and remove, and QFile::remove of the configuration *)

\* exists() before open() and remove(): a file that is not there is
\* not_authenticated to load, and already removed to remove.
Exists(t) ==
    /\ At(t, "exists")
    /\ IF file[Path(t)] = None THEN Answer(t, None)
       ELSE Goto(t, IF call[t].op = "load" THEN "open" ELSE "delete")
    /\ UNCHANGED disk

OpenFile(t) ==
    /\ At(t, "open")
    /\ \/ /\ file[Path(t)] # None /\ writer[Path(t)] = None /\ Goto(t, "read")
          /\ readers' = [readers EXCEPT ![Path(t)] = @ \cup {t}]
       \/ /\ Fails \/ file[Path(t)] = None \/ writer[Path(t)] # None
          /\ Done(t, FALSE) /\ UNCHANGED readers
    /\ UNCHANGED <<file, flushed, writer, temp, litter>>

\* readAll, decryption and parsing; a torn file is an error.
Read(t) ==
    /\ At(t, "read")
    /\ IF file[Path(t)] \in Values THEN Answer(t, file[Path(t)]) ELSE Done(t, FALSE)
    /\ readers' = [readers EXCEPT ![Path(t)] = @ \ {t}]
    /\ UNCHANGED <<file, flushed, writer, temp, litter>>

\* Mutant: remove() does not look at what QFile::remove says
DeleteBlindly(t) ==
    /\ At(t, "delete") /\ Done(t, TRUE)
    /\ \/ ~Shared(Path(t)) /\ file' = [file EXCEPT ![Path(t)] = None]
       \/ UNCHANGED file
    /\ UNCHANGED <<flushed, readers, writer, temp, litter>>

DeleteFile(t) ==
    /\ At(t, "delete")
    /\ \/ /\ file[Path(t)] # None /\ ~Shared(Path(t)) /\ Done(t, TRUE)
          /\ file' = [file EXCEPT ![Path(t)] = None]
       \/ /\ Fails \/ file[Path(t)] = None \/ Shared(Path(t))
          /\ Done(t, FALSE) /\ UNCHANGED file
    /\ UNCHANGED <<flushed, readers, writer, temp, litter>>

FileStep(t) ==
    /\ \/ Create(t) \/ Write(t) \/ Flush(t) \/ Rename(t) \/ Cleanup(t)
       \/ Exists(t) \/ OpenFile(t) \/ Read(t) \/ DeleteFile(t)
    /\ UNCHANGED calls

Save(t, path, v) == Begin(t, "save", path, v, "create")
Load(t, path) == Begin(t, "load", path, None, "exists")
Remove(t, path) == Begin(t, "remove", path, None, "exists")

\* A worker's call of SecureStore
Request(t, path) ==
    /\ calls < MaxCalls /\ calls' = calls + 1
    /\ Load(t, path) \/ Remove(t, path) \/ \E v \in Values : Save(t, path, v)

-----------------------------------------------------------------------------
(* The end of the process, and of the machine *)

\* What was temporary is nobody's any more.
ClosesAll ==
    /\ readers' = [p \in Paths |-> {}] /\ writer' = [p \in Paths |-> None]
    /\ litter' = (litter \/ \E t \in Threads : temp[t] # None)
    /\ call' = [t \in Threads |-> Idle]
    /\ temp' = [t \in Threads |-> None]
    /\ UNCHANGED calls

CrashFiles ==
    /\ "crash" \in DiskFaults /\ ClosesAll
    /\ UNCHANGED <<file, flushed>>

PowerLost ==
    /\ "power" \in DiskFaults /\ ClosesAll
    /\ file' = [p \in Paths |-> IF flushed[p] THEN file[p] ELSE Torn]
    /\ flushed' = [p \in Paths |-> TRUE]

-----------------------------------------------------------------------------
(* The properties *)

\* The types; and every open handle is that of a call in progress.
FilesTypeOK ==
    /\ file \in [Paths -> Values \cup {None, Torn}] /\ flushed \in [Paths -> BOOLEAN]
    /\ readers \in [Paths -> SUBSET Threads] /\ writer \in [Paths -> Threads \cup {None}]
    /\ temp \in [Threads -> Values \cup {None, Torn}] /\ litter \in BOOLEAN
    /\ calls \in 0..MaxCalls
    /\ \A p \in Paths : /\ writer[p] # None => call[writer[p]].at = "renamed"
                       /\ \A t \in readers[p] : call[t].at = "read"
    /\ call \in [Threads -> [op : {"none", "save", "load", "remove"}, path : Paths \cup {None},
          arg : Values \cup {None}, ok : BOOLEAN, got : Values \cup {None},
          at : {"idle", "create", "write", "flush", "rename", "renamed", "cleanup",
                "exists", "open", "read", "delete"}]]

\* No file is ever torn, not by an error, a crash or a loss of power between any
\* two calls (write, flush and rename, in this order).  A temporary file, which
\* holds what the destination is protected for, is there only while its writer is
\* at work and has not renamed it, whichever call of it fails, unless a crash or a
\* failed deletion has left one behind (removeTemporary).
OnlyWholeFiles ==
    /\ \A p \in Paths : file[p] # Torn
    /\ \A t \in Threads :
          temp[t] # None => call[t].at \in {"write", "flush", "rename", "cleanup"} \/ litter
=============================================================================
