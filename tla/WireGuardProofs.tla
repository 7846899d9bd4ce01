--------------------------- MODULE WireGuardProofs ---------------------------
(***************************************************************************)
(* What TLAPS proves of PrivateFiles and WireGuardTunnel, for any number of *)
(* workers, values and calls and for all faults: the types, the safety      *)
(* properties, and that the sessions of SecureStore implement AtomicStore.  *)
(***************************************************************************)
EXTENDS WireGuardTunnel, TLAPS

\* Where a save, a load and a removal are
Saving == {"create", "write", "flush", "rename", "renamed", "cleanup"}

\* What one thread is doing, and what it holds while it does
Working(t) ==
    /\ call[t].op = "none" <=> At(t, "idle")
    /\ ~At(t, "idle") => Path(t) = IF t = Tunnel THEN Config ELSE Session
    /\ call[t].at \in Saving => call[t].op = "save" /\ call[t].arg \in Values
    /\ call[t].at \in {"open", "read"} => call[t].op = "load"
    /\ At(t, "delete") => call[t].op = "remove"
    /\ At(t, "exists") => call[t].op \in {"load", "remove"}
    /\ ~At(t, "idle") => call[t].got = None
    /\ temp[t] # None => call[t].at \in {"write", "flush", "rename", "cleanup"} \/ litter
    /\ call[t].at \in {"flush", "rename"} => temp[t] = call[t].arg
    /\ At(t, "renamed") => writer[Path(t)] = t
    /\ At(t, "read") => t \in readers[Path(t)] /\ file[Path(t)] # None

FileInv ==
    /\ \A p \in Paths : file[p] # Torn /\ flushed[p]
    /\ \A t \in Threads : Working(t)
    /\ \A p \in Paths : writer[p] # None => At(writer[p], "renamed") /\ Path(writer[p]) = p
    /\ \A p \in Paths : \A t \in readers[p] : At(t, "read") /\ Path(t) = p

\* The tunnel and its file.  Between a removal and the next install there is no
\* tunnel service, or a check has missed it.
Cleared == ~Present \/ blind

TunnelInv ==
    /\ ~Present => service = Absent /\ ~blind
    /\ ~At(Tunnel, "idle") => tunnel.at \in {"writing", "removing"}
    /\ In("writing") /\ ~At(Tunnel, "idle") => call[Tunnel].op = "save" /\ call[Tunnel].arg = tunnel.keys
    /\ In("removing") /\ ~At(Tunnel, "idle") => call[Tunnel].op = "remove"
    /\ In("writing") /\ At(Tunnel, "idle") /\ call[Tunnel].ok => file[Config] = tunnel.keys
    /\ In("writing") /\ At(Tunnel, "renamed") => file[Config] = tunnel.keys
    /\ In("removing") /\ At(Tunnel, "idle") /\ call[Tunnel].ok => file[Config] = None
    /\ tunnel.at \in {"write", "writing", "install", "remove", "removing"} => Cleared
    /\ In("install") => file[Config] = tunnel.keys
    /\ In("poll") => Present /\ service.keys = tunnel.keys
    /\ tunnel.at \in {"ready", "exists", "write", "writing", "install", "poll"} => tunnel.keys \in Values
    /\ tunnel.cause = "replace" => tunnel.keys \in Values

Results == {"none", "up", "down", "rolledBack", "failed", "refused", "stuck", "lost"}
Stages == {"idle", "ready", "exists", "write", "writing", "install", "poll",
           "down", "uninstall", "remove", "removing"}
TunnelType == [keys : Values \cup {None}, cause : {"user", "replace", "rollback"},
               result : Results, at : Stages]

TunnelTypeOK ==
    /\ service \in [state : {"absent", "starting", "running", "stopped"}, keys : Values \cup {None, Torn}]
    /\ blind \in BOOLEAN /\ ops \in 0..MaxOps
    /\ tunnel \in TunnelType

Operation == TunnelTypeOK /\ TunnelInv /\ ResultIsTrue /\ ServiceHasItsFile
CallType == [op : {"none", "save", "load", "remove"}, path : Paths \cup {None},
             arg : Values \cup {None}, ok : BOOLEAN, got : Values \cup {None},
             at : {"idle", "create", "write", "flush", "rename", "renamed", "cleanup",
                   "exists", "open", "read", "delete"}]

DiskTypeOK ==
    /\ file \in [Paths -> Values \cup {None, Torn}] /\ flushed \in [Paths -> BOOLEAN]
    /\ readers \in [Paths -> SUBSET Threads] /\ writer \in [Paths -> Threads \cup {None}]
    /\ temp \in [Threads -> Values \cup {None, Torn}] /\ litter \in BOOLEAN

\* What is preserved of the files
Files == DiskTypeOK /\ call \in [Threads -> CallType] /\ FileInv

IInv == Files /\ calls \in 0..MaxCalls /\ Operation

USE FilesAssumption, TunnelAssumption DEF Saving

LEMMA FilesAreTyped == Files /\ calls \in 0..MaxCalls => FilesTypeOK
  BY DEF Files, DiskTypeOK, FileInv, FilesTypeOK, CallType, At

-----------------------------------------------------------------------------
(* The private files *)

\* One thread moves on.
LEMMA OneMoves ==
  ASSUME call \in [Threads -> CallType], NEW t \in Threads, NEW r \in CallType,
         call' = [call EXCEPT ![t] = r]
  PROVE  /\ call' \in [Threads -> CallType] /\ call'[t] = r
         /\ \A u \in Threads \ {t} : call'[u] = call[u]
  OBVIOUS

LEMMA GotoMoves ==
  ASSUME call \in [Threads -> CallType], NEW t \in Threads,
         NEW at \in {"write", "flush", "rename", "renamed", "cleanup", "open", "read", "delete"}, Goto(t, at)
  PROVE  /\ call' \in [Threads -> CallType]
         /\ call'[t].at = at /\ call'[t].op = call[t].op /\ call'[t].path = call[t].path
         /\ call'[t].arg = call[t].arg /\ call'[t].ok = call[t].ok /\ call'[t].got = call[t].got
         /\ \A u \in Threads \ {t} : call'[u] = call[u]
  <1>1. [call[t] EXCEPT !.at = at] \in CallType
    BY Zenon DEF CallType
  <1>2. PICK r \in CallType : r = [call[t] EXCEPT !.at = at]
    BY <1>1
  <1>3. call' = [call EXCEPT ![t] = r]
    BY <1>2 DEF Goto
  <1>4. /\ r.at = at /\ r.op = call[t].op /\ r.path = call[t].path
        /\ r.arg = call[t].arg /\ r.ok = call[t].ok /\ r.got = call[t].got
    BY <1>2, Zenon DEF CallType
  <1> QED BY <1>3, <1>4, OneMoves

LEMMA IdleType == Idle \in CallType
  BY DEF Idle, CallType

LEMMA DoneMoves ==
  ASSUME call \in [Threads -> CallType], NEW t \in Threads, NEW ok \in BOOLEAN, Done(t, ok)
  PROVE  /\ call' \in [Threads -> CallType]
         /\ call'[t] = [Idle EXCEPT !.ok = ok]
         /\ call'[t].at = "idle" /\ call'[t].op = "none" /\ call'[t].ok = ok
         /\ call'[t].arg = None /\ call'[t].got = None
         /\ \A u \in Threads \ {t} : call'[u] = call[u]
  <1>1. [Idle EXCEPT !.ok = ok] \in CallType
    BY IdleType, Zenon DEF CallType
  <1>2. PICK r \in CallType : r = [Idle EXCEPT !.ok = ok]
    BY <1>1
  <1>3. call' = [call EXCEPT ![t] = r]
    BY <1>2, Zenon DEF Done
  <1>4. r.at = Idle.at /\ r.op = Idle.op /\ r.ok = ok /\ r.arg = Idle.arg /\ r.got = Idle.got
    BY <1>2, IdleType, Zenon DEF CallType
  <1>5. Idle.at = "idle" /\ Idle.op = "none" /\ Idle.arg = None /\ Idle.got = None
    BY DEF Idle
  <1> QED BY <1>2, <1>3, <1>4, <1>5, OneMoves, Zenon

LEMMA AnswerMoves ==
  ASSUME call \in [Threads -> CallType], NEW t \in Threads, NEW got \in Values \cup {None}, Answer(t, got)
  PROVE  /\ call' \in [Threads -> CallType]
         /\ call'[t] = [Idle EXCEPT !.got = got]
         /\ call'[t].at = "idle" /\ call'[t].op = "none" /\ call'[t].ok = TRUE
         /\ call'[t].arg = None /\ call'[t].got = got
         /\ \A u \in Threads \ {t} : call'[u] = call[u]
  <1>1. [Idle EXCEPT !.got = got] \in CallType
    BY IdleType, Zenon DEF CallType
  <1>2. PICK r \in CallType : r = [Idle EXCEPT !.got = got]
    BY <1>1
  <1>3. call' = [call EXCEPT ![t] = r]
    BY <1>2, Zenon DEF Answer
  <1>4. r.at = Idle.at /\ r.op = Idle.op /\ r.ok = Idle.ok /\ r.arg = Idle.arg /\ r.got = got
    BY <1>2, IdleType, Zenon DEF CallType
  <1>5. Idle.at = "idle" /\ Idle.op = "none" /\ Idle.arg = None /\ Idle.ok = TRUE
    BY DEF Idle
  <1> QED BY <1>2, <1>3, <1>4, <1>5, OneMoves, Zenon

\* What the others hold stays theirs.
LEMMA OthersWork ==
  ASSUME Files, NEW u \in Threads, call'[u] = call[u], temp'[u] = temp[u], litter => litter',
         At(u, "renamed") => writer'[Path(u)] = u,
         At(u, "read") => u \in readers'[Path(u)] /\ file'[Path(u)] # None
  PROVE  Working(u)'
  <1>1. Working(u)
    BY DEF Files, FileInv
  <1> QED BY <1>1 DEF Working, At, Path
LEMMA BeginKeeps ==
  ASSUME Files, NEW t \in Threads, NEW op \in {"save", "load", "remove"}, NEW path \in Paths,
         NEW arg \in Values \cup {None}, NEW at \in {"create", "exists"},
         path = IF t = Tunnel THEN Config ELSE Session,
         at = "create" => op = "save" /\ arg \in Values,
         at = "exists" => op \in {"load", "remove"},
         Begin(t, op, path, arg, at)
  PROVE  /\ Files'
         /\ call'[t].op = op /\ call'[t].arg = arg /\ call'[t].at = at
         /\ call'[t].ok = Idle.ok /\ call'[t].got = None
         /\ \A u \in Threads \ {t} : call'[u] = call[u]
         /\ UNCHANGED file
  <1> USE DEF Files
  <1>1. [Idle EXCEPT !.op = op, !.path = path, !.arg = arg, !.at = at] \in CallType
    BY IdleType, Zenon DEF CallType
  <1>2. PICK r \in CallType : r = [Idle EXCEPT !.op = op, !.path = path, !.arg = arg, !.at = at]
    BY <1>1
  <1>3. call' = [call EXCEPT ![t] = r] /\ UNCHANGED disk /\ At(t, "idle")
    BY <1>2, Zenon DEF Begin
  <1>4. r.op = op /\ r.path = path /\ r.arg = arg /\ r.at = at /\ r.got = Idle.got
    BY <1>2 DEF Idle
  <1>5. Idle.got = None /\ r.ok = Idle.ok
    <2>1. Idle.got = None
      BY DEF Idle
    <2>2. r.ok = Idle.ok
      BY <1>2, IdleType, Zenon DEF CallType
    <2> QED BY <2>1, <2>2
  <1>6. call' \in [Threads -> CallType] /\ call'[t] = r /\ \A u \in Threads \ {t} : call'[u] = call[u]
    BY <1>3, OneMoves
  <1>7. UNCHANGED <<file, flushed, readers, writer, temp, litter>>
    BY <1>3 DEF disk
  <1>8. DiskTypeOK'
    BY <1>7 DEF DiskTypeOK
  <1>9. Working(t) /\ Working(t)'
    <2>1. Working(t)
      BY DEF FileInv
    <2>2. temp[t] = None \/ litter
      BY <1>3, <2>1 DEF Working, At
    <2>3. r.got = None
      BY <1>4, <1>5, Zenon
    <2> QED BY <1>4, <1>6, <1>7, <2>1, <2>2, <2>3 DEF Working, At, Path
  <1>10. ASSUME NEW u \in Threads \ {t} PROVE Working(u)'
    <2>1. Working(u)
      BY DEF FileInv
    <2> QED BY <1>6, <1>7, <2>1, OthersWork DEF Working
  <1>11. FileInv'
    BY <1>3, <1>6, <1>7, <1>9, <1>10 DEF FileInv, DiskTypeOK, At, Path
  <1> QED BY <1>4, <1>5, <1>6, <1>7, <1>8, <1>11, Zenon

\* A step of one thread keeps what FileInv says if it does so for the thread,
\* and takes no handle from another.
LEMMA OneWorks ==
  ASSUME Files, NEW t \in Threads, DiskTypeOK', call' \in [Threads -> CallType], Working(t)',
         litter => litter',
         \A u \in Threads \ {t} : call'[u] = call[u] /\ temp'[u] = temp[u],
         \A p \in Paths : file'[p] # Torn /\ flushed'[p],
         \A p \in Paths : writer[p] \notin {None, t} => writer'[p] = writer[p],
         \A p \in Paths : writer'[p] = writer[p] \/ writer'[p] \in {None, t},
         \A p \in Paths : writer'[p] = t => At(t, "renamed")' /\ Path(t)' = p,
         \A p \in Paths : readers'[p] \ {t} = readers[p] \ {t},
         \A p \in Paths : t \in readers'[p] => At(t, "read")' /\ Path(t)' = p,
         \A p \in Paths : file[p] # None /\ readers[p] # {} => file'[p] # None
  PROVE  Files'
  <1> USE DEF Files
  <1>1. ASSUME NEW u \in Threads \ {t} PROVE Working(u)'
    <2>1. Working(u) /\ Path(u) \in Paths \cup {None}
      BY DEF FileInv, CallType, Path
    <2>2. ~At(u, "idle") => Path(u) \in Paths
      BY <2>1 DEF Working
    <2> QED BY <1>1, <2>1, <2>2, OthersWork DEF Working, At
  <1>2. ASSUME NEW p \in Paths, writer'[p] # None PROVE At(writer[p], "renamed")' /\ Path(writer[p])' = p
    BY <1>2 DEF FileInv, At, Path, DiskTypeOK
  <1>3. ASSUME NEW p \in Paths, NEW u \in readers'[p] PROVE At(u, "read")' /\ Path(u)' = p
    <2>1. u \in Threads
      BY <1>3 DEF DiskTypeOK
    <2>2. CASE u # t
      <3>1. u \in readers[p]
        BY <1>3, <2>2
      <3> QED BY <2>1, <2>2, <3>1 DEF FileInv, At, Path
    <2> QED BY <1>3, <2>2
  <1>4. \A u \in Threads : Working(u)'
    BY <1>1
  <1>5. FileInv'
    BY <1>2, <1>3, <1>4 DEF FileInv
  <1> QED BY <1>5

\* The steps that change no file and no handle
LEMMA NoHandleWorks ==
  ASSUME Files, NEW t \in Threads, call' \in [Threads -> CallType], Working(t)',
         call[t].at \notin {"renamed", "read"},
         \A u \in Threads \ {t} : call'[u] = call[u] /\ temp'[u] = temp[u],
         temp' \in [Threads -> Values \cup {None, Torn}],
         UNCHANGED <<file, flushed, readers, writer, litter>>
  PROVE  Files'
  <1>1. DiskTypeOK'
    BY DEF Files, DiskTypeOK
  <1>2. \A p \in Paths : writer[p] # t /\ t \notin readers[p]
    BY DEF Files, FileInv, At
  <1>3. \A p \in Paths : file'[p] # Torn /\ flushed'[p]
    BY DEF Files, FileInv
  <1> QED BY <1>1, <1>2, <1>3, OneWorks

\* writePrivateFile
LEMMA CreateKeeps ==
  ASSUME Files, NEW t \in Threads, Create(t)
  PROVE  Files'
  <1> USE DEF Files
  <1>1. Working(t) /\ At(t, "create") /\ UNCHANGED <<file, flushed, readers, writer, litter>>
    BY DEF FileInv, Create
  <1>2. call' \in [Threads -> CallType] /\ \A u \in Threads \ {t} : call'[u] = call[u]
    BY GotoMoves, DoneMoves DEF Create
  <1>3. temp' \in [Threads -> Values \cup {None, Torn}] /\ \A u \in Threads \ {t} : temp'[u] = temp[u]
    BY DEF Create, DiskTypeOK
  <1>4. Working(t)'
    <2>1. CASE temp' = [temp EXCEPT ![t] = Torn] /\ Goto(t, "write")
      BY <1>1, <2>1, GotoMoves DEF Working, At, Path
    <2>2. CASE Done(t, FALSE) /\ UNCHANGED temp
      BY <1>1, <2>2, DoneMoves DEF Working, At, Path
    <2> QED BY <2>1, <2>2 DEF Create
  <1> QED BY <1>1, <1>2, <1>3, <1>4, NoHandleWorks DEF At

LEMMA WriteKeeps ==
  ASSUME Files, NEW t \in Threads, Write(t)
  PROVE  Files'
  <1> USE DEF Files
  <1>1. Working(t) /\ At(t, "write") /\ UNCHANGED <<file, flushed, readers, writer, litter>>
    BY DEF FileInv, Write
  <1>2. call' \in [Threads -> CallType] /\ \A u \in Threads \ {t} : call'[u] = call[u]
    BY GotoMoves DEF Write
  <1>3. temp' \in [Threads -> Values \cup {None, Torn}] /\ \A u \in Threads \ {t} : temp'[u] = temp[u]
    BY <1>1 DEF Write, DiskTypeOK, Working, At
  <1>4. Working(t)'
    <2>1. CASE temp' = [temp EXCEPT ![t] = call[t].arg] /\ Goto(t, "flush")
      BY <1>1, <2>1, GotoMoves DEF Working, At, Path, DiskTypeOK
    <2>2. CASE Goto(t, "cleanup") /\ UNCHANGED temp
      BY <1>1, <2>2, GotoMoves DEF Working, At, Path
    <2> QED BY <2>1, <2>2 DEF Write
  <1> QED BY <1>1, <1>2, <1>3, <1>4, NoHandleWorks DEF At

LEMMA FlushKeeps ==
  ASSUME Files, NEW t \in Threads, Flush(t)
  PROVE  Files'
  <1> USE DEF Files
  <1>1. Working(t) /\ At(t, "flush") /\ UNCHANGED <<file, flushed, readers, writer, temp, litter>>
    BY DEF FileInv, Flush, disk
  <1>2. PICK at \in {"rename", "cleanup"} : Goto(t, at)
    BY DEF Flush
  <1>3. Working(t)'
    BY <1>1, <1>2, GotoMoves DEF Working, At, Path
  <1>4. call' \in [Threads -> CallType] /\ \A u \in Threads \ {t} : call'[u] = call[u]
    BY <1>2, GotoMoves
  <1> QED BY <1>1, <1>3, <1>4, NoHandleWorks DEF At, DiskTypeOK

LEMMA RenameKeeps ==
  ASSUME Files, NEW t \in Threads, Rename(t)
  PROVE  Files'
  <1> USE DEF Files
  <1>1. Working(t) /\ At(t, "rename") /\ UNCHANGED <<readers, litter>>
    BY DEF FileInv, Rename
  <1>2. CASE /\ ~Shared(Path(t)) /\ Goto(t, "renamed")
             /\ file' = [file EXCEPT ![Path(t)] = temp[t]]
             /\ flushed' = [flushed EXCEPT ![Path(t)] = IsFlushed]
             /\ writer' = [writer EXCEPT ![Path(t)] = t]
             /\ temp' = [temp EXCEPT ![t] = None]
    <2>1. Path(t) \in Paths /\ temp[t] \in Values /\ readers[Path(t)] = {} /\ writer[Path(t)] = None
      BY <1>1, <1>2 DEF Working, At, Shared
    <2>2. call' \in [Threads -> CallType] /\ \A u \in Threads \ {t} : call'[u] = call[u]
      BY <1>2, GotoMoves
    <2>3. DiskTypeOK'
      BY <1>1, <1>2, <2>1 DEF DiskTypeOK, IsFlushed
    <2>4. Working(t)'
      BY <1>1, <1>2, <2>1, GotoMoves DEF Working, At, Path, DiskTypeOK
    <2>5. \A p \in Paths : file'[p] # Torn /\ flushed'[p]
      BY <1>2, <2>1 DEF FileInv, IsFlushed, DiskTypeOK
    <2>6. \A p \in Paths : writer[p] # t /\ t \notin readers[p]
      BY <1>1 DEF FileInv, At
    <2>7. \A p \in Paths : writer'[p] = IF p = Path(t) THEN t ELSE writer[p]
      BY <1>2 DEF DiskTypeOK
    <2>8. At(t, "renamed")' /\ Path(t)' = Path(t)
      BY <1>2, GotoMoves DEF At, Path
    <2>9. \A p \in Paths : file[p] # None /\ readers[p] # {} => file'[p] # None
      BY <1>2, <2>1 DEF DiskTypeOK
    <2>10. \A u \in Threads \ {t} : temp'[u] = temp[u]
      BY <1>2 DEF DiskTypeOK
    <2> QED BY <1>1, <2>1, <2>2, <2>3, <2>4, <2>5, <2>6, <2>7, <2>8, <2>9, <2>10, OneWorks
  <1>3. CASE Goto(t, "cleanup") /\ UNCHANGED <<file, flushed, writer, temp>>
    <2>1. Working(t)'
      BY <1>1, <1>3, GotoMoves DEF Working, At, Path
    <2>2. call' \in [Threads -> CallType] /\ \A u \in Threads \ {t} : call'[u] = call[u]
      BY <1>3, GotoMoves
    <2> QED BY <1>1, <1>3, <2>1, <2>2, NoHandleWorks DEF At, DiskTypeOK
  <1> QED BY <1>2, <1>3 DEF Rename

LEMMA CleanupKeeps ==
  ASSUME Files, NEW t \in Threads, Cleanup(t)
  PROVE  Files'
  <1> USE DEF Files
  <1>1. Working(t) /\ call[t].at \in {"cleanup", "renamed"} /\ UNCHANGED <<file, flushed, readers>>
    BY DEF FileInv, Cleanup, At
  <1>2. PICK ok \in BOOLEAN : Done(t, ok)
    BY DEF Cleanup, At
  <1>3. call' \in [Threads -> CallType] /\ \A u \in Threads \ {t} : call'[u] = call[u]
    BY <1>2, DoneMoves
  <1>4. /\ \A p \in Paths : writer'[p] = IF writer[p] = t THEN None ELSE writer[p]
        /\ litter => litter'
        /\ \/ temp' = [temp EXCEPT ![t] = None] /\ litter' = litter
           \/ temp' = [temp EXCEPT ![t] = Torn] /\ litter'
    BY DEF Cleanup
  <1>5. DiskTypeOK'
    BY <1>1 DEF DiskTypeOK, Cleanup
  <1>6. Working(t)'
    <2>1. call'[t].at = "idle" /\ call'[t].op = "none"
      BY <1>2, DoneMoves
    <2>2. temp'[t] = None \/ litter'
      BY <1>4 DEF DiskTypeOK
    <2> QED BY <2>1, <2>2 DEF Working, At, Path
  <1>7. \A p \in Paths : t \notin readers[p]
    BY <1>1 DEF FileInv, At
  <1>8. \A p \in Paths : file'[p] # Torn /\ flushed'[p]
    BY <1>1 DEF FileInv
  <1>9. \A u \in Threads \ {t} : temp'[u] = temp[u]
    BY <1>4 DEF DiskTypeOK
  <1>10. \A p \in Paths : writer'[p] # t
    BY <1>4
  <1> QED BY <1>1, <1>3, <1>4, <1>5, <1>6, <1>7, <1>8, <1>9, <1>10, OneWorks
-----------------------------------------------------------------------------
(* SecureStore::load and remove *)

LEMMA ExistsKeeps ==
  ASSUME Files, NEW t \in Threads, Exists(t)
  PROVE  Files'
  <1> USE DEF Files
  <1>1. Working(t) /\ At(t, "exists") /\ UNCHANGED <<file, flushed, readers, writer, temp, litter>>
    BY DEF FileInv, Exists, disk
  <1>2. Answer(t, None) \/ \E at \in {"open", "delete"} : Goto(t, at) /\ (at = "open" <=> call[t].op = "load")
    BY <1>1 DEF Exists
  <1>3. call' \in [Threads -> CallType] /\ \A u \in Threads \ {t} : call'[u] = call[u]
    <2>1. CASE Answer(t, None)
      BY <2>1, AnswerMoves
    <2>2. CASE \E at \in {"open", "delete"} : Goto(t, at)
      BY <2>2, GotoMoves
    <2> QED BY <1>2, <2>1, <2>2
  <1>4. Working(t)'
    <2>1. CASE Answer(t, None)
      BY <1>1, <2>1, AnswerMoves DEF Working, At, Path
    <2>2. CASE \E at \in {"open", "delete"} : Goto(t, at) /\ (at = "open" <=> call[t].op = "load")
      BY <1>1, <2>2, GotoMoves DEF Working, At, Path
    <2> QED BY <1>2, <2>1, <2>2
  <1> QED BY <1>1, <1>3, <1>4, NoHandleWorks DEF At, DiskTypeOK

LEMMA OpenKeeps ==
  ASSUME Files, NEW t \in Threads, OpenFile(t)
  PROVE  Files'
  <1> USE DEF Files
  <1>1. Working(t) /\ At(t, "open") /\ UNCHANGED <<file, flushed, writer, temp, litter>>
    BY DEF FileInv, OpenFile
  <1>2. CASE /\ file[Path(t)] # None /\ Goto(t, "read")
             /\ readers' = [readers EXCEPT ![Path(t)] = @ \cup {t}]
    <2>1. Path(t) \in Paths
      BY <1>1 DEF Working, At
    <2>2. call' \in [Threads -> CallType] /\ \A u \in Threads \ {t} : call'[u] = call[u]
      BY <1>2, GotoMoves
    <2>3. DiskTypeOK'
      BY <1>1, <1>2, <2>1 DEF DiskTypeOK
    <2>4. Working(t)'
      BY <1>1, <1>2, <2>1, GotoMoves DEF Working, At, Path, DiskTypeOK
    <2>5. \A p \in Paths : file'[p] # Torn /\ flushed'[p] /\ writer[p] # t /\ t \notin readers[p]
      BY <1>1 DEF FileInv, At
    <2>6. \A p \in Paths : readers'[p] = IF p = Path(t) THEN readers[p] \cup {t} ELSE readers[p]
      BY <1>2 DEF DiskTypeOK
    <2>7. At(t, "read")' /\ Path(t)' = Path(t)
      BY <1>2, GotoMoves DEF At, Path
    <2> QED BY <1>1, <2>2, <2>3, <2>4, <2>5, <2>6, <2>7, OneWorks
  <1>3. CASE Done(t, FALSE) /\ UNCHANGED readers
    <2>1. Working(t)'
      BY <1>1, <1>3, DoneMoves DEF Working, At, Path
    <2>2. call' \in [Threads -> CallType] /\ \A u \in Threads \ {t} : call'[u] = call[u]
      BY <1>3, DoneMoves
    <2> QED BY <1>1, <1>3, <2>1, <2>2, NoHandleWorks DEF At, DiskTypeOK
  <1> QED BY <1>2, <1>3 DEF OpenFile

LEMMA ReadKeeps ==
  ASSUME Files, NEW t \in Threads, Read(t)
  PROVE  Files'
  <1> USE DEF Files
  <1>1. Working(t) /\ At(t, "read") /\ UNCHANGED <<file, flushed, writer, temp, litter>>
    BY DEF FileInv, Read
  <1>2. Path(t) \in Paths
    BY <1>1 DEF Working, At
  <1>3. Done(t, FALSE) \/ \E got \in Values : Answer(t, got)
    BY DEF Read
  <1>4. call' \in [Threads -> CallType] /\ \A u \in Threads \ {t} : call'[u] = call[u]
    BY <1>3, DoneMoves, AnswerMoves
  <1>5. readers' = [readers EXCEPT ![Path(t)] = @ \ {t}]
    BY DEF Read
  <1>6. DiskTypeOK'
    BY <1>1, <1>2, <1>5 DEF DiskTypeOK
  <1>7. Working(t)'
    BY <1>1, <1>3, DoneMoves, AnswerMoves DEF Working, At, Path
  <1>8. \A p \in Paths : file'[p] # Torn /\ flushed'[p] /\ writer[p] # t /\ t \notin readers'[p]
    BY <1>1, <1>2, <1>5 DEF FileInv, At, DiskTypeOK
  <1>9. \A p \in Paths : readers'[p] \ {t} = readers[p] \ {t}
    BY <1>5 DEF DiskTypeOK
  <1> QED BY <1>1, <1>4, <1>6, <1>7, <1>8, <1>9, OneWorks

LEMMA DeleteKeeps ==
  ASSUME Files, NEW t \in Threads, DeleteFile(t)
  PROVE  Files'
  <1> USE DEF Files
  <1>1. Working(t) /\ At(t, "delete") /\ UNCHANGED <<flushed, readers, writer, temp, litter>>
    BY DEF FileInv, DeleteFile
  <1>2. PICK ok \in BOOLEAN : Done(t, ok)
    BY DEF DeleteFile
  <1>3. call' \in [Threads -> CallType] /\ \A u \in Threads \ {t} : call'[u] = call[u]
    BY <1>2, DoneMoves
  <1>4. Working(t)'
    <2>1. call'[t].at = "idle" /\ call'[t].op = "none" /\ (temp'[t] = None \/ litter')
      BY <1>1, <1>2, DoneMoves DEF Working, At
    <2> QED BY <2>1 DEF Working, At, Path
  <1>5. CASE ~Shared(Path(t)) /\ file' = [file EXCEPT ![Path(t)] = None]
    <2>1. Path(t) \in Paths /\ readers[Path(t)] = {}
      BY <1>1, <1>5 DEF Working, At, Shared
    <2>2. DiskTypeOK'
      BY <1>1, <1>5, <2>1 DEF DiskTypeOK
    <2>3. \A p \in Paths : file'[p] # Torn /\ flushed'[p] /\ writer[p] # t /\ t \notin readers[p]
      BY <1>1, <1>5, <2>1 DEF FileInv, At, DiskTypeOK
    <2>4. \A p \in Paths : file[p] # None /\ readers[p] # {} => file'[p] # None
      BY <1>5, <2>1 DEF DiskTypeOK
    <2> QED BY <1>1, <1>3, <1>4, <2>2, <2>3, <2>4, OneWorks
  <1>6. CASE UNCHANGED file
    BY <1>1, <1>3, <1>4, <1>6, NoHandleWorks DEF At, DiskTypeOK
  <1> QED BY <1>5, <1>6 DEF DeleteFile

LEMMA FileStepKeeps ==
  ASSUME Files, NEW t \in Threads, FileStep(t)
  PROVE  Files' /\ UNCHANGED calls
  BY CreateKeeps, WriteKeeps, FlushKeeps, RenameKeeps, CleanupKeeps, ExistsKeeps, OpenKeeps, ReadKeeps, DeleteKeeps
     DEF FileStep

\* With its handles a process loses its calls, and leaves its temporary files
\* behind; what is flushed stays.
LEMMA LossKeeps ==
  ASSUME Files, CrashFiles \/ PowerLost
  PROVE  /\ Files' /\ UNCHANGED <<file, calls>>
         /\ call' = [t \in Threads |-> Idle]
  <1> USE DEF Files
  <1>1. ClosesAll
    BY DEF CrashFiles, PowerLost
  <1>2. UNCHANGED file /\ \A p \in Paths : flushed'[p] = TRUE
    BY DEF CrashFiles, PowerLost, FileInv, DiskTypeOK
  <1>3. DiskTypeOK'
    <2>1. flushed' \in [Paths -> BOOLEAN]
      BY DEF CrashFiles, PowerLost, DiskTypeOK
    <2>2. litter' \in BOOLEAN
      BY <1>1, Zenon DEF ClosesAll
    <2> QED BY <1>1, <1>2, <2>1, <2>2 DEF ClosesAll, DiskTypeOK
  <1>4. call' \in [Threads -> CallType] /\ call' = [t \in Threads |-> Idle]
    BY <1>1, IdleType DEF ClosesAll
  <1>5. \A t \in Threads : Working(t)'
    <2>1. \A t \in Threads : temp'[t] = None
      BY <1>1 DEF ClosesAll
    <2> QED BY <1>4, <2>1 DEF Working, At, Path, Idle
  <1>6. FileInv'
    BY <1>1, <1>2, <1>5 DEF FileInv, ClosesAll
  <1> QED BY <1>1, <1>2, <1>3, <1>4, <1>6 DEF ClosesAll
-----------------------------------------------------------------------------
(* What a step of a thread does to the configuration *)

LEMMA OthersSpareConfig ==
  ASSUME Files, NEW t \in Threads \ {Tunnel}, FileStep(t)
  PROVE  file'[Config] = file[Config] /\ call'[Tunnel] = call[Tunnel]
  <1> USE DEF Files
  <1>1. Working(t) /\ t \in Threads
    BY DEF FileInv
  <1>2. ASSUME NEW at \in {"write", "flush", "rename", "renamed", "cleanup", "open", "read", "delete"}, Goto(t, at)
        PROVE  call'[Tunnel] = call[Tunnel]
    BY <1>2, GotoMoves
  <1>3. ASSUME NEW ok \in BOOLEAN, Done(t, ok) PROVE call'[Tunnel] = call[Tunnel]
    BY <1>3, DoneMoves
  <1>4. ASSUME NEW got \in Values \cup {None}, Answer(t, got) PROVE call'[Tunnel] = call[Tunnel]
    <2>1. \A u \in Threads \ {t} : call'[u] = call[u]
      BY <1>4, AnswerMoves
    <2> QED BY <2>1
  <1>5. CASE Create(t) \/ Write(t) \/ Flush(t) \/ Exists(t) \/ OpenFile(t)
    <2>1. UNCHANGED file
      BY <1>5 DEF Create, Write, Flush, Exists, OpenFile, disk
    <2>2. (\E at \in {"write", "flush", "rename", "cleanup", "open", "read", "delete"} : Goto(t, at))
            \/ Done(t, FALSE) \/ Answer(t, None)
      BY <1>5 DEF Create, Write, Flush, Exists, OpenFile
    <2>3. CASE Done(t, FALSE)
      BY <1>3, <2>1, <2>3
    <2> QED BY <1>2, <1>4, <2>1, <2>2, <2>3
  <1>6. CASE Rename(t) \/ DeleteFile(t)
    <2>1. Path(t) = Session
      BY <1>1, <1>6 DEF Working, At, Rename, DeleteFile
    <2>2. file'[Config] = file[Config]
      BY <1>6, <2>1 DEF Rename, DeleteFile, DiskTypeOK
    <2>3. (\E at \in {"renamed", "cleanup"} : Goto(t, at)) \/ \E ok \in BOOLEAN : Done(t, ok)
      BY <1>6 DEF Rename, DeleteFile
    <2> QED BY <1>2, <1>3, <2>2, <2>3
  <1>7. CASE Cleanup(t) \/ Read(t)
    <2>1. UNCHANGED file
      BY <1>7 DEF Cleanup, Read
    <2>2. (\E ok \in BOOLEAN : Done(t, ok)) \/ \E got \in Values : Answer(t, got)
      BY <1>7 DEF Cleanup, Read, At
    <2> QED BY <1>3, <1>4, <2>1, <2>2
  <1> QED BY <1>5, <1>6, <1>7 DEF FileStep

\* A save that returns true has renamed, a removal has left nothing; before
\* that the call is the same.
LEMMA TunnelsFile ==
  ASSUME Files, FileStep(Tunnel)
  PROVE  /\ ~At(Tunnel, "idle")
         /\ ~At(Tunnel, "idle")' => call'[Tunnel].op = call[Tunnel].op /\ call'[Tunnel].arg = call[Tunnel].arg
         /\ At(Tunnel, "renamed")' => file'[Config] = call[Tunnel].arg
         /\ call[Tunnel].op = "save" /\ At(Tunnel, "idle")' /\ call'[Tunnel].ok
              => At(Tunnel, "renamed") /\ UNCHANGED file
         /\ call[Tunnel].op = "remove" /\ At(Tunnel, "idle")' /\ call'[Tunnel].ok => file'[Config] = None
  <1> USE DEF Files
  <1>1. Working(Tunnel) /\ (~At(Tunnel, "idle") => Path(Tunnel) = Config)
    BY DEF FileInv, Working
  <1>2. ASSUME NEW at \in {"write", "flush", "rename", "cleanup", "open", "read", "delete"}, Goto(Tunnel, at),
               ~At(Tunnel, "idle")
        PROVE  /\ ~At(Tunnel, "idle")' /\ ~At(Tunnel, "renamed")'
               /\ call'[Tunnel].op = call[Tunnel].op /\ call'[Tunnel].arg = call[Tunnel].arg
    BY <1>2, GotoMoves DEF At
  <1>3. ASSUME Done(Tunnel, FALSE) PROVE At(Tunnel, "idle")' /\ call'[Tunnel].ok = FALSE
    BY <1>3, DoneMoves, Zenon DEF At
  <1>4. CASE Create(Tunnel) \/ Write(Tunnel) \/ Flush(Tunnel) \/ OpenFile(Tunnel)
    <2>1. ~At(Tunnel, "idle") /\ (Done(Tunnel, FALSE) \/
            \E at \in {"write", "flush", "rename", "cleanup", "open", "read", "delete"} : Goto(Tunnel, at))
      BY <1>4 DEF Create, Write, Flush, OpenFile, At
    <2>2. CASE Done(Tunnel, FALSE)
      BY <1>3, <2>1, <2>2 DEF At
    <2>3. CASE \E at \in {"write", "flush", "rename", "cleanup", "open", "read", "delete"} : Goto(Tunnel, at)
      BY <1>2, <2>1, <2>3
    <2> QED BY <2>1, <2>2, <2>3
  <1>5. CASE Rename(Tunnel)
    <2>1. At(Tunnel, "rename") /\ temp[Tunnel] = call[Tunnel].arg
      BY <1>1, <1>5 DEF Rename, Working, At
    <2>2. CASE Goto(Tunnel, "renamed") /\ file' = [file EXCEPT ![Path(Tunnel)] = temp[Tunnel]]
      BY <1>1, <2>1, <2>2, GotoMoves DEF At, DiskTypeOK
    <2>3. CASE Goto(Tunnel, "cleanup")
      BY <1>2, <2>1, <2>3 DEF At
    <2> QED BY <1>5, <2>2, <2>3 DEF Rename
  <1>6. CASE Cleanup(Tunnel)
    <2>1. CASE At(Tunnel, "cleanup")
      <3>1. Done(Tunnel, FALSE)
        BY <1>6, <2>1 DEF Cleanup, At
      <3> QED BY <1>3, <2>1, <3>1 DEF At
    <2>2. CASE At(Tunnel, "renamed")
      <3>1. Done(Tunnel, TRUE) /\ UNCHANGED file
        BY <1>6, <2>2 DEF Cleanup, At
      <3>2. At(Tunnel, "idle")'
        BY <3>1, DoneMoves DEF At
      <3> QED BY <1>1, <2>2, <3>1, <3>2 DEF Working, At
    <2> QED BY <1>6, <2>1, <2>2 DEF Cleanup
  <1>7. CASE Exists(Tunnel)
    <2>1. At(Tunnel, "exists")
      BY <1>7 DEF Exists
    <2>2. CASE Answer(Tunnel, None) /\ file[Path(Tunnel)] = None /\ UNCHANGED file
      BY <1>1, <2>1, <2>2, AnswerMoves DEF At, Working
    <2>3. CASE \E at \in {"open", "delete"} : Goto(Tunnel, at)
      BY <1>2, <2>1, <2>3 DEF At
    <2> QED BY <1>7, <2>2, <2>3 DEF Exists, disk
  <1>8. CASE Read(Tunnel)
    <2>1. At(Tunnel, "read") /\ call[Tunnel].op = "load"
      BY <1>1, <1>8 DEF Read, Working, At
    <2>2. At(Tunnel, "idle")'
      BY <1>8, DoneMoves, AnswerMoves DEF Read, At
    <2> QED BY <2>1, <2>2 DEF At
  <1>9. CASE DeleteFile(Tunnel)
    <2>1. At(Tunnel, "delete") /\ call[Tunnel].op = "remove"
      BY <1>1, <1>9 DEF DeleteFile, Working, At
    <2>2. CASE Done(Tunnel, TRUE) /\ file' = [file EXCEPT ![Path(Tunnel)] = None]
      BY <1>1, <2>1, <2>2, DoneMoves DEF At, DiskTypeOK
    <2>3. CASE Done(Tunnel, FALSE)
      BY <1>3, <2>1, <2>3 DEF At
    <2> QED BY <1>9, <2>2, <2>3 DEF DeleteFile
  <1> QED BY <1>4, <1>5, <1>6, <1>7, <1>8, <1>9 DEF FileStep
-----------------------------------------------------------------------------
(* connect and disconnect *)

LEMMA RestType == Rest \in TunnelType
  BY DEF Rest, TunnelType, Results, Stages

LEMMA StepMoves ==
  ASSUME tunnel \in TunnelType, NEW at \in Stages, Step(at)
  PROVE  /\ tunnel' \in TunnelType /\ tunnel'.at = at /\ tunnel'.keys = tunnel.keys
         /\ tunnel'.cause = tunnel.cause /\ tunnel'.result = tunnel.result
  BY DEF Step, TunnelType

LEMMA DownMoves ==
  ASSUME tunnel \in TunnelType, NEW cause \in {"user", "replace", "rollback"}, Down(cause)
  PROVE  /\ tunnel' \in TunnelType /\ tunnel'.at = "down" /\ tunnel'.keys = tunnel.keys
         /\ tunnel'.cause = cause /\ tunnel'.result = tunnel.result
  <1>1. "down" \in Stages
    BY DEF Stages
  <1>2. tunnel' \in TunnelType
    BY <1>1, Zenon DEF Down, TunnelType
  <1>3. tunnel'.at = "down" /\ tunnel'.cause = cause
    BY Zenon DEF Down, TunnelType
  <1>4. tunnel'.keys = tunnel.keys /\ tunnel'.result = tunnel.result
    BY Zenon DEF Down, TunnelType
  <1> QED BY <1>2, <1>3, <1>4

LEMMA ResultMoves ==
  ASSUME tunnel \in TunnelType, NEW result \in Results, Result(result)
  PROVE  /\ tunnel' \in TunnelType /\ tunnel'.at = "idle" /\ tunnel'.cause = "user"
         /\ tunnel'.result = result /\ (result = "up" => tunnel'.keys = tunnel.keys)
  <1>1. PICK keys \in Values \cup {None} : keys = IF result = "up" THEN tunnel.keys ELSE None
    BY DEF TunnelType
  <1>2. tunnel' = [Rest EXCEPT !.result = result, !.keys = keys]
    BY <1>1, Zenon DEF Result
  <1>3. tunnel' \in TunnelType
    BY <1>2, RestType, Zenon DEF TunnelType
  <1>4. tunnel'.at = Rest.at /\ tunnel'.cause = Rest.cause /\ tunnel'.result = result /\ tunnel'.keys = keys
    BY <1>2, RestType, Zenon DEF TunnelType
  <1> QED BY <1>1, <1>3, <1>4 DEF Rest

\* A connect or a disconnect begins.
LEMMA BeginMoves ==
  ASSUME NEW keys \in Values \cup {None}, NEW at \in Stages, tunnel' = [Rest EXCEPT !.at = at, !.keys = keys]
  PROVE  /\ tunnel' \in TunnelType /\ tunnel'.at = at /\ tunnel'.keys = keys
         /\ tunnel'.cause = "user" /\ tunnel'.result = "none"
  <1>1. tunnel' \in TunnelType
    BY RestType, Zenon DEF TunnelType
  <1>2. tunnel'.at = at /\ tunnel'.keys = keys
    BY RestType, Zenon DEF TunnelType
  <1>3. tunnel'.cause = Rest.cause /\ tunnel'.result = Rest.result
    BY RestType, Zenon DEF TunnelType
  <1> QED BY <1>1, <1>2, <1>3 DEF Rest
LEMMA EndsMoves ==
  ASSUME tunnel \in TunnelType, NEW ok \in BOOLEAN, Ends(ok)
  PROVE  /\ tunnel' \in TunnelType
         /\ \/ /\ tunnel'.at = "idle" /\ tunnel'.cause = "user"
               /\ tunnel'.result \in {"down", "rolledBack", "stuck"} /\ (tunnel'.result # "stuck" => ok)
            \/ /\ ok /\ tunnel.cause = "replace" /\ tunnel'.at = "write" /\ tunnel'.keys = tunnel.keys
               /\ tunnel'.cause = tunnel.cause
  <1>1. CASE \E result \in {"down", "rolledBack", "stuck"} : Result(result) /\ (result # "stuck" => ok)
    <2>1. PICK result \in {"down", "rolledBack", "stuck"} : Result(result) /\ (result # "stuck" => ok)
      BY <1>1
    <2>2. result \in Results
      BY DEF Results
    <2> QED BY <2>1, <2>2, ResultMoves
  <1>2. CASE ok /\ tunnel.cause = "replace" /\ Step("write")
    <2>1. "write" \in Stages
      BY DEF Stages
    <2> QED BY <1>2, <2>1, StepMoves
  <1>3. tunnel.cause \in {"user", "replace", "rollback"}
    BY DEF TunnelType
  <1> QED BY <1>1, <1>2, <1>3 DEF Ends

LEMMA ConnectKeeps ==
  ASSUME Operation, NEW keys \in Values, Connect(keys)
  PROVE  Operation'
  <1> USE DEF Operation
  <1>1. In("idle") /\ UNCHANGED <<file, call, service, blind>> /\ tunnel' = [Rest EXCEPT !.at = "ready", !.keys = keys]
    BY DEF Connect, files, disk
  <1>2. /\ tunnel' \in TunnelType /\ tunnel'.at = "ready" /\ tunnel'.keys = keys
        /\ tunnel'.cause = "user" /\ tunnel'.result = "none"
    <2>1. "ready" \in Stages
      BY DEF Stages
    <2> QED BY <1>1, <2>1, BeginMoves
  <1>3. TunnelTypeOK'
    BY <1>1, <1>2 DEF Connect, TunnelTypeOK, TunnelType
  <1>4. TunnelInv'
    BY <1>1, <1>2 DEF TunnelInv, In, At, Cleared, Present
  <1>5. ResultIsTrue' /\ ServiceHasItsFile'
    BY <1>1, <1>2 DEF ResultIsTrue, ServiceHasItsFile, In, Present
  <1> QED BY <1>3, <1>4, <1>5

LEMMA DisconnectKeeps ==
  ASSUME Operation, Disconnect
  PROVE  Operation'
  <1> USE DEF Operation
  <1>1. In("idle") /\ UNCHANGED <<file, call, service, blind>> /\ tunnel' = [Rest EXCEPT !.at = "down"]
    BY DEF Disconnect, files, disk
  <1>2. /\ tunnel' \in TunnelType /\ tunnel'.at = "down" /\ tunnel'.cause = "user" /\ tunnel'.result = "none"
    BY <1>1 DEF Rest, TunnelType, Stages, Results
  <1>3. TunnelTypeOK'
    BY <1>1, <1>2 DEF Disconnect, TunnelTypeOK, TunnelType
  <1>4. TunnelInv'
    BY <1>1, <1>2 DEF TunnelInv, In, At, Cleared, Present
  <1>5. ResultIsTrue' /\ ServiceHasItsFile'
    BY <1>1, <1>2 DEF ResultIsTrue, ServiceHasItsFile, In, Present
  <1> QED BY <1>3, <1>4, <1>5

\* A step that leaves the files, the service and what was missed as they are
LEMMA StillKeeps ==
  ASSUME Operation, UNCHANGED <<file, call, service, blind, ops>>,
         tunnel.at \notin {"idle", "writing", "removing"}, tunnel' \in TunnelType,
         \/ tunnel'.at \in {"exists", "down", "uninstall"} /\ tunnel'.keys = tunnel.keys
         \/ tunnel'.at \in {"write", "remove"} /\ tunnel'.keys = tunnel.keys /\ Cleared
         \/ tunnel'.at = "idle" /\ tunnel'.result \notin {"up", "down", "rolledBack"}
         \/ tunnel'.at = "idle" /\ tunnel'.result = "up" /\ tunnel'.keys = tunnel.keys /\ In("poll"),
         tunnel'.at \in {"exists", "write"} => tunnel.keys \in Values,
         tunnel'.at # "idle" /\ tunnel'.cause = "replace" => tunnel.keys \in Values,
         tunnel'.at = "idle" => tunnel'.cause = "user"
  PROVE  Operation'
  <1> USE DEF Operation
  <1>1. TunnelTypeOK'
    BY DEF TunnelTypeOK
  <1>2. TunnelInv'
    BY DEF TunnelInv, In, At, Cleared, Present
  <1>3. ResultIsTrue' /\ ServiceHasItsFile'
    BY DEF TunnelInv, ResultIsTrue, ServiceHasItsFile, In, Present
  <1> QED BY <1>1, <1>2, <1>3

LEMMA ReadyKeeps ==
  ASSUME Operation, ConnectReady
  PROVE  Operation'
  <1> USE DEF Operation
  <1>1. In("ready") /\ UNCHANGED <<file, call, service, blind, ops>> /\ (Step("exists") \/ Result("refused"))
    BY DEF ConnectReady, files, disk
  <1>2. tunnel \in TunnelType /\ "exists" \in Stages /\ "refused" \in Results
    BY DEF TunnelTypeOK, Stages, Results
  <1>3. tunnel.keys \in Values
    BY <1>1 DEF TunnelInv, In
  <1>4. CASE Step("exists")
    BY <1>1, <1>2, <1>3, <1>4, StepMoves, StillKeeps DEF In
  <1>5. CASE Result("refused")
    BY <1>1, <1>2, <1>5, ResultMoves, StillKeeps DEF In
  <1> QED BY <1>1, <1>4, <1>5

LEMMA PollKeeps ==
  ASSUME Operation, ConnectPoll
  PROVE  Operation'
  <1> USE DEF Operation
  <1>1. In("poll") /\ UNCHANGED <<file, call, service, blind, ops>> /\ (Result("up") \/ Down("rollback"))
    BY DEF ConnectPoll, files, disk
  <1>2. tunnel \in TunnelType /\ "up" \in Results
    BY DEF TunnelTypeOK, Results
  <1>3. CASE Result("up")
    BY <1>1, <1>2, <1>3, ResultMoves, StillKeeps DEF In
  <1>4. CASE Down("rollback")
    BY <1>1, <1>2, <1>4, DownMoves, StillKeeps DEF In
  <1> QED BY <1>1, <1>3, <1>4

\* A step past a service that a check has missed
LEMMA BlindKeeps ==
  ASSUME Operation, Present, blind' = TRUE, UNCHANGED <<file, call, service, ops>>,
         tunnel.at \notin {"idle", "writing", "removing"}, tunnel' \in TunnelType,
         tunnel'.at \in {"write", "remove"}, tunnel'.keys = tunnel.keys, tunnel'.cause = tunnel.cause,
         tunnel'.at = "write" => tunnel.keys \in Values
  PROVE  Operation'
  <1> USE DEF Operation
  <1>1. TunnelTypeOK'
    BY DEF TunnelTypeOK
  <1>2. TunnelInv'
    BY DEF TunnelInv, In, At, Cleared, Present
  <1>3. ResultIsTrue' /\ ServiceHasItsFile'
    BY DEF ResultIsTrue, ServiceHasItsFile, In
  <1> QED BY <1>1, <1>2, <1>3

LEMMA ConnectExistsKeeps ==
  ASSUME Operation, ConnectExists
  PROVE  Operation'
  <1> USE DEF Operation
  <1>1. /\ In("exists") /\ UNCHANGED <<file, call, service, ops>> /\ tunnel \in TunnelType
        /\ "write" \in Stages /\ tunnel.keys \in Values
    BY DEF ConnectExists, files, disk, TunnelTypeOK, TunnelInv, Stages, In
  <1>2. CASE Down("replace") /\ UNCHANGED blind
    BY <1>1, <1>2, DownMoves, StillKeeps DEF In
  <1>3. CASE ~Present /\ Step("write") /\ UNCHANGED blind
    BY <1>1, <1>3, StepMoves, StillKeeps DEF In, Cleared
  <1>4. CASE Present /\ Step("write") /\ blind' = TRUE
    BY <1>1, <1>4, StepMoves, BlindKeeps DEF In
  <1> QED BY <1>2, <1>3, <1>4 DEF ConnectExists, SeesService, Overlooks

LEMMA DisconnectExistsKeeps ==
  ASSUME Operation, DisconnectExists
  PROVE  Operation'
  <1> USE DEF Operation
  <1>1. /\ In("down") /\ UNCHANGED <<file, call, service, ops>> /\ tunnel \in TunnelType
        /\ {"uninstall", "remove"} \subseteq Stages /\ (tunnel.cause = "replace" => tunnel.keys \in Values)
    BY DEF DisconnectExists, files, disk, TunnelTypeOK, TunnelInv, Stages, In
  <1>2. CASE Step("uninstall") /\ UNCHANGED blind
    BY <1>1, <1>2, StepMoves, StillKeeps DEF In
  <1>3. CASE ~Present /\ Step("remove") /\ UNCHANGED blind
    BY <1>1, <1>3, StepMoves, StillKeeps DEF In, Cleared
  <1>4. CASE Present /\ Step("remove") /\ blind' = TRUE
    BY <1>1, <1>4, StepMoves, BlindKeeps DEF In
  <1> QED BY <1>2, <1>3, <1>4 DEF DisconnectExists, SeesService, Overlooks

LEMMA UninstallKeeps ==
  ASSUME Operation, DisconnectUninstall
  PROVE  Operation'
  <1> USE DEF Operation
  <1>1. /\ In("uninstall") /\ UNCHANGED <<file, call, ops>> /\ tunnel \in TunnelType
        /\ "remove" \in Stages /\ (tunnel.cause = "replace" => tunnel.keys \in Values)
    BY DEF DisconnectUninstall, files, disk, TunnelTypeOK, TunnelInv, Stages, In
  <1>2. CASE service' = Absent /\ blind' = FALSE /\ Step("remove")
    <2>1. tunnel' \in TunnelType /\ tunnel'.at = "remove" /\ tunnel'.keys = tunnel.keys /\ tunnel'.cause = tunnel.cause
      BY <1>1, <1>2, StepMoves
    <2>2. TunnelTypeOK'
      BY <1>1, <1>2, <2>1 DEF TunnelTypeOK, Absent
    <2>3. TunnelInv'
      BY <1>1, <1>2, <2>1 DEF TunnelInv, In, At, Cleared, Present, Absent
    <2>4. ResultIsTrue' /\ ServiceHasItsFile'
      BY <1>2, <2>1 DEF ResultIsTrue, ServiceHasItsFile, In, Present, Absent
    <2> QED BY <2>2, <2>3, <2>4
  <1>3. CASE Ends(FALSE) /\ UNCHANGED <<service, blind>>
    <2>1. tunnel' \in TunnelType /\ tunnel'.at = "idle" /\ tunnel'.cause = "user" /\ tunnel'.result = "stuck"
      BY <1>1, <1>3, EndsMoves
    <2> QED BY <1>1, <1>3, <2>1, StillKeeps DEF In
  <1>4. CASE Present /\ Step("remove") /\ blind' = TRUE /\ UNCHANGED service
    BY <1>1, <1>4, StepMoves, BlindKeeps DEF In
  <1> QED BY <1>2, <1>3, <1>4 DEF DisconnectUninstall, RemovalFails, Overlooks

LEMMA InstallKeeps ==
  ASSUME Operation, ConnectInstall
  PROVE  Operation'
  <1> USE DEF Operation
  <1>1. /\ In("install") /\ file[Config] = tunnel.keys /\ tunnel.keys \in Values
        /\ tunnel \in TunnelType /\ "poll" \in Stages /\ UNCHANGED <<file, call, blind, ops>>
        /\ (~Present => ~blind)
    BY DEF ConnectInstall, TunnelInv, TunnelTypeOK, Stages, In, files, disk
  <1>2. CASE Present /\ Down("rollback") /\ UNCHANGED service
    BY <1>1, <1>2, DownMoves, StillKeeps DEF In
  <1>3. CASE ~Present /\ (Step("poll") \/ Down("rollback")) /\ service' = Starting
    <2>1. /\ tunnel' \in TunnelType /\ tunnel'.at \in {"poll", "down"} /\ tunnel'.keys = tunnel.keys
      BY <1>1, <1>3, StepMoves, DownMoves
    <2>2. service'.state = "starting" /\ service'.keys = tunnel.keys
      BY <1>1, <1>3 DEF Starting
    <2>3. TunnelTypeOK'
      BY <1>1, <1>3, <2>1 DEF TunnelTypeOK, Starting
    <2>4. TunnelInv'
      BY <1>1, <2>1, <2>2 DEF TunnelInv, In, At, Cleared, Present
    <2>5. ResultIsTrue' /\ ServiceHasItsFile'
      BY <1>1, <2>1, <2>2 DEF ResultIsTrue, ServiceHasItsFile, In
    <2> QED BY <2>3, <2>4, <2>5
  <1>4. CASE ~Present /\ Down("rollback") /\ UNCHANGED service
    BY <1>1, <1>4, DownMoves, StillKeeps DEF In
  <1> QED BY <1>2, <1>3, <1>4 DEF ConnectInstall, InstallFails

LEMMA ServiceKeeps ==
  ASSUME Operation, ServiceRuns
  PROVE  Operation'
  <1> USE DEF Operation
  <1>1. /\ UNCHANGED <<file, call, tunnel, blind, ops>> /\ Present /\ Present'
        /\ service'.keys = service.keys
    BY DEF ServiceRuns, Present, TunnelTypeOK, files, disk
  <1>2. TunnelTypeOK'
    BY <1>1 DEF ServiceRuns, TunnelTypeOK
  <1>3. TunnelInv'
    BY <1>1 DEF TunnelInv, In, At, Cleared
  <1>4. ResultIsTrue' /\ ServiceHasItsFile'
    BY <1>1 DEF ResultIsTrue, ServiceHasItsFile, In, Present, Absent
  <1> QED BY <1>2, <1>3, <1>4
\* The save of the configuration begins, and has ended.
LEMMA ConnectWriteKeeps ==
  ASSUME Files, Operation, ConnectWrite
  PROVE  Files' /\ Operation'
  <1> USE DEF Operation
  <1>1. tunnel \in TunnelType /\ {"writing", "install"} \subseteq Stages /\ "failed" \in Results
    BY DEF TunnelTypeOK, Stages, Results
  <1>2. CASE /\ In("write") /\ Save(Tunnel, Config, tunnel.keys) /\ Step("writing")
    <2>1. tunnel.keys \in Values /\ Cleared
      BY <1>2 DEF TunnelInv, In
    <2>2. Begin(Tunnel, "save", Config, tunnel.keys, "create")
      BY <1>2 DEF Save
    <2>3. /\ Files' /\ call'[Tunnel].op = "save" /\ call'[Tunnel].arg = tunnel.keys /\ call'[Tunnel].at = "create"
          /\ UNCHANGED file
      BY <2>1, <2>2, BeginKeeps
    <2>4. UNCHANGED <<service, blind, ops>>
      BY DEF ConnectWrite
    <2>5. tunnel' \in TunnelType /\ tunnel'.at = "writing" /\ tunnel'.keys = tunnel.keys
      BY <1>1, <1>2, StepMoves
    <2>6. TunnelTypeOK'
      BY <2>4, <2>5 DEF TunnelTypeOK
    <2>7. TunnelInv'
      BY <2>1, <2>3, <2>4, <2>5 DEF TunnelInv, In, At, Cleared, Present
    <2>8. ResultIsTrue' /\ ServiceHasItsFile'
      BY <2>3, <2>4, <2>5 DEF ResultIsTrue, ServiceHasItsFile, In, Present
    <2> QED BY <2>3, <2>6, <2>7, <2>8
  <1>3. CASE /\ In("writing") /\ At(Tunnel, "idle") /\ UNCHANGED files
             /\ IF call[Tunnel].ok THEN Step("install") ELSE Result("failed")
    <2>1. UNCHANGED <<service, blind, ops, call, file>> /\ UNCHANGED disk
      BY <1>3 DEF ConnectWrite, files, disk
    <2>2. Files'
      BY <2>1 DEF Files, DiskTypeOK, FileInv, Working, At, Path, disk
    <2>3. tunnel.keys \in Values /\ Cleared
      BY <1>3 DEF TunnelInv, In
    <2>4. /\ tunnel' \in TunnelType
          /\ \/ /\ call[Tunnel].ok /\ tunnel'.at = "install" /\ tunnel'.keys = tunnel.keys
             \/ tunnel'.at = "idle" /\ tunnel'.result = "failed" /\ tunnel'.cause = "user"
      BY <1>1, <1>3, StepMoves, ResultMoves
    <2>5. TunnelTypeOK'
      BY <2>1, <2>4 DEF TunnelTypeOK
    <2>6. TunnelInv'
      BY <1>3, <2>1, <2>3, <2>4 DEF TunnelInv, In, At, Cleared, Present
    <2>7. ResultIsTrue' /\ ServiceHasItsFile'
      BY <2>1, <2>4 DEF ResultIsTrue, ServiceHasItsFile, In, Present
    <2> QED BY <2>2, <2>5, <2>6, <2>7
  <1> QED BY <1>2, <1>3 DEF ConnectWrite

\* The removal of the configuration
LEMMA RemoveKeeps ==
  ASSUME Files, Operation, DisconnectRemove
  PROVE  Files' /\ Operation'
  <1> USE DEF Operation
  <1>1. tunnel \in TunnelType /\ "removing" \in Stages
    BY DEF TunnelTypeOK, Stages
  <1>2. CASE /\ In("remove") /\ Remove(Tunnel, Config) /\ Step("removing")
    <2>1. Cleared
      BY <1>2 DEF TunnelInv, In
    <2>2. Begin(Tunnel, "remove", Config, None, "exists")
      BY <1>2 DEF Remove
    <2>3. Files' /\ call'[Tunnel].op = "remove" /\ call'[Tunnel].at = "exists" /\ UNCHANGED file
      BY <2>2, BeginKeeps
    <2>4. UNCHANGED <<service, blind, ops>>
      BY DEF DisconnectRemove
    <2>5. /\ tunnel' \in TunnelType /\ tunnel'.at = "removing" /\ tunnel'.keys = tunnel.keys
          /\ tunnel'.cause = tunnel.cause
      BY <1>1, <1>2, StepMoves
    <2>6. TunnelTypeOK'
      BY <2>4, <2>5 DEF TunnelTypeOK
    <2>7. TunnelInv'
      BY <2>1, <2>3, <2>4, <2>5 DEF TunnelInv, In, At, Cleared, Present
    <2>8. ResultIsTrue' /\ ServiceHasItsFile'
      BY <2>3, <2>4, <2>5 DEF ResultIsTrue, ServiceHasItsFile, In, Present
    <2> QED BY <2>3, <2>6, <2>7, <2>8
  <1>3. CASE /\ In("removing") /\ At(Tunnel, "idle") /\ Ends(call[Tunnel].ok) /\ UNCHANGED files
    <2>1. UNCHANGED <<service, blind, ops, call, file>> /\ UNCHANGED disk
      BY <1>3 DEF DisconnectRemove, files, disk
    <2>2. Files'
      BY <2>1 DEF Files, DiskTypeOK, FileInv, Working, At, Path, disk
    <2>3. Cleared /\ (call[Tunnel].ok => file[Config] = None) /\ (~Present => service = Absent)
      BY <1>3 DEF TunnelInv, In
    <2>4. PICK ok \in BOOLEAN : ok = call[Tunnel].ok
      BY Zenon DEF Files, CallType
    <2>5. /\ tunnel' \in TunnelType
          /\ \/ /\ tunnel'.at = "idle" /\ tunnel'.cause = "user"
                /\ tunnel'.result \in {"down", "rolledBack", "stuck"} /\ (tunnel'.result # "stuck" => ok)
             \/ /\ ok /\ tunnel.cause = "replace" /\ tunnel'.at = "write" /\ tunnel'.keys = tunnel.keys
                /\ tunnel'.cause = tunnel.cause
      BY <1>1, <1>3, <2>4, EndsMoves
    <2>6. TunnelTypeOK'
      BY <2>1, <2>5 DEF TunnelTypeOK
    <2>7. TunnelInv'
      BY <1>3, <2>1, <2>3, <2>5 DEF TunnelInv, In, At, Cleared, Present
    <2>8. ServiceHasItsFile'
      BY <2>1, <2>5 DEF ServiceHasItsFile, Present
    <2>9. ok => file[Config] = None
      BY <2>3, <2>4
    <2>10. ResultIsTrue'
      BY <2>1, <2>3, <2>5, <2>9 DEF ResultIsTrue, In, Cleared
    <2> QED BY <2>2, <2>6, <2>7, <2>8, <2>10
  <1> QED BY <1>2, <1>3 DEF DisconnectRemove

\* The steps of the threads
LEMMA ThreadKeeps ==
  ASSUME Files, Operation, NEW t \in Threads, FileStep(t), UNCHANGED <<service, tunnel, blind, ops>>
  PROVE  Operation'
  <1> USE DEF Operation
  <1>1. TunnelTypeOK'
    BY DEF TunnelTypeOK
  <1>2. CASE t # Tunnel
    <2>1. file'[Config] = file[Config] /\ call'[Tunnel] = call[Tunnel]
      BY <1>2, OthersSpareConfig
    <2>2. TunnelInv'
      BY <2>1 DEF TunnelInv, In, At, Cleared, Present
    <2>3. ResultIsTrue' /\ ServiceHasItsFile'
      BY <2>1 DEF ResultIsTrue, ServiceHasItsFile, In, Present
    <2> QED BY <1>1, <2>2, <2>3
  <1>3. CASE t = Tunnel
    <2>1. /\ ~At(Tunnel, "idle")
          /\ ~At(Tunnel, "idle")' => call'[Tunnel].op = call[Tunnel].op /\ call'[Tunnel].arg = call[Tunnel].arg
          /\ At(Tunnel, "renamed")' => file'[Config] = call[Tunnel].arg
          /\ call[Tunnel].op = "save" /\ At(Tunnel, "idle")' /\ call'[Tunnel].ok
               => At(Tunnel, "renamed") /\ UNCHANGED file
          /\ call[Tunnel].op = "remove" /\ At(Tunnel, "idle")' /\ call'[Tunnel].ok => file'[Config] = None
      BY <1>3, TunnelsFile
    <2>2. tunnel.at \in {"writing", "removing"} /\ Cleared
      BY <2>1 DEF TunnelInv
    <2>3. TunnelInv'
      BY <2>1, <2>2 DEF TunnelInv, In, At, Cleared, Present
    <2>4. ResultIsTrue' /\ ServiceHasItsFile'
      BY <2>2 DEF ResultIsTrue, ServiceHasItsFile, In, Present, Cleared
    <2> QED BY <1>1, <2>3, <2>4
  <1> QED BY <1>2, <1>3

LEMMA RequestKeeps ==
  ASSUME Files, Operation, calls \in 0..MaxCalls, NEW t \in Threads \ {Tunnel}, Request(t, Session),
         UNCHANGED <<service, tunnel, blind, ops>>
  PROVE  Files' /\ Operation' /\ calls' \in 0..MaxCalls
  <1>1. calls' \in 0..MaxCalls
    BY DEF Request
  <1>2. /\ Files' /\ UNCHANGED file
        /\ \A u \in Threads \ {t} : call'[u] = call[u]
    <2>1. CASE Load(t, Session)
      BY <2>1, BeginKeeps DEF Load
    <2>2. CASE Remove(t, Session)
      BY <2>2, BeginKeeps DEF Remove
    <2>3. ASSUME NEW v \in Values, Save(t, Session, v)
          PROVE  Files' /\ UNCHANGED file /\ \A u \in Threads \ {t} : call'[u] = call[u]
      BY <2>3, BeginKeeps DEF Save
    <2> QED BY <2>1, <2>2, <2>3 DEF Request
  <1>3. Operation'
    BY <1>2 DEF Operation, TunnelTypeOK, TunnelInv, ResultIsTrue, ServiceHasItsFile, In, At, Cleared, Present
  <1> QED BY <1>1, <1>2, <1>3

\* The end of the process or of the machine ends the operation.
LEMMA LostKeeps ==
  ASSUME Files, Operation, Crash \/ PowerLoss
  PROVE  Files' /\ Operation' /\ UNCHANGED calls
  <1> USE DEF Operation
  <1>1. Files' /\ UNCHANGED <<file, calls>> /\ call' = [t \in Threads |-> Idle]
    BY LossKeeps DEF Crash, PowerLoss
  <1>2. tunnel' \in TunnelType /\ tunnel'.at = "idle" /\ tunnel'.cause = "user" /\ tunnel'.result = "lost"
    <2>1. Result("lost") /\ tunnel \in TunnelType /\ "lost" \in Results
      BY DEF Crash, PowerLoss, TunnelTypeOK, Results
    <2> QED BY <2>1, ResultMoves
  <1>3. /\ UNCHANGED <<blind, ops>>
        /\ \/ UNCHANGED service
           \/ Present /\ service' = [state |-> "starting", keys |-> file[Config]]
    BY <1>1 DEF Crash, PowerLoss, Starting
  <1>4. TunnelTypeOK'
    BY <1>2, <1>3 DEF TunnelTypeOK, Files, DiskTypeOK
  <1>5. TunnelInv'
    BY <1>1, <1>2, <1>3 DEF TunnelInv, In, At, Cleared, Present, Idle
  <1>6. ResultIsTrue' /\ ServiceHasItsFile'
    BY <1>1, <1>2, <1>3 DEF ResultIsTrue, ServiceHasItsFile, In, Present
  <1> QED BY <1>1, <1>4, <1>5, <1>6
-----------------------------------------------------------------------------
(* The invariant *)

LEMMA InitInv == Init => IInv
  <1> SUFFICES ASSUME Init PROVE IInv
    OBVIOUS
  <1>1. /\ file \in [Paths -> Values \cup {None}] /\ file[Config] = None
        /\ call = [t \in Threads |-> Idle] /\ calls = 0
    BY DEF Init, InitFiles
  <1>2. DiskTypeOK
    BY <1>1 DEF Init, InitFiles, DiskTypeOK
  <1>3. call \in [Threads -> CallType]
    BY <1>1, IdleType
  <1>4. \A t \in Threads : Working(t)
    BY <1>1 DEF Init, InitFiles, Working, At, Idle
  <1>5. FileInv
    BY <1>1, <1>4 DEF Init, InitFiles, FileInv
  <1>6. tunnel = Rest /\ Rest \in TunnelType
    BY RestType DEF Init
  <1>7. TunnelTypeOK
    <2>1. Absent \in [state : {"absent", "starting", "running", "stopped"}, keys : Values \cup {None, Torn}]
      BY DEF Absent
    <2>2. service = Absent /\ blind = FALSE /\ ops = 0
      BY DEF Init
    <2>3. tunnel \in TunnelType
      BY <1>6
    <2>4. blind \in BOOLEAN
      BY <2>2, Zenon
    <2>5. ops \in 0..MaxOps
      BY <2>2
    <2> QED BY <2>1, <2>2, <2>3, <2>4, <2>5, Zenon DEF TunnelTypeOK
  <1>8. tunnel.at = "idle" /\ tunnel.cause = "user" /\ tunnel.result = "none" /\ service.state = "absent" /\ ~blind
    BY <1>6 DEF Init, Rest, Absent
  <1>9. TunnelInv
    BY <1>1, <1>8 DEF Init, TunnelInv, In, At, Idle, Present
  <1>10. ResultIsTrue /\ ServiceHasItsFile
    BY <1>8 DEF ResultIsTrue, ServiceHasItsFile, In, Present
  <1> QED BY <1>1, <1>2, <1>3, <1>5, <1>7, <1>9, <1>10 DEF IInv, Files, Operation

LEMMA SameFiles ==
  ASSUME Files, UNCHANGED files
  PROVE  Files' /\ UNCHANGED calls
  BY DEF Files, DiskTypeOK, FileInv, Working, At, Path, files, disk

LEMMA NextInv ==
  ASSUME IInv, [Next]_vars
  PROVE  IInv'
  <1> USE DEF IInv
  <1>1. ASSUME TunnelStep PROVE IInv'
    <2>1. ASSUME UNCHANGED files, Operation' PROVE IInv'
      BY <2>1, SameFiles
    <2>2. ASSUME UNCHANGED calls, Files', Operation' PROVE IInv'
      BY <2>2
    <2>3. CASE \E keys \in Values : Connect(keys)
      BY <2>1, <2>3, ConnectKeeps DEF Connect
    <2>4. CASE ConnectReady
      BY <2>1, <2>4, ReadyKeeps DEF ConnectReady
    <2>5. CASE ConnectExists
      BY <2>1, <2>5, ConnectExistsKeeps DEF ConnectExists
    <2>6. CASE ConnectWrite
      BY <2>2, <2>6, ConnectWriteKeeps DEF ConnectWrite, files
    <2>7. CASE ConnectInstall
      BY <2>1, <2>7, InstallKeeps DEF ConnectInstall
    <2>8. CASE ConnectPoll
      BY <2>1, <2>8, PollKeeps DEF ConnectPoll
    <2>9. CASE Disconnect
      BY <2>1, <2>9, DisconnectKeeps DEF Disconnect
    <2>10. CASE DisconnectExists
      BY <2>1, <2>10, DisconnectExistsKeeps DEF DisconnectExists
    <2>11. CASE DisconnectUninstall
      BY <2>1, <2>11, UninstallKeeps DEF DisconnectUninstall
    <2>12. CASE DisconnectRemove
      BY <2>2, <2>12, RemoveKeeps DEF DisconnectRemove, files
    <2> QED BY <1>1, <2>3, <2>4, <2>5, <2>6, <2>7, <2>8, <2>9, <2>10, <2>11, <2>12 DEF TunnelStep
  <1>2. CASE ServiceRuns
    BY <1>2, ServiceKeeps, SameFiles DEF ServiceRuns
  <1>3. CASE Crash \/ PowerLoss
    BY <1>3, LostKeeps
  <1>4. ASSUME NEW t \in Threads, FileStep(t), UNCHANGED <<service, tunnel, blind, ops>> PROVE IInv'
    BY <1>4, FileStepKeeps, ThreadKeeps
  <1>5. ASSUME NEW t \in Threads \ {Tunnel}, Request(t, Session), UNCHANGED <<service, tunnel, blind, ops>>
        PROVE  IInv'
    BY <1>5, RequestKeeps
  <1>6. CASE UNCHANGED vars
    <2>1. Files' /\ UNCHANGED calls
      BY <1>6, SameFiles DEF vars
    <2>2. Operation'
      BY <1>6 DEF vars, files, disk, Operation, TunnelTypeOK, TunnelInv, ResultIsTrue, ServiceHasItsFile,
                  In, At, Cleared, Present
    <2> QED BY <2>1, <2>2
  <1> QED BY <1>1, <1>2, <1>3, <1>4, <1>5, <1>6 DEF Next

LEMMA WireGuardInvariant == Spec => []IInv
  <1>1. Init => IInv
    BY InitInv
  <1>2. IInv /\ [Next]_vars => IInv'
    BY NextInv
  <1> QED BY <1>1, <1>2, PTL DEF Spec

\* The types hold, and every open handle is that of a call in progress.
THEOREM WireGuardTypeCorrect == Spec => []TypeOK
  <1>1. IInv => TypeOK
    BY FilesAreTyped DEF IInv, Operation, TunnelTypeOK, TunnelType, Results, Stages, TypeOK
  <1> QED BY <1>1, WireGuardInvariant, PTL

\* No file is ever torn, and a temporary file outlives its writer only by a crash
\* or by a deletion that failed (writePrivateFile), for any number of threads and
\* all faults.
THEOREM FilesAreWhole == Spec => []OnlyWholeFiles
  <1>1. IInv => OnlyWholeFiles
    BY DEF IInv, Files, FileInv, Working, OnlyWholeFiles
  <1> QED BY <1>1, WireGuardInvariant, PTL

\* How connect and disconnect ended is true of the tunnel service and its file.
THEOREM ResultsAreTrue == Spec => []ResultIsTrue
  <1>1. IInv => ResultIsTrue
    BY DEF IInv, Operation
  <1> QED BY <1>1, WireGuardInvariant, PTL

\* The tunnel service's file holds the keys it was installed with.
THEOREM TunnelHasItsFile == Spec => []ServiceHasItsFile
  <1>1. IInv => ServiceHasItsFile
    BY DEF IInv, Operation
  <1> QED BY <1>1, WireGuardInvariant, PTL
-----------------------------------------------------------------------------
(* The sessions implement AtomicStore *)

Entries == [t \in Workers |-> Abstract(t)]

LEMMA Becoming ==
  ASSUME NEW t \in Workers, NEW r, Abstract(t)' = r, \A u \in Workers \ {t} : Abstract(u)' = Abstract(u)
  PROVE  Sessions!Becomes(t, r)
  BY DEF Sessions!Becomes

LEMMA AbstractIs ==
  ASSUME NEW t \in Workers, NEW took \in BOOLEAN, Took(t)' = took
  PROVE  Abstract(t)' = Sessions!Entry(call'[t].op, call'[t].arg, took, call'[t].ok,
                                       IF At(t, "read")' THEN file'[Path(t)'] ELSE call'[t].got)
  BY Zenon DEF Abstract, Sessions!Entry

LEMMA SameAbstract ==
  ASSUME NEW u \in Workers, call'[u] = call[u], At(u, "read") => file'[Path(u)] = file[Path(u)]
  PROVE  Abstract(u)' = Abstract(u)
  <1>1. Took(u)' = Took(u) /\ At(u, "read")' = At(u, "read") /\ Path(u)' = Path(u)
    BY Zenon DEF Took, At, Path
  <1> QED BY <1>1, Zenon DEF Abstract

\* What an entry holds
LEMMA EntryFields ==
  ASSUME NEW op, NEW arg, NEW took, NEW ok, NEW got, NEW e, e = Sessions!Entry(op, arg, took, ok, got)
  PROVE  e.op = op /\ e.arg = arg /\ e.took = took /\ e.ok = ok /\ e.got = got
  BY DEF Sessions!Entry

LEMMA TookIs ==
  ASSUME NEW t \in Workers
  PROVE  Took(t) \in BOOLEAN /\ (Took(t) => Took(t) = TRUE) /\ (~Took(t) => Took(t) = FALSE)
  BY DEF Took

LEMMA EntryHolds ==
  ASSUME NEW t \in Workers
  PROVE  /\ Entries[t].op = call[t].op /\ Entries[t].arg = call[t].arg /\ Entries[t].ok = call[t].ok
         /\ (Took(t) <=> Entries[t].took)
         /\ Entries[t].got = IF At(t, "read") THEN file[Path(t)] ELSE call[t].got
  <1>1. Entries[t] = Abstract(t)
    BY DEF Entries
  <1>2. PICK got : got = IF At(t, "read") THEN file[Path(t)] ELSE call[t].got
    OBVIOUS
  <1>3. ASSUME NEW took, Took(t) = took
        PROVE  /\ Entries[t].op = call[t].op /\ Entries[t].arg = call[t].arg /\ Entries[t].ok = call[t].ok
               /\ Entries[t].took = took /\ Entries[t].got = got
    <2>1. Abstract(t) = Sessions!Entry(call[t].op, call[t].arg, took, call[t].ok, got)
      BY <1>2, <1>3, Zenon DEF Abstract, Sessions!Entry
    <2> QED BY <1>1, <2>1, EntryFields
  <1>4. CASE Took(t)
    <2>1. Took(t) = TRUE
      BY <1>4, TookIs
    <2> QED BY <1>2, <1>3, <1>4, <2>1
  <1>5. CASE ~Took(t)
    <2>1. Took(t) = FALSE
      BY <1>5, TookIs
    <2> QED BY <1>2, <1>3, <1>5, <2>1
  <1> QED BY <1>4, <1>5

\* A call takes effect.
LEMMA Takes ==
  ASSUME NEW t \in Workers, ~Took(t), Took(t)', call[t].op # "none",
         call'[t].op = call[t].op, call'[t].arg = call[t].arg, call'[t].ok = call[t].ok,
         NEW got, got = (IF call[t].op = "load" THEN file[Session] ELSE None),
         got = (IF At(t, "read")' THEN file'[Path(t)'] ELSE call'[t].got),
         file'[Session] = CASE call[t].op = "save" -> call[t].arg
                            [] call[t].op = "remove" -> None
                            [] OTHER -> file[Session],
         \A u \in Workers \ {t} : Abstract(u)' = Abstract(u)
  PROVE  Sessions!Take(t)
  <1>1. /\ Entries[t].op = call[t].op /\ Entries[t].arg = call[t].arg
        /\ Entries[t].ok = call[t].ok /\ ~Entries[t].took
    BY EntryHolds
  <1>2. Sessions!Answered(t) = got
    BY <1>1 DEF Sessions!Answered, Entries
  <1>3. Sessions!Effect(t)
    BY <1>1 DEF Sessions!Effect, Entries
  <1>4. Took(t)' = TRUE
    BY Zenon DEF Took
  <1>5. Abstract(t)' = Sessions!Entry(call'[t].op, call'[t].arg, TRUE, call'[t].ok, got)
    BY <1>4, AbstractIs, Zenon
  <1>6. Abstract(t)' = Sessions!Entry(Entries[t].op, Entries[t].arg, TRUE, Entries[t].ok, Sessions!Answered(t))
    BY <1>1, <1>2, <1>5, Zenon
  <1>7. Sessions!Becomes(t, Sessions!Entry(Entries[t].op, Entries[t].arg, TRUE, Entries[t].ok, Sessions!Answered(t)))
    BY <1>6, Becoming
  <1> QED BY <1>1, <1>3, <1>7, Zenon DEF Sessions!Take, Entries

\* A call returns.
LEMMA Returns ==
  ASSUME NEW t \in Workers, NEW ok \in BOOLEAN, NEW got,
         call'[t].at = "idle", call'[t].op = "none", call'[t].arg = None, call'[t].ok = ok, call'[t].got = got,
         \A u \in Workers \ {t} : Abstract(u)' = Abstract(u)
  PROVE  Sessions!Becomes(t, Sessions!Ended(ok, got))
  <1>1. Took(t)' = FALSE /\ ~At(t, "read")'
    <2>1. ~Took(t)' /\ ~At(t, "read")'
      BY DEF Took, At
    <2>2. Took(t)' = FALSE
      BY <2>1 DEF Took
    <2> QED BY <2>1, <2>2
  <1>2. Abstract(t)' = Sessions!Entry("none", None, FALSE, ok, got)
    BY <1>1, AbstractIs, Zenon
  <1> QED BY <1>2, Becoming, Zenon DEF Sessions!Ended

\* It succeeds after it took effect, succeeds and takes effect at once, or fails.
LEMMA Succeeds ==
  ASSUME NEW t \in Workers, Took(t), call[t].op # "none", file'[Session] = file[Session],
         Sessions!Becomes(t, Sessions!Ended(TRUE, Entries[t].got))
  PROVE  Sessions!Succeed(t)
  <1>1. Entries[t].op = call[t].op /\ Entries[t].took
    BY EntryHolds
  <1> QED BY <1>1, Zenon DEF Sessions!Succeed, Entries

LEMMA SucceedsAtOnce ==
  ASSUME NEW t \in Workers, ~Took(t), call[t].op \in {"load", "remove"},
         NEW got, got = (IF call[t].op = "load" THEN file[Session] ELSE None),
         file'[Session] = (IF call[t].op = "load" THEN file[Session] ELSE None),
         Sessions!Becomes(t, Sessions!Ended(TRUE, got))
  PROVE  Sessions!Succeed(t)
  <1>1. Entries[t].op = call[t].op /\ ~Entries[t].took
    BY EntryHolds
  <1>2. Sessions!Answered(t) = got
    BY <1>1 DEF Sessions!Answered, Entries
  <1>3. Sessions!Effect(t)
    BY <1>1 DEF Sessions!Effect, Entries
  <1>4. Entries[t].op # "none"
    BY <1>1
  <1> QED BY <1>1, <1>2, <1>3, <1>4, Zenon DEF Sessions!Succeed, Entries

LEMMA FailsNow ==
  ASSUME NEW t \in Workers, call[t].op # "none", call[t].op = "load" \/ ~Took(t),
         file'[Session] = file[Session],
         Sessions!Becomes(t, Sessions!Ended(FALSE, None))
  PROVE  Sessions!Fail(t)
  <1>1. Entries[t].op = call[t].op /\ (Took(t) <=> Entries[t].took)
    BY EntryHolds
  <1> QED BY <1>1, Zenon DEF Sessions!Fail, Entries

\* A step on the way changes nothing.
LEMMA Underway ==
  ASSUME NEW t \in Workers, ~Took(t), ~Took(t)',
         call'[t].op = call[t].op, call'[t].arg = call[t].arg, call'[t].ok = call[t].ok, call'[t].got = call[t].got,
         \A u \in Workers \ {t} : Abstract(u)' = Abstract(u)
  PROVE  Entries' = Entries
  <1>1. Took(t) = FALSE /\ Took(t)' = FALSE
    BY DEF Took
  <1>2. ~At(t, "read") /\ ~At(t, "read")'
    BY DEF Took, At
  <1>3. Abstract(t)' = Sessions!Entry(call[t].op, call[t].arg, FALSE, call[t].ok, call[t].got)
    BY <1>1, <1>2, AbstractIs, Zenon
  <1>4. Abstract(t) = Sessions!Entry(call[t].op, call[t].arg, FALSE, call[t].ok, call[t].got)
    BY <1>1, <1>2, Zenon DEF Abstract, Sessions!Entry
  <1>5. \A u \in Workers : Abstract(u)' = Abstract(u)
    BY <1>3, <1>4, Zenon
  <1> QED BY <1>5, Zenon DEF Entries

\* A step of one thread is invisible in the calls of the others: what one reads
\* is neither replaced nor deleted.
LEMMA OthersSame ==
  ASSUME Files, NEW t \in Threads, FileStep(t), NEW u \in Threads \ {t}
  PROVE  call'[u] = call[u] /\ (At(u, "read") => file'[Path(u)] = file[Path(u)])
  <1> USE DEF Files
  <1>1. ASSUME NEW at \in {"write", "flush", "rename", "renamed", "cleanup", "open", "read", "delete"}, Goto(t, at)
        PROVE  call'[u] = call[u]
    BY <1>1, GotoMoves
  <1>2. ASSUME NEW ok \in BOOLEAN, Done(t, ok) PROVE call'[u] = call[u]
    BY <1>2, DoneMoves
  <1>3. ASSUME NEW got \in Values \cup {None}, Answer(t, got) PROVE call'[u] = call[u]
    <2>1. \A w \in Threads \ {t} : call'[w] = call[w]
      BY <1>3, AnswerMoves
    <2> QED BY <2>1
  <1>4. CASE Create(t) \/ Write(t) \/ Flush(t) \/ Exists(t) \/ OpenFile(t)
    <2>1. UNCHANGED file
      BY <1>4 DEF Create, Write, Flush, Exists, OpenFile, disk
    <2>2. (\E at \in {"write", "flush", "rename", "cleanup", "open", "read", "delete"} : Goto(t, at))
            \/ Done(t, FALSE) \/ Answer(t, None)
      BY <1>4 DEF Create, Write, Flush, Exists, OpenFile
    <2>3. CASE Done(t, FALSE)
      BY <1>2, <2>1, <2>3
    <2> QED BY <1>1, <1>3, <2>1, <2>2, <2>3
  <1>5. CASE Rename(t) \/ DeleteFile(t)
    <2>1. UNCHANGED file \/ (~Shared(Path(t)) /\ \E v : file' = [file EXCEPT ![Path(t)] = v])
      BY <1>5 DEF Rename, DeleteFile
    <2>2. At(u, "read") => u \in readers[Path(u)] /\ Path(u) \in Paths
      BY DEF FileInv, Working, At
    <2>3. At(u, "read") => file'[Path(u)] = file[Path(u)]
      BY <2>1, <2>2 DEF Shared, DiskTypeOK
    <2>4. (\E at \in {"renamed", "cleanup"} : Goto(t, at)) \/ \E ok \in BOOLEAN : Done(t, ok)
      BY <1>5 DEF Rename, DeleteFile
    <2> QED BY <1>1, <1>2, <2>3, <2>4
  <1>6. CASE Cleanup(t) \/ Read(t)
    <2>1. UNCHANGED file
      BY <1>6 DEF Cleanup, Read
    <2>2. (\E ok \in BOOLEAN : Done(t, ok)) \/ \E got \in Values : Answer(t, got)
      BY <1>6 DEF Cleanup, Read, At
    <2> QED BY <1>2, <1>3, <2>1, <2>2
  <1> QED BY <1>4, <1>5, <1>6 DEF FileStep

\* A step of a worker is a step of the abstract store, or none.
Visible(t) == Sessions!Take(t) \/ Sessions!Succeed(t) \/ Sessions!Fail(t) \/ UNCHANGED <<file[Session], Entries>>

LEMMA WorkerSteps ==
  ASSUME Files, NEW t \in Workers, FileStep(t)
  PROVE  Visible(t)
  <1> USE DEF Files
  <1>1. Working(t) /\ t \in Threads /\ t # Tunnel /\ (~At(t, "idle") => Path(t) = Session)
    BY DEF FileInv, Working, Workers
  <1>2. \A u \in Workers \ {t} : Abstract(u)' = Abstract(u)
    BY OthersSame, SameAbstract DEF Workers
  <1>3. ASSUME Done(t, FALSE), ~At(t, "idle"), call[t].op = "load" \/ ~Took(t), UNCHANGED file
        PROVE  Visible(t)
    <2>1. Sessions!Becomes(t, Sessions!Ended(FALSE, None))
      BY <1>1, <1>2, <1>3, DoneMoves, Returns
    <2>2. call[t].op # "none"
      BY <1>1, <1>3 DEF Working
    <2> QED BY <1>3, <2>1, <2>2, FailsNow DEF Visible
  <1>4. ASSUME NEW at \in {"write", "flush", "rename", "cleanup", "open", "delete"}, Goto(t, at),
               ~Took(t), UNCHANGED file
        PROVE  Visible(t)
    <2>1. /\ ~Took(t)' /\ call'[t].op = call[t].op /\ call'[t].arg = call[t].arg
          /\ call'[t].ok = call[t].ok /\ call'[t].got = call[t].got
      BY <1>1, <1>4, GotoMoves DEF Took
    <2> QED BY <1>2, <1>4, <2>1, Underway DEF Visible
  <1>5. ASSUME NEW got \in Values \cup {None}, Answer(t, got)
         PROVE  Sessions!Becomes(t, Sessions!Ended(TRUE, got))
    <2>1. /\ call'[t].at = "idle" /\ call'[t].op = "none" /\ call'[t].arg = None
          /\ call'[t].ok = TRUE /\ call'[t].got = got
      BY <1>1, <1>5, AnswerMoves
    <2>2. TRUE \in BOOLEAN
      OBVIOUS
    <2> QED BY <1>2, <2>1, <2>2, Returns, Zenon
  <1>6. CASE Create(t) \/ Write(t) \/ Flush(t)
    <2>1. ~At(t, "idle") /\ ~Took(t) /\ UNCHANGED file
      BY <1>6 DEF Create, Write, Flush, disk, At, Took
    <2>2. Done(t, FALSE) \/ \E at \in {"write", "flush", "rename", "cleanup"} : Goto(t, at)
      BY <1>6 DEF Create, Write, Flush
    <2>3. CASE Done(t, FALSE)
      BY <1>3, <2>1, <2>3
    <2> QED BY <1>4, <2>1, <2>2, <2>3
  <1>7. CASE Rename(t)
    <2>1. /\ At(t, "rename") /\ ~Took(t) /\ call[t].op = "save" /\ temp[t] = call[t].arg
          /\ call[t].got = None /\ Path(t) = Session
      BY <1>1, <1>7 DEF Rename, Working, At, Took
    <2>2. CASE Goto(t, "renamed") /\ file' = [file EXCEPT ![Path(t)] = temp[t]]
      <3>1. /\ Took(t)' /\ ~At(t, "read")' /\ call'[t].op = "save" /\ call'[t].arg = call[t].arg
            /\ call'[t].ok = call[t].ok /\ call'[t].got = None
        BY <1>1, <2>1, <2>2, GotoMoves DEF Took, At
      <3>2. file'[Session] = call[t].arg
        BY <2>1, <2>2 DEF DiskTypeOK
      <3> QED BY <1>2, <2>1, <3>1, <3>2, Takes DEF Visible
    <2>3. CASE Goto(t, "cleanup") /\ UNCHANGED file
      BY <1>4, <2>1, <2>3
    <2> QED BY <1>7, <2>2, <2>3 DEF Rename
  <1>8. CASE Cleanup(t)
    <2>1. UNCHANGED file
      BY <1>8 DEF Cleanup
    <2>2. CASE At(t, "cleanup")
      <3>1. Done(t, FALSE)
        BY <1>8, <2>2 DEF Cleanup, At
      <3> QED BY <1>3, <2>1, <2>2, <3>1 DEF At, Took
    <2>3. CASE At(t, "renamed")
      <3>1. Done(t, TRUE)
        BY <1>8, <2>3, Zenon DEF Cleanup, At
      <3>2. Took(t) /\ call[t].op # "none" /\ Entries[t].got = None
        BY <1>1, <2>3, EntryHolds DEF Took, Working, At
      <3>3. Sessions!Becomes(t, Sessions!Ended(TRUE, None))
        BY <1>1, <1>2, <3>1, DoneMoves, Returns
      <3> QED BY <2>1, <3>2, <3>3, Succeeds DEF Visible
    <2> QED BY <1>8, <2>2, <2>3 DEF Cleanup
  <1>9. CASE Exists(t)
    <2>1. /\ At(t, "exists") /\ ~Took(t) /\ call[t].op \in {"load", "remove"} /\ UNCHANGED file
          /\ Path(t) = Session
      BY <1>1, <1>9 DEF Exists, Working, At, Took, disk
    <2>2. CASE file[Path(t)] = None /\ Answer(t, None)
      <3>1. Sessions!Becomes(t, Sessions!Ended(TRUE, None))
        BY <1>5, <2>2
      <3> QED BY <2>1, <2>2, <3>1, SucceedsAtOnce DEF Visible
    <2>3. CASE \E at \in {"open", "delete"} : Goto(t, at)
      BY <1>4, <2>1, <2>3
    <2> QED BY <1>9, <2>2, <2>3 DEF Exists
  <1>10. CASE OpenFile(t)
    <2>1. /\ At(t, "open") /\ ~Took(t) /\ call[t].op = "load" /\ UNCHANGED file
          /\ Path(t) = Session
      BY <1>1, <1>10 DEF OpenFile, Working, At, Took
    <2>2. CASE Goto(t, "read")
      <3>1. /\ Took(t)' /\ At(t, "read")' /\ call'[t].op = "load" /\ call'[t].arg = call[t].arg
            /\ call'[t].ok = call[t].ok /\ Path(t)' = Session
        BY <1>1, <2>1, <2>2, GotoMoves DEF Took, At, Path
      <3> QED BY <1>2, <2>1, <3>1, Takes DEF Visible
    <2>3. CASE Done(t, FALSE)
      BY <1>3, <2>1, <2>3 DEF At
    <2> QED BY <1>10, <2>2, <2>3 DEF OpenFile
  <1>11. CASE Read(t)
    <2>1. /\ At(t, "read") /\ Took(t) /\ call[t].op = "load" /\ UNCHANGED file
          /\ Path(t) = Session
      BY <1>1, <1>11 DEF Read, Working, At, Took
    <2>2. CASE file[Path(t)] \in Values /\ Answer(t, file[Path(t)])
      <3>1. Sessions!Becomes(t, Sessions!Ended(TRUE, file[Path(t)]))
        BY <1>5, <2>2
      <3>2. Entries[t].got = file[Path(t)]
        BY <2>1, EntryHolds
      <3> QED BY <2>1, <3>1, <3>2, Succeeds DEF Visible
    <2>3. CASE Done(t, FALSE)
      BY <1>3, <2>1, <2>3 DEF At
    <2> QED BY <1>11, <2>2, <2>3 DEF Read
  <1>12. CASE DeleteFile(t)
    <2>1. At(t, "delete") /\ ~Took(t) /\ call[t].op = "remove" /\ Path(t) = Session
      BY <1>1, <1>12 DEF DeleteFile, Working, At, Took
    <2>2. CASE Done(t, TRUE) /\ file' = [file EXCEPT ![Path(t)] = None]
      <3>1. Sessions!Becomes(t, Sessions!Ended(TRUE, None))
        BY <1>1, <1>2, <2>2, DoneMoves, Returns
      <3>2. file'[Session] = None
        BY <2>1, <2>2 DEF DiskTypeOK
      <3> QED BY <2>1, <3>1, <3>2, SucceedsAtOnce DEF Visible
    <2>3. CASE Done(t, FALSE) /\ UNCHANGED file
      BY <1>3, <2>1, <2>3 DEF At
    <2> QED BY <1>12, <2>2, <2>3 DEF DeleteFile
  <1> QED BY <1>6, <1>7, <1>8, <1>9, <1>10, <1>11, <1>12 DEF FileStep

\* The tunnel's steps are none of the store's.
LEMMA Unseen ==
  ASSUME file'[Session] = file[Session], \A u \in Workers : call'[u] = call[u],
         \A u \in Workers : At(u, "read") => file'[Path(u)] = file[Path(u)]
  PROVE  UNCHANGED <<file[Session], Entries>>
  <1>1. \A u \in Workers : Abstract(u)' = Abstract(u)
    BY SameAbstract
  <1> QED BY <1>1, Zenon DEF Entries

LEMMA TunnelUnseen ==
  ASSUME Files, FileStep(Tunnel)
  PROVE  UNCHANGED <<file[Session], Entries>>
  <1> USE DEF Files
  <1>1. \A u \in Workers : call'[u] = call[u] /\ (At(u, "read") => file'[Path(u)] = file[Path(u)])
    BY OthersSame DEF Workers
  <1>2. file'[Session] = file[Session]
    <2>1. CASE Create(Tunnel) \/ Write(Tunnel) \/ Flush(Tunnel) \/ Exists(Tunnel) \/ OpenFile(Tunnel)
      BY <2>1 DEF Create, Write, Flush, Exists, OpenFile, disk
    <2>2. CASE Cleanup(Tunnel) \/ Read(Tunnel)
      BY <2>2 DEF Cleanup, Read
    <2>3. CASE Rename(Tunnel) \/ DeleteFile(Tunnel)
      <3>1. Path(Tunnel) = Config
        BY <2>3 DEF FileInv, Working, At, Rename, DeleteFile
      <3>2. UNCHANGED file \/ \E v : file' = [file EXCEPT ![Path(Tunnel)] = v]
        BY <2>3 DEF Rename, DeleteFile
      <3> QED BY <3>1, <3>2 DEF DiskTypeOK
    <2> QED BY <2>1, <2>2, <2>3 DEF FileStep
  <1> QED BY <1>1, <1>2, Unseen

LEMMA OperationUnseen ==
  ASSUME IInv, TunnelStep
  PROVE  UNCHANGED <<file[Session], Entries>>
  <1> USE DEF IInv
  <1>1. ASSUME UNCHANGED file, \A u \in Threads \ {Tunnel} : call'[u] = call[u]
        PROVE  UNCHANGED <<file[Session], Entries>>
    BY <1>1, Unseen DEF Workers
  <1>2. CASE UNCHANGED files
    BY <1>1, <1>2 DEF files, disk
  <1>3. CASE In("write") /\ Save(Tunnel, Config, tunnel.keys)
    <2>1. tunnel.keys \in Values
      BY <1>3 DEF Operation, TunnelInv, In
    <2>2. Begin(Tunnel, "save", Config, tunnel.keys, "create")
      BY <1>3 DEF Save
    <2> QED BY <1>1, <2>1, <2>2, BeginKeeps
  <1>4. CASE Remove(Tunnel, Config)
    <2>1. Begin(Tunnel, "remove", Config, None, "exists")
      BY <1>4 DEF Remove
    <2> QED BY <1>1, <2>1, BeginKeeps
  <1> QED
    BY <1>2, <1>3, <1>4
       DEF TunnelStep, Connect, ConnectReady, ConnectExists, ConnectWrite, ConnectInstall, ConnectPoll,
           Disconnect, DisconnectExists, DisconnectUninstall, DisconnectRemove

\* A call begins.
LEMMA Starts ==
  ASSUME Files, NEW t \in Workers, NEW op \in {"save", "load", "remove"}, NEW arg \in Values \cup {None},
         NEW at \in {"create", "exists"}, at = "create" => op = "save" /\ arg \in Values,
         at = "exists" => op \in {"load", "remove"}, Begin(t, op, Session, arg, at)
  PROVE  Sessions!Start(t)
  <1>1. t \in Threads /\ t # Tunnel /\ Working(t) /\ At(t, "idle")
    BY DEF Workers, Files, FileInv, Begin
  <1>2. /\ call'[t].op = op /\ call'[t].arg = arg /\ call'[t].at = at
        /\ call'[t].ok = Idle.ok /\ call'[t].got = None
        /\ \A u \in Threads \ {t} : call'[u] = call[u]
        /\ UNCHANGED file
    <2>1. Session \in Paths /\ Session = IF t = Tunnel THEN Config ELSE Session
      BY <1>1
    <2> QED BY <1>1, <2>1, BeginKeeps
  <1>3. call'[t].got = None
    BY <1>2
  <1>4. Idle.ok = TRUE
    BY DEF Idle
  <1>5. Took(t)' = FALSE
    BY <1>2 DEF Took
  <1>6. ~At(t, "read")'
    BY <1>2 DEF At
  <1>7. Abstract(t)' = Sessions!Entry(op, arg, FALSE, TRUE, None)
    BY <1>2, <1>3, <1>4, <1>5, <1>6, AbstractIs, Zenon
  <1>8. \A u \in Workers \ {t} : Abstract(u)' = Abstract(u)
    BY <1>2, SameAbstract DEF Workers
  <1>9. Sessions!Becomes(t, Sessions!Entry(op, arg, FALSE, TRUE, None))
    BY <1>7, <1>8, Becoming
  <1>10. Entries[t].op = "none"
    BY <1>1, EntryHolds DEF Working
  <1>11. file'[Session] = file[Session]
    BY <1>2
  <1> QED BY <1>9, <1>10, <1>11, Zenon DEF Sessions!Start, Entries

LEMMA IdleIs ==
  ASSUME NEW t \in Workers, call'[t] = Idle
  PROVE  Abstract(t)' = Sessions!Idle
  <1>1. /\ call'[t].op = "none" /\ call'[t].arg = None /\ call'[t].got = None /\ call'[t].at = "idle"
        /\ call'[t].ok = TRUE
    BY DEF Idle
  <1>2. Took(t)' = FALSE
    BY <1>1 DEF Took
  <1>3. ~At(t, "read")'
    BY <1>1 DEF At
  <1>4. Abstract(t)' = Sessions!Entry("none", None, FALSE, TRUE, None)
    BY <1>1, <1>2, <1>3, AbstractIs, Zenon
  <1> QED BY <1>4, Zenon DEF Sessions!Idle, Sessions!Ended

LEMMA StepImplements ==
  ASSUME IInv, [Next]_vars
  PROVE  [Sessions!Next]_<<file[Session], [t \in Workers |-> Abstract(t)]>>
  <1> USE DEF IInv
  <1> DEFINE Goal == Sessions!Next \/ UNCHANGED <<file[Session], Entries>>
  <1> SUFFICES Goal
    BY DEF Entries
  <1>1. CASE TunnelStep
    BY <1>1, OperationUnseen
  <1>2. CASE ServiceRuns \/ UNCHANGED vars
    <2>1. UNCHANGED <<file, call>>
      BY <1>2 DEF ServiceRuns, vars, files, disk
    <2> QED BY <2>1, Unseen
  <1>3. CASE Crash \/ PowerLoss
    <2>1. UNCHANGED file /\ call' = [t \in Threads |-> Idle]
      BY <1>3, LossKeeps DEF Crash, PowerLoss
    <2>2. \A t \in Workers : Abstract(t)' = Sessions!Idle
      BY <2>1, IdleIs DEF Workers
    <2>3. Sessions!Crash
      BY <2>1, <2>2, Zenon DEF Sessions!Crash
    <2> QED BY <2>3 DEF Sessions!Next
  <1>4. ASSUME NEW t \in Threads, FileStep(t) PROVE Goal
    <2>1. CASE t = Tunnel
      BY <1>4, <2>1, TunnelUnseen
    <2>2. CASE t \in Workers
      BY <1>4, <2>2, WorkerSteps DEF Visible, Sessions!Next
    <2> QED BY <2>1, <2>2 DEF Workers
  <1>5. ASSUME NEW t \in Workers, Request(t, Session) PROVE Goal
    <2>1. CASE Load(t, Session)
      BY <2>1, Starts DEF Load, Sessions!Next
    <2>2. CASE Remove(t, Session)
      BY <2>2, Starts DEF Remove, Sessions!Next
    <2>3. ASSUME NEW v \in Values, Save(t, Session, v) PROVE Goal
      BY <2>3, Starts DEF Save, Sessions!Next
    <2> QED BY <1>5, <2>1, <2>2, <2>3 DEF Request
  <1> HIDE DEF Goal
  <1> QED BY <1>1, <1>2, <1>3, <1>4, <1>5 DEF Next, Workers

\* Whatever the order of the workers' saves, loads and removals, and whatever
\* fails or is cut off, every one is atomic: SecureStore implements AtomicStore.
THEOREM SessionsAreAtomic == Spec => StoreIsAtomic
  <1>1. Init => Sessions!Init
    <2> SUFFICES ASSUME Init PROVE Sessions!Init
      OBVIOUS
    <2>1. call = [t \in Threads |-> Idle] /\ file[Session] \in Values \cup {None}
      BY DEF Init, InitFiles
    <2>2. ASSUME NEW t \in Workers PROVE Abstract(t) = Sessions!Idle
      <3>1. /\ call[t].op = "none" /\ call[t].arg = None /\ call[t].got = None /\ call[t].at = "idle"
            /\ call[t].ok = TRUE
        BY <2>1 DEF Idle, Workers
      <3>2. Took(t) = FALSE
        BY <3>1 DEF Took
      <3>3. ~At(t, "read")
        BY <3>1 DEF At
      <3> QED BY <3>1, <3>2, <3>3, Zenon DEF Abstract, Sessions!Idle, Sessions!Ended, Sessions!Entry
    <2> QED BY <2>1, <2>2, Zenon DEF Sessions!Init
  <1>2. IInv /\ [Next]_vars => [Sessions!Next]_<<file[Session], [t \in Workers |-> Abstract(t)]>>
    BY StepImplements
  <1> QED BY <1>1, <1>2, WireGuardInvariant, PTL DEF Spec, StoreIsAtomic, Sessions!Spec
=============================================================================
