-------------------------- MODULE ControllerProofs --------------------------
(***************************************************************************)
(* What TLAPS proves of Controller, for every set of users, workers and    *)
(* tokens and whatever fails: types, then the operation lock, the owner    *)
(* and the server that the controller reports.                             *)
(***************************************************************************)
EXTENDS Controller, TLAPS

\* The labels of a connect that holds operationMutex_, its session loaded
Connecting == {"admit", "select", "engine", "launch", "await", "persist", "undo",
               "commit"}

\* The labels of any handler past requireSession
Loaded == Connecting \cup {"insert", "save", "apply"}

\* The labels of the main thread: shutdown() is a disconnect
MainLabels == {"idle", "disconnect", "stopOpenVpn", "stopWireGuard", "disconnected",
               "fail", "exit"}

\* A handler runs for a user, past requireSession it has a session, and the main
\* thread does nothing but shut down.
ThreadOK(t) == /\ t \in Workers /\ pc[t] # "idle" => who[t] \in Users
               /\ pc[t] \in Loaded => session[t] \in Sessions
               /\ t \in Workers => pc[t] # "exit"
               /\ t = Main => /\ pc[t] \in MainLabels
                              /\ who[t] = NoUser /\ method[t] = "none"

TypeInv == TypeOK /\ \A t \in Threads : ThreadOK(t)

USE DEF At, Goto, Tech

LEMMA InitType == Init => TypeInv
  BY ControllerAssumption
  DEF Init, TypeInv, TypeOK, ThreadOK, Threads, Owners, Lists, Technologies, Absent,
      WireGuardStates, OpenVpnStates, Labels, Loaded, Connecting, MainLabels

\* What an engine step may leave
LEMMA StopTypes ==
  ASSUME TypeOK, NEW ok \in BOOLEAN
  PROVE  /\ StopWireGuard(ok) => wireGuard' \in [state : WireGuardStates, user : Owners]
         /\ StopOpenVpn(ok) => openVpn' \in [state : OpenVpnStates, user : Owners]
  BY DEF TypeOK, StopWireGuard, StopOpenVpn, Absent, WireGuardStates, OpenVpnStates,
         Owners

LEMMA TechType ==
  ASSUME TypeInv, NEW t \in Threads, pc[t] \in Loaded
  PROVE  Tech(t) \in Technologies
  BY DEF TypeInv, ThreadOK, Sessions

\* The variables of the threads alone
ThreadTypes == /\ pc \in [Threads -> Labels]
               /\ method \in [Threads -> AllMethods \cup {"none"}]
               /\ who \in [Threads -> Owners]
               /\ session \in [Threads -> Sessions \cup {NoSession}]
               /\ list \in [Threads -> Lists]
               /\ failed \in [Threads -> BOOLEAN]
               /\ \A t \in Threads : ThreadOK(t)

\* A thread that returns forgets its call.
LEMMA ReturnType ==
  ASSUME TypeInv, NEW t \in Threads, Return(t)
  PROVE  ThreadTypes'
  <1>1. /\ "idle" \in Labels /\ "exit" \in Labels /\ NoUser \in Owners /\ NoList \in Lists
        /\ "exit" \in MainLabels /\ "idle" \in MainLabels
        /\ "idle" \notin Loaded /\ "exit" \notin Loaded
    BY DEF Labels, Owners, Lists, MainLabels, Loaded, Connecting
  <1>2. /\ pc' \in [Threads -> Labels]
        /\ method' \in [Threads -> AllMethods \cup {"none"}]
        /\ who' \in [Threads -> Owners]
        /\ session' \in [Threads -> Sessions \cup {NoSession}]
        /\ list' \in [Threads -> Lists]
        /\ failed' \in [Threads -> BOOLEAN]
    BY <1>1 DEF TypeInv, TypeOK, Return
  <1>3. ASSUME NEW x \in Threads PROVE ThreadOK(x)'
    <2>1. ThreadOK(x)
      BY DEF TypeInv
    <2>2. CASE x = t
      BY <1>1, <2>2, ControllerAssumption DEF TypeInv, TypeOK, ThreadOK, Return
    <2>3. CASE x # t
      BY <2>1, <2>3 DEF TypeInv, TypeOK, ThreadOK, Return
    <2> QED BY <2>2, <2>3
  <1> QED BY <1>2, <1>3 DEF ThreadTypes

\* A thread goes from one label to another, its call unchanged.
LEMMA GotoType ==
  ASSUME TypeInv, NEW t \in Threads, NEW l \in Labels, Goto(t, l), UNCHANGED call,
         t \in Workers => pc[t] # "idle" /\ l # "exit",
         t = Main => l \in MainLabels,
         l \in Loaded => session[t] \in Sessions
  PROVE  ThreadTypes'
  BY DEF TypeInv, TypeOK, ThreadTypes, ThreadOK, call

\* Every step of a handler that only moves its thread and touches no variable
\* of another type
LEMMA AccountType ==
  ASSUME TypeInv, NEW w \in Workers, Account(w)
  PROVE  TypeInv'
  <1> USE DEF TypeInv, TypeOK, ThreadTypes, state, disk, engines, threads
  <1>0. w \in Threads /\ w # Main
    BY ControllerAssumption DEF Threads
  <1>1. ASSUME NEW token \in Tokens, Login(w, token) PROVE TypeInv'
    <2>1. ThreadTypes'
      BY <1>0, <1>1, ReturnType DEF Login
    <2> QED BY <1>1, <2>1 DEF Login, Sessions, Technologies
  <1>2. CASE LogoutBegin(w)
    <2>1. ThreadTypes'
      BY <1>0, <1>2, GotoType DEF LogoutBegin, Labels, Loaded, Connecting
    <2> QED BY <1>2, <2>1 DEF LogoutBegin
  <1>3. CASE LogoutRemove(w)
    <2>1. ThreadTypes'
      BY <1>0, <1>3, ReturnType, GotoType DEF LogoutRemove, Labels, Loaded, Connecting
    <2> QED BY <1>3, <2>1 DEF LogoutRemove
  <1>4. CASE LogoutForget(w)
    <2>1. ThreadTypes'
      BY <1>0, <1>4, ReturnType DEF LogoutForget
    <2> QED BY <1>4, <2>1 DEF LogoutForget, Lists
  <1>5. CASE LoadSession(w)
    <2>1. CASE Return(w)
      BY <1>0, <1>5, <2>1, ReturnType DEF LoadSession
    <2>2. CASE ~Return(w)
      <3>1. /\ store[who[w]] # NoSession /\ Load(w) /\ pc[w] # "idle"
            /\ Goto(w, "insert") \/ Goto(w, "save")
        BY <1>5, <2>2 DEF LoadSession, SignedIn
      <3>2. who[w] \in Users /\ store[who[w]] \in Sessions
        BY <1>0, <3>1 DEF ThreadOK
      <3>3. ThreadTypes'
        BY <1>0, <3>1, <3>2 DEF Load, ThreadOK, Labels, Loaded, Connecting
      <3> QED BY <1>5, <3>3 DEF LoadSession
    <2> QED BY <2>1, <2>2
  <1>6. CASE ServersInsert(w)
    <2>1. ThreadTypes' /\ Tech(w) \in Technologies
      BY <1>0, <1>6, ReturnType, TechType DEF ServersInsert, Loaded
    <2> QED BY <1>6, <2>1 DEF ServersInsert, Lists
  <1>7. ASSUME NEW tech \in Technologies, SettingsSave(w, tech) PROVE TypeInv'
    <2>1. session[w] \in Sessions
      BY <1>0, <1>7 DEF SettingsSave, ThreadOK, Loaded
    <2>2. store' \in [Users -> Sessions \cup {NoSession}]
      BY <1>7, <2>1 DEF SettingsSave, Sessions
    <2>3. CASE Return(w)
      BY <1>0, <1>7, <2>2, <2>3, ReturnType DEF SettingsSave
    <2>4. CASE ~Return(w)
      <3>1. session' = [session EXCEPT ![w] = [session[w] EXCEPT !.technology = tech]]
        BY <1>7, <2>4 DEF SettingsSave
      <3>2. [session[w] EXCEPT !.technology = tech] \in Sessions
        BY <2>1 DEF Sessions
      <3>3. ThreadTypes'
        BY <1>0, <1>7, <2>4, <3>1, <3>2 DEF SettingsSave, ThreadOK, Labels, Loaded
      <3> QED BY <1>7, <2>2, <3>3 DEF SettingsSave
    <2> QED BY <2>3, <2>4
  <1>8. CASE SettingsApply(w)
    <2>1. ThreadTypes' /\ Tech(w) \in Technologies
      BY <1>0, <1>8, ReturnType, TechType DEF SettingsApply, Loaded
    <2> QED BY <1>8, <2>1 DEF SettingsApply, Lists
  <1> QED BY <1>1, <1>2, <1>3, <1>4, <1>5, <1>6, <1>7, <1>8 DEF Account

LEMMA ConnectType ==
  ASSUME TypeInv, NEW w \in Workers, Connect(w)
  PROVE  TypeInv'
  <1> USE DEF TypeInv, TypeOK, ThreadTypes, state, disk, engines, threads
  <1>0. w \in Threads /\ w # Main
    BY ControllerAssumption DEF Threads
  <1>1. CASE ConnectBegin(w)
    <2>1. CASE Return(w)
      BY <1>0, <1>1, <2>1, ReturnType DEF ConnectBegin
    <2>2. CASE ~Return(w)
      <3>1. store[who[w]] # NoSession /\ Load(w) /\ pc[w] # "idle" /\ Goto(w, "admit")
        BY <1>1, <2>2 DEF ConnectBegin, SignedIn
      <3>2. who[w] \in Users /\ store[who[w]] \in Sessions
        BY <1>0, <3>1 DEF ThreadOK
      <3>3. ThreadTypes'
        BY <1>0, <3>1, <3>2 DEF Load, ThreadOK, Labels
      <3> QED BY <1>0, <1>1, <3>3 DEF ConnectBegin
    <2> QED BY <2>1, <2>2
  <1>2. CASE ConnectRefuse(w)
    <2>1. ThreadTypes'
      BY <1>0, <1>2, ReturnType DEF ConnectRefuse, ReleaseAndReturn
    <2> QED BY <1>2, <2>1 DEF ConnectRefuse, ReleaseAndReturn
  <1>3. CASE ConnectAdmit(w)
    <2>1. cache[who[w]] \in Lists
      BY <1>0, <1>3 DEF ConnectAdmit, ThreadOK
    <2>2. ThreadTypes'
      BY <1>0, <1>3, <2>1 DEF ConnectAdmit, ThreadOK, Labels, Loaded, Connecting
    <2> QED BY <1>3, <2>2 DEF ConnectAdmit
  <1>4. CASE ConnectSelect(w)
    <2>1. Tech(w) \in Technologies
      BY <1>0, <1>4, TechType DEF ConnectSelect, Loaded, Connecting
    <2>2. ThreadTypes'
      BY <1>0, <1>4, <2>1
      DEF ConnectSelect, call, ThreadOK, Labels, Loaded, Connecting, Lists
    <2> QED BY <1>4, <2>1, <2>2 DEF ConnectSelect, Lists
  <1>5. CASE ConnectApiFails(w)
    <2>1. ThreadTypes'
      BY <1>0, <1>5, GotoType DEF ConnectApiFails, Labels, Loaded, Connecting
    <2> QED BY <1>5, <2>1 DEF ConnectApiFails
  <1>6. CASE ConnectSwitch(w)
    <2>1. ThreadTypes'
      BY <1>0, <1>6, GotoType DEF ConnectSwitch, Labels, Loaded, Connecting, ThreadOK
    <2> QED BY <1>6, <2>1, StopTypes DEF ConnectSwitch, StopEngine
  <1>7. CASE ConnectLaunch(w)
    <2>1. /\ wireGuard' \in [state : WireGuardStates, user : Owners]
          /\ openVpn' \in [state : OpenVpnStates, user : Owners]
      <3>1. /\ Absent \in [state : WireGuardStates, user : Owners]
            /\ Absent \in [state : OpenVpnStates, user : Owners]
            /\ [state |-> "pending", user |-> who[w]] \in
                    [state : WireGuardStates, user : Owners]
            /\ [state : {"running", "connected"}, user : {who[w]}] \subseteq
                    [state : OpenVpnStates, user : Owners]
        BY <1>0 DEF Absent, WireGuardStates, OpenVpnStates, Owners
      <3> QED BY <1>7, <3>1, StopTypes DEF ConnectLaunch
    <2>2. ThreadTypes'
      BY <1>0, <1>7, GotoType DEF ConnectLaunch, Labels, Loaded, Connecting, ThreadOK
    <2> QED BY <1>7, <2>1, <2>2 DEF ConnectLaunch
  <1>8. CASE ConnectUp(w)
    <2>1. ThreadTypes'
      BY <1>0, <1>8, GotoType DEF ConnectUp, Labels, Loaded, Connecting, ThreadOK
    <2> QED BY <1>8, <2>1 DEF ConnectUp
  <1>9. CASE ConnectPersist(w)
    <2>1. ThreadTypes'
      BY <1>0, <1>9, GotoType DEF ConnectPersist, Labels, Loaded, Connecting, ThreadOK
    <2> QED BY <1>0, <1>9, <2>1 DEF ConnectPersist
  <1>10. CASE ConnectTimesOut(w) \/ ConnectUndo(w)
    <2>1. ThreadTypes'
      BY <1>0, <1>10, GotoType DEF ConnectTimesOut, ConnectUndo, Labels, Loaded, Connecting
    <2> QED BY <1>10, <2>1, StopTypes
            DEF ConnectTimesOut, ConnectUndo, RollBack, StopEngine
  <1>11. CASE ConnectCommit(w)
    <2>1. ThreadTypes' /\ Tech(w) \in Technologies
      BY <1>0, <1>11, ReturnType, TechType
      DEF ConnectCommit, ReleaseAndReturn, Loaded, Connecting
    <2> QED BY <1>0, <1>11, <2>1 DEF ConnectCommit, ReleaseAndReturn
  <1> QED BY <1>1, <1>2, <1>3, <1>4, <1>5, <1>6, <1>7, <1>8, <1>9, <1>10, <1>11
          DEF Connect

LEMMA DisconnectType ==
  ASSUME TypeInv, NEW t \in Threads, Disconnect(t) \/ Fail(t)
  PROVE  TypeInv'
  <1> USE DEF TypeInv, TypeOK, ThreadTypes, state, disk, engines, threads
  <1>1. CASE DisconnectRefuse(t)
    <2>1. ThreadTypes'
      BY <1>1, ReturnType DEF DisconnectRefuse
    <2> QED BY <1>1, <2>1 DEF DisconnectRefuse
  <1>2. CASE DisconnectBegin(t)
    <2>1. ThreadTypes'
      BY <1>2, GotoType
      DEF DisconnectBegin, Disconnects, Labels, Loaded, Connecting, MainLabels
    <2> QED BY <1>2, <2>1 DEF DisconnectBegin
  <1>3. CASE DisconnectOpenVpn(t)
    <2>1. ThreadTypes'
      BY <1>3 DEF DisconnectOpenVpn, ThreadOK, Labels, Loaded, Connecting, MainLabels
    <2> QED BY <1>3, <2>1, StopTypes DEF DisconnectOpenVpn
  <1>4. CASE DisconnectWireGuard(t)
    <2>1. ThreadTypes'
      BY <1>4, GotoType DEF DisconnectWireGuard, Labels, Loaded, Connecting, MainLabels
    <2> QED BY <1>4, <2>1, StopTypes DEF DisconnectWireGuard
  <1>5. CASE DisconnectCommit(t)
    <2>1. ThreadTypes'
      BY <1>5, ReturnType, GotoType
      DEF DisconnectCommit, Labels, Loaded, Connecting, ThreadOK
    <2> QED BY <1>5, <2>1 DEF DisconnectCommit, Owners
  <1>6. CASE Fail(t)
    <2>1. ThreadTypes'
      BY <1>6, ReturnType DEF Fail, ReleaseAndReturn
    <2> QED BY <1>6, <2>1 DEF Fail, SetFailure, ReleaseAndReturn, Owners
  <1> QED BY <1>1, <1>2, <1>3, <1>4, <1>5, <1>6 DEF Disconnect

\* A process that is gone leaves every variable but the disk as it started.
LEMMA GoneType ==
  ASSUME TypeInv, ProcessGone, UNCHANGED disk,
         wireGuard' \in [state : WireGuardStates, user : Owners]
  PROVE  TypeInv'
  BY DEF TypeInv, TypeOK, ThreadOK, ProcessGone, disk, Absent, OpenVpnStates, Labels,
         Technologies, Owners, Lists, Loaded, Connecting, MainLabels

LEMMA ProcessType ==
  ASSUME TypeInv, Process
  PROVE  TypeInv'
  <1> USE DEF TypeInv, TypeOK, state, disk, engines, threads, call
  <1>1. CASE ServiceStop
    BY <1>1 DEF ServiceStop, ThreadOK
  <1>2. CASE Shutdown
    <2>1. ThreadTypes'
      BY <1>2, GotoType, ControllerAssumption
      DEF Shutdown, Labels, Loaded, Connecting, MainLabels, Threads
    <2> QED BY <1>2, <2>1 DEF Shutdown, ThreadTypes
  <1>3. CASE ServiceExit
    BY <1>3, GoneType DEF ServiceExit
  <1>4. CASE Crash
    BY <1>4, GoneType DEF Crash
  <1>5. CASE Reboot
    <2>1. wireGuard' \in [state : WireGuardStates, user : Owners]
      BY <1>5 DEF Reboot, WireGuardStates
    <2> QED BY <1>5, <2>1, GoneType DEF Reboot
  <1>6. CASE ServiceStart
    BY <1>6 DEF ServiceStart, ThreadOK, Owners
  <1> QED BY <1>1, <1>2, <1>3, <1>4, <1>5, <1>6 DEF Process

LEMMA OtherType ==
  ASSUME TypeInv,
         \/ \E w \in Workers, u \in Users, m \in Methods : Request(w, u, m)
         \/ \E w \in Workers : ConnectThrow(w)
         \/ Engine
         \/ UNCHANGED vars
  PROVE  TypeInv'
  <1> USE DEF TypeInv, TypeOK, state, disk, engines, threads
  <1>1. ASSUME NEW w \in Workers, NEW u \in Users, NEW m \in Methods, Request(w, u, m)
        PROVE  TypeInv'
    BY <1>1, ControllerAssumption
    DEF Request, ThreadOK, Threads, Labels, Loaded, Connecting, Owners
  <1>2. ASSUME NEW w \in Workers, ConnectThrow(w) PROVE TypeInv'
    <2>1. ThreadTypes'
      BY <1>2, ReturnType DEF ConnectThrow, ReleaseAndReturn, Threads
    <2> QED BY <1>2, <2>1 DEF ConnectThrow, ReleaseAndReturn, ThreadTypes
  <1>3. CASE Engine
    <2> DEFINE WG == [state : WireGuardStates, user : Owners]
               OV == [state : OpenVpnStates, user : Owners]
    <2>1. CASE WireGuardStarts
      <3>1. wireGuard' \in WG
        BY <2>1 DEF WireGuardStarts, WireGuardStates
      <3> QED BY <2>1, <3>1 DEF WireGuardStarts, ThreadOK, call
    <2>2. CASE WireGuardStops
      <3>1. wireGuard' \in WG
        BY <2>2 DEF WireGuardStops, WireGuardStates
      <3> QED BY <2>2, <3>1 DEF WireGuardStops, ThreadOK, call
    <2>3. CASE OpenVpnConnects
      <3>1. openVpn' \in OV
        BY <2>3 DEF OpenVpnConnects, OpenVpnStates
      <3> QED BY <2>3, <3>1 DEF OpenVpnConnects, ThreadOK, call
    <2>4. CASE OpenVpnReconnects
      <3>1. openVpn' \in OV
        BY <2>4 DEF OpenVpnReconnects, OpenVpnStates
      <3> QED BY <2>4, <3>1 DEF OpenVpnReconnects, ThreadOK, call
    <2>5. CASE OpenVpnExits
      <3>1. openVpn' \in OV
        BY <2>5 DEF OpenVpnExits, OpenVpnStates, Absent, Owners
      <3> QED BY <2>5, <3>1 DEF OpenVpnExits, ThreadOK, call
    <2> QED BY <1>3, <2>1, <2>2, <2>3, <2>4, <2>5 DEF Engine
  <1>4. CASE UNCHANGED vars
    BY <1>4 DEF vars, ThreadOK, call
  <1> QED BY <1>1, <1>2, <1>3, <1>4

LEMMA TypeStep == TypeInv /\ [Next]_vars => TypeInv'
  <1> SUFFICES ASSUME TypeInv, [Next]_vars PROVE TypeInv'
    OBVIOUS
  <1>1. ASSUME NEW t \in Threads, Handler(t) PROVE TypeInv'
    BY <1>1, AccountType, ConnectType, DisconnectType DEF Handler
  <1> QED BY <1>1, ProcessType, OtherType DEF Next

\* In every behaviour every variable has its type, every handler has a user and,
\* past requireSession, a session.
THEOREM TypeCorrect == Spec => []TypeOK
  <1>1. Spec => []TypeInv
    BY InitType, TypeStep, PTL DEF Spec
  <1>2. TypeInv => TypeOK
    BY DEF TypeInv
  <1> QED BY <1>1, <1>2, PTL

-----------------------------------------------------------------------------
(* The lock and who is inside it *)

\* The labels of a connect or disconnect that holds operationMutex_
Held == Connecting \cup {"fail", "stopOpenVpn", "stopWireGuard", "disconnected"}

\* operationMutex_ is held by the one thread inside a connect or a disconnect.
LockInv == \A t \in Threads : pc[t] \in Held <=> opHolder = t

\* A process that is down has no threads and no memory.
DownInv == service = "down" => /\ \A t \in Threads : pc[t] = "idle"
                               /\ server = NoUser /\ owner = NoUser
                               /\ status = "Disconnected"
                               /\ openVpn = Absent

\* The main thread runs once the workers have ended.
MainInv == pc[Main] # "idle" => /\ service = "stopping"
                                /\ \A w \in Workers : pc[w] = "idle"

Base == TypeInv /\ LockInv /\ DownInv /\ MainInv

-----------------------------------------------------------------------------
(* What a step does to the lock *)

OthersStay(t) == \A x \in Threads \ {t} : pc'[x] = pc[x] /\ who'[x] = who[x]

Acquires(t) == /\ pc[t] \notin Held /\ opHolder = NoThread
               /\ pc'[t] \in Held /\ opHolder' = t
Keeps(t) == pc[t] \in Held /\ pc'[t] \in Held /\ UNCHANGED opHolder
Releases(t) == pc[t] \in Held /\ pc'[t] \notin Held /\ opHolder' = NoThread
Outside(t) == pc[t] \notin Held /\ pc'[t] \notin Held /\ UNCHANGED opHolder

Moves(t) == /\ OthersStay(t) /\ pc[t] # "idle" /\ UNCHANGED service
            /\ Acquires(t) \/ Keeps(t) \/ Releases(t) \/ Outside(t)

LEMMA AccountMoves ==
  ASSUME TypeInv, NEW w \in Workers, Account(w)
  PROVE  Moves(w) /\ UNCHANGED <<server, owner, status, ownerFile, engines>>
  <1> USE DEF TypeInv, TypeOK, Threads, Moves, OthersStay, Outside, Held, Connecting,
              Return, state, disk, call
  <1>1. ASSUME NEW token \in Tokens, Login(w, token)
        PROVE  Moves(w) /\ UNCHANGED <<server, owner, status, ownerFile, engines>>
    BY <1>1 DEF Login
  <1>2. CASE LogoutBegin(w)
    BY <1>2 DEF LogoutBegin
  <1>3. CASE LogoutRemove(w)
    BY <1>3 DEF LogoutRemove
  <1>4. CASE LogoutForget(w)
    BY <1>4 DEF LogoutForget
  <1>5. CASE LoadSession(w)
    BY <1>5 DEF LoadSession, Load
  <1>6. CASE ServersInsert(w)
    BY <1>6 DEF ServersInsert
  <1>7. ASSUME NEW tech \in Technologies, SettingsSave(w, tech)
        PROVE  Moves(w) /\ UNCHANGED <<server, owner, status, ownerFile, engines>>
    BY <1>7 DEF SettingsSave
  <1>8. CASE SettingsApply(w)
    BY <1>8 DEF SettingsApply
  <1> QED BY <1>1, <1>2, <1>3, <1>4, <1>5, <1>6, <1>7, <1>8 DEF Account

LEMMA ConnectMoves ==
  ASSUME TypeInv, NEW w \in Workers, Connect(w)
  PROVE  Moves(w)
  <1> USE DEF TypeInv, TypeOK, Threads, Moves, OthersStay, Acquires, Keeps, Releases,
              Outside, Held, Connecting, Return, ReleaseAndReturn, call
  <1>1. CASE ConnectBegin(w)
    BY <1>1 DEF ConnectBegin, Load
  <1>2. CASE ConnectRefuse(w)
    BY <1>2 DEF ConnectRefuse
  <1>3. CASE ConnectAdmit(w)
    BY <1>3 DEF ConnectAdmit
  <1>4. CASE ConnectSelect(w)
    BY <1>4 DEF ConnectSelect
  <1>5. CASE ConnectApiFails(w)
    BY <1>5 DEF ConnectApiFails
  <1>6. CASE ConnectSwitch(w)
    BY <1>6 DEF ConnectSwitch
  <1>7. CASE ConnectLaunch(w)
    BY <1>7 DEF ConnectLaunch
  <1>8. CASE ConnectUp(w) \/ ConnectTimesOut(w)
    BY <1>8 DEF ConnectUp, ConnectTimesOut
  <1>9. CASE ConnectPersist(w)
    BY <1>9 DEF ConnectPersist
  <1>10. CASE ConnectUndo(w)
    BY <1>10 DEF ConnectUndo
  <1>11. CASE ConnectCommit(w)
    BY <1>11 DEF ConnectCommit
  <1> QED BY <1>1, <1>2, <1>3, <1>4, <1>5, <1>6, <1>7, <1>8, <1>9, <1>10, <1>11
          DEF Connect

LEMMA DisconnectMoves ==
  ASSUME TypeInv, NEW t \in Threads, Disconnect(t) \/ Fail(t)
  PROVE  Moves(t)
  <1> USE DEF TypeInv, TypeOK, Moves, OthersStay, Acquires, Keeps, Releases,
              Outside, Held, Connecting, Return, ReleaseAndReturn, call
  <1>1. CASE DisconnectRefuse(t)
    BY <1>1 DEF DisconnectRefuse, Disconnects
  <1>2. CASE DisconnectBegin(t)
    BY <1>2 DEF DisconnectBegin, Disconnects
  <1>3. CASE DisconnectOpenVpn(t)
    BY <1>3 DEF DisconnectOpenVpn
  <1>4. CASE DisconnectWireGuard(t)
    BY <1>4 DEF DisconnectWireGuard
  <1>5. CASE DisconnectCommit(t)
    BY <1>5 DEF DisconnectCommit
  <1>6. CASE Fail(t)
    BY <1>6 DEF Fail
  <1> QED BY <1>1, <1>2, <1>3, <1>4, <1>5, <1>6 DEF Disconnect

LEMMA ThrowMoves ==
  ASSUME TypeInv, NEW w \in Workers, ConnectThrow(w)
  PROVE  Moves(w)
  BY DEF ConnectThrow, TypeInv, TypeOK, Threads, Moves, OthersStay, Releases, Held,
         Connecting, Return, ReleaseAndReturn

-----------------------------------------------------------------------------
(* The lock *)

LEMMA InitBase == Init => Base
  BY InitType, ControllerAssumption
  DEF Init, Base, LockInv, DownInv, MainInv, Threads, Held, Connecting

LEMMA HandlerMoves ==
  ASSUME TypeInv, NEW t \in Threads, Handler(t)
  PROVE  Moves(t)
  BY AccountMoves, ConnectMoves, DisconnectMoves DEF Handler

LEMMA MovesBase ==
  ASSUME Base, NEW t \in Threads, Moves(t)
  PROVE  LockInv' /\ DownInv' /\ MainInv'
  <1>1. LockInv'
    BY ControllerAssumption
    DEF Base, TypeInv, TypeOK, LockInv, Moves, OthersStay, Acquires, Keeps, Releases,
        Outside, Threads
  <1>2. DownInv'
    BY DEF Base, DownInv, Moves
  <1>3. MainInv'
    BY ControllerAssumption DEF Base, MainInv, Moves, OthersStay, Threads
  <1> QED BY <1>1, <1>2, <1>3

LEMMA GoneBase ==
  ASSUME Base, ProcessGone
  PROVE  LockInv' /\ DownInv' /\ MainInv'
  BY ControllerAssumption
  DEF ProcessGone, LockInv, DownInv, MainInv, Threads, Held, Connecting

LEMMA ProcessBase ==
  ASSUME Base, Process
  PROVE  LockInv' /\ DownInv' /\ MainInv'
  <1> USE DEF Base, LockInv, DownInv, MainInv, threads
  <1>1. CASE ServiceStop
    BY <1>1 DEF ServiceStop
  <1>2. CASE Shutdown
    BY <1>2, ControllerAssumption
    DEF Shutdown, TypeInv, TypeOK, Threads, Held, Connecting
  <1>3. CASE ServiceExit \/ Crash \/ Reboot
    BY <1>3, GoneBase DEF ServiceExit, Crash, Reboot
  <1>4. CASE ServiceStart
    BY <1>4 DEF ServiceStart
  <1> QED BY <1>1, <1>2, <1>3, <1>4 DEF Process

LEMMA OtherBase ==
  ASSUME Base,
         \/ \E w \in Workers, u \in Users, m \in Methods : Request(w, u, m)
         \/ \E w \in Workers : ConnectThrow(w)
         \/ Engine
         \/ UNCHANGED vars
  PROVE  LockInv' /\ DownInv' /\ MainInv'
  <1> USE DEF Base, LockInv, DownInv, MainInv, state, threads
  <1>1. ASSUME NEW w \in Workers, NEW u \in Users, NEW m \in Methods, Request(w, u, m)
        PROVE  LockInv' /\ DownInv' /\ MainInv'
    BY <1>1, ControllerAssumption
    DEF Request, TypeInv, TypeOK, Threads, Held, Connecting
  <1>2. ASSUME NEW w \in Workers, ConnectThrow(w)
        PROVE  LockInv' /\ DownInv' /\ MainInv'
    BY <1>2, ThrowMoves, MovesBase DEF Threads
  <1>3. CASE Engine
    BY <1>3
    DEF Engine, WireGuardStarts, WireGuardStops, OpenVpnConnects, OpenVpnReconnects,
        OpenVpnExits, OpenVpnRunning, Absent
  <1>4. CASE UNCHANGED vars
    BY <1>4 DEF vars, engines
  <1> QED BY <1>1, <1>2, <1>3, <1>4

LEMMA BaseStep == Base /\ [Next]_vars => Base'
  <1> SUFFICES ASSUME Base, [Next]_vars PROVE Base'
    OBVIOUS
  <1>1. TypeInv'
    BY TypeStep DEF Base
  <1>2. ASSUME NEW t \in Threads, Handler(t) PROVE LockInv' /\ DownInv' /\ MainInv'
    BY <1>2, HandlerMoves, MovesBase DEF Base
  <1>3. LockInv' /\ DownInv' /\ MainInv'
    BY <1>2, ProcessBase, OtherBase DEF Next
  <1> QED BY <1>1, <1>3 DEF Base

\* operationMutex_ is a mutual exclusion: the thread that holds it, and no
\* other, is inside a connect or a disconnect, across crashes and exceptions.
THEOREM OperationsExclude == Spec => []LockInv
  <1>1. Spec => []Base
    BY InitBase, BaseStep, PTL DEF Spec
  <1>2. Base => LockInv
    BY DEF Base
  <1> QED BY <1>1, <1>2, PTL

-----------------------------------------------------------------------------
(* The server a status shows *)

\* Only three steps of a handler change what the controller remembers of the
\* connection's server and owner.
LEMMA HandlerServer ==
  ASSUME NEW t \in Threads, TypeInv, Handler(t)
  PROVE  UNCHANGED <<server, owner>> \/ Fail(t) \/ ConnectCommit(t) \/ DisconnectCommit(t)
  <1>1. CASE t \in Workers /\ Account(t)
    BY <1>1, AccountMoves
  <1>2. CASE Connect(t)
    BY <1>2
    DEF Connect, ConnectBegin, ConnectRefuse, ConnectAdmit, ConnectSelect,
        ConnectApiFails, ConnectSwitch, ConnectLaunch, ConnectUp, ConnectTimesOut,
        ConnectPersist, ConnectUndo, state
  <1>3. CASE Disconnect(t)
    BY <1>3
    DEF Disconnect, DisconnectRefuse, DisconnectBegin, DisconnectOpenVpn,
        DisconnectWireGuard, state
  <1> QED BY <1>1, <1>2, <1>3 DEF Handler

\* The server in memory was selected by the owner in memory.
ServerInv == server # NoUser => server = owner

LEMMA ServerStep == Base /\ ServerInv /\ [Next]_vars => ServerInv'
  <1> SUFFICES ASSUME Base, ServerInv, [Next]_vars PROVE ServerInv'
    OBVIOUS
  <1> USE DEF ServerInv
  <1>1. ASSUME NEW t \in Threads, Handler(t) PROVE ServerInv'
    BY <1>1, HandlerServer DEF Base, Fail, SetFailure, ConnectCommit, DisconnectCommit
  <1>2. CASE Process
    BY <1>2
    DEF Base, DownInv, Process, ServiceStop, Shutdown, ServiceExit, Crash, Reboot,
        ServiceStart, ProcessGone, state
  <1>3. CASE \/ \E w \in Workers, u \in Users, m \in Methods : Request(w, u, m)
             \/ \E w \in Workers : ConnectThrow(w)
             \/ Engine
             \/ UNCHANGED vars
    BY <1>3
    DEF Request, ConnectThrow, Engine, WireGuardStarts, WireGuardStops,
        OpenVpnConnects, OpenVpnReconnects, OpenVpnExits, vars, state
  <1> QED BY <1>1, <1>2, <1>3 DEF Next

\* No user's status ever shows the server another user's connect selected,
\* whatever failed or restarted in between.
THEOREM ServerStaysPrivate == Spec => []ServerIsPrivate
  <1>1. Init => Base /\ ServerInv
    BY InitBase DEF Init, ServerInv
  <1>2. Base /\ ServerInv /\ [Next]_vars => (Base /\ ServerInv)'
    BY BaseStep, ServerStep
  <1>3. Base /\ ServerInv => ServerIsPrivate
    BY DEF ServerInv, ServerIsPrivate, StatusView
  <1> QED BY <1>1, <1>2, <1>3, PTL DEF Spec

-----------------------------------------------------------------------------
(* The owner in memory and the owner on disk *)

\* The owner is written to disk before it is published, by the same thread.
OwnerInv ==
    /\ \A t \in Threads : pc[t] = "commit" => ownerFile = who[t]
    /\ service # "down" /\ owner # NoUser /\ (\A t \in Threads : pc[t] # "commit")
         => ownerFile = owner

\* The four ways a handler treats the owner
Ignores(t) == UNCHANGED <<owner, ownerFile>> /\ pc[t] # "commit" /\ pc'[t] # "commit"
Persists(t) == /\ pc[t] = "persist" /\ pc'[t] = "commit"
               /\ ownerFile' = who[t] /\ who'[t] = who[t] /\ UNCHANGED owner
Publishes(t) == /\ pc[t] = "commit" /\ pc'[t] # "commit"
                /\ owner' = who[t] /\ UNCHANGED ownerFile
Forgets(t) == /\ pc[t] = "disconnected" /\ pc'[t] # "commit" /\ owner' = NoUser

LEMMA HandlerOwner ==
  ASSUME NEW t \in Threads, TypeInv, Handler(t)
  PROVE  Ignores(t) \/ Persists(t) \/ Publishes(t) \/ Forgets(t)
  <1> USE DEF TypeInv, TypeOK, Ignores, Persists, Publishes, Forgets, state, disk, call
  <1>1. CASE t \in Workers /\ Account(t)
    BY <1>1, AccountMoves
    DEF Moves, Acquires, Keeps, Releases, Outside, Account, Login, LogoutBegin,
        LogoutRemove, LogoutForget, LoadSession, ServersInsert, SettingsSave,
        SettingsApply, Held, Connecting, Return
  <1>2. CASE Connect(t)
    <2>1. CASE ConnectPersist(t)
      BY <2>1 DEF ConnectPersist
    <2>2. CASE ConnectCommit(t)
      BY <2>2 DEF ConnectCommit, ReleaseAndReturn, Return
    <2>3. CASE ConnectBegin(t) \/ ConnectRefuse(t) \/ ConnectAdmit(t)
      BY <2>3 DEF ConnectBegin, ConnectRefuse, ConnectAdmit, ReleaseAndReturn, Return
    <2>4. CASE ConnectSelect(t) \/ ConnectApiFails(t) \/ ConnectSwitch(t)
      BY <2>4 DEF ConnectSelect, ConnectApiFails, ConnectSwitch
    <2>5. CASE ConnectLaunch(t) \/ ConnectUp(t) \/ ConnectTimesOut(t) \/ ConnectUndo(t)
      BY <2>5 DEF ConnectLaunch, ConnectUp, ConnectTimesOut, ConnectUndo
    <2> QED BY <1>2, <2>1, <2>2, <2>3, <2>4, <2>5 DEF Connect
  <1>3. CASE Disconnect(t) \/ Fail(t)
    BY <1>3
    DEF Disconnect, DisconnectRefuse, DisconnectBegin, DisconnectOpenVpn, Disconnects,
        DisconnectWireGuard, DisconnectCommit, Fail, SetFailure, ReleaseAndReturn, Return
  <1> QED BY <1>1, <1>2, <1>3 DEF Handler

LEMMA OwnerStep == Base /\ OwnerInv /\ [Next]_vars => OwnerInv'
  <1> SUFFICES ASSUME Base, OwnerInv, [Next]_vars PROVE OwnerInv'
    OBVIOUS
  <1> USE DEF OwnerInv
  <1>1. ASSUME NEW t \in Threads, Handler(t) PROVE OwnerInv'
    <2>1. OthersStay(t) /\ UNCHANGED service
      BY <1>1, HandlerMoves DEF Moves, Base
    <2>2. CASE Ignores(t)
      BY <2>1, <2>2 DEF OthersStay, Ignores
    <2>3. \A x \in Threads \ {t} : pc[t] \in Held => pc'[x] # "commit"
      BY <2>1 DEF OthersStay, Base, LockInv, Held, Connecting
    <2>4. CASE Persists(t) \/ Publishes(t) \/ Forgets(t)
      BY <2>1, <2>3, <2>4 DEF Persists, Publishes, Forgets, Held, Connecting
    <2> QED BY <1>1, <2>2, <2>4, HandlerOwner DEF Base
  <1>2. CASE Process
    BY <1>2
    DEF Base, DownInv, Process, ServiceStop, Shutdown, ServiceExit, Crash, Reboot,
        ServiceStart, ProcessGone, state, disk, threads, call, TypeInv, TypeOK
  <1>3. ASSUME NEW w \in Workers, ConnectThrow(w) PROVE OwnerInv'
    BY <1>3 DEF ConnectThrow, ReleaseAndReturn, Return, Base, TypeInv, TypeOK, Threads,
                state, disk
  <1>4. ASSUME NEW w \in Workers, NEW u \in Users, NEW m \in Methods, Request(w, u, m)
        PROVE  OwnerInv'
    BY <1>4 DEF Request, Base, TypeInv, TypeOK, Threads, state, disk
  <1>5. CASE Engine \/ UNCHANGED vars
    BY <1>5
    DEF Engine, WireGuardStarts, WireGuardStops, OpenVpnConnects, OpenVpnReconnects,
        OpenVpnExits, vars, state, disk, threads, call
  <1> QED BY <1>1, <1>2, <1>3, <1>4, <1>5 DEF Next

\* Whenever no operation runs, an owner in memory is the owner on disk, so that a
\* restart of the service finds it.
THEOREM OwnerIsPersisted == Spec => []OwnerPersisted
  <1>1. Init => Base /\ OwnerInv
    BY InitBase DEF Init, OwnerInv
  <1>2. Base /\ OwnerInv /\ [Next]_vars => (Base /\ OwnerInv)'
    BY BaseStep, OwnerStep
  <1>3. Base /\ OwnerInv => OwnerPersisted
    BY ControllerAssumption
    DEF Base, LockInv, OwnerInv, OwnerPersisted, Held, Connecting, Threads
  <1> QED BY <1>1, <1>2, <1>3, PTL DEF Spec

-----------------------------------------------------------------------------
(* The status while nothing runs *)

\* An operation that has changed the status has yet to settle it.
BusyInv == Busy => \E t \in Threads : opHolder = t /\ pc[t] # "admit"

LEMMA HandlerBusy ==
  ASSUME NEW t \in Threads, Base, BusyInv, Handler(t)
  PROVE  BusyInv'
  <1> USE DEF Base, TypeInv, TypeOK, BusyInv, Busy, state, call
  <1>1. CASE t \in Workers /\ Account(t)
    BY <1>1, AccountMoves
    DEF Moves, OthersStay, Acquires, Keeps, Releases, Outside, LockInv, Account, Login,
        LogoutBegin, LogoutRemove, LogoutForget, LoadSession, ServersInsert,
        SettingsSave, SettingsApply, Held, Connecting
  <1>2. CASE Connect(t)
    <2>0. OthersStay(t)
      BY <1>2, HandlerMoves DEF Moves, Handler
    <2>1. CASE ConnectBegin(t)
      BY <2>1, ControllerAssumption DEF ConnectBegin, Threads
    <2>2. CASE ConnectRefuse(t)
      BY <2>2 DEF ConnectRefuse, LockInv, Held, Connecting
    <2>3. CASE ConnectAdmit(t)
      BY <2>3 DEF ConnectAdmit, LockInv, Held, Connecting
    <2>4. CASE ConnectSelect(t) \/ ConnectApiFails(t) \/ ConnectSwitch(t)
      BY <2>4 DEF ConnectSelect, ConnectApiFails, ConnectSwitch, LockInv, Held, Connecting
    <2>5. CASE \/ ConnectLaunch(t) \/ ConnectUp(t) \/ ConnectTimesOut(t)
               \/ ConnectPersist(t) \/ ConnectUndo(t)
      BY <2>5 DEF ConnectLaunch, ConnectUp, ConnectTimesOut, ConnectPersist, ConnectUndo,
                  LockInv, Held, Connecting
    <2>6. CASE ConnectCommit(t)
      BY <2>6 DEF ConnectCommit
    <2> QED BY <1>2, <2>1, <2>2, <2>3, <2>4, <2>5, <2>6 DEF Connect
  <1>3. CASE Disconnect(t) \/ Fail(t)
    <2>1. CASE DisconnectRefuse(t)
      BY <2>1, ControllerAssumption DEF DisconnectRefuse, Threads
    <2>2. CASE DisconnectBegin(t)
      BY <2>2 DEF DisconnectBegin
    <2>3. CASE DisconnectOpenVpn(t) \/ DisconnectWireGuard(t)
      BY <2>3 DEF DisconnectOpenVpn, DisconnectWireGuard, LockInv, Held
    <2>4. CASE DisconnectCommit(t) \/ Fail(t)
      BY <2>4 DEF DisconnectCommit, Fail, SetFailure
    <2> QED BY <1>3, <2>1, <2>2, <2>3, <2>4 DEF Disconnect
  <1> QED BY <1>1, <1>2, <1>3 DEF Handler

LEMMA BusyStep ==
  ASSUME "throw" \notin Faults
  PROVE  Base /\ BusyInv /\ [Next]_vars => BusyInv'
  <1> SUFFICES ASSUME Base, BusyInv, [Next]_vars PROVE BusyInv'
    OBVIOUS
  <1> USE DEF Base, BusyInv, Busy, TypeInv, TypeOK
  <1>1. CASE Process
    <2>1. CASE ServiceStop
      BY <2>1 DEF ServiceStop, state, threads
    <2>2. CASE Shutdown
      BY <2>2, ControllerAssumption DEF Shutdown, state, LockInv, Held, Connecting, Threads
    <2>3. CASE ServiceExit \/ Crash \/ Reboot
      BY <2>3 DEF ServiceExit, Crash, Reboot, ProcessGone
    <2>4. CASE ServiceStart
      BY <2>4 DEF ServiceStart, DownInv, threads
    <2> QED BY <1>1, <2>1, <2>2, <2>3, <2>4 DEF Process
  <1>2. ASSUME NEW w \in Workers, NEW u \in Users, NEW m \in Methods, Request(w, u, m)
        PROVE  BusyInv'
    BY <1>2 DEF Request, state, LockInv, Held, Threads
  <1>3. CASE Engine \/ UNCHANGED vars
    BY <1>3
    DEF Engine, WireGuardStarts, WireGuardStops, OpenVpnConnects, OpenVpnReconnects,
        OpenVpnExits, vars, state, threads
  <1> QED BY <1>1, <1>2, <1>3, HandlerBusy DEF Next, ConnectThrow

\* As long as no handler throws, the status says Connecting or Disconnecting only
\* while an operation holds the lock: no error path leaves it behind, and the
\* busy reply is never sent.
THEOREM StatusSettles == "throw" \notin Faults /\ Spec => []ChangeHoldsLock
  <1> SUFFICES ASSUME "throw" \notin Faults PROVE Spec => []ChangeHoldsLock
    OBVIOUS
  <1>1. Init => Base /\ BusyInv
    BY InitBase DEF Init, BusyInv, Busy
  <1>2. Base /\ BusyInv /\ [Next]_vars => (Base /\ BusyInv)'
    BY BaseStep, BusyStep
  <1>3. Base /\ BusyInv => ChangeHoldsLock
    BY ControllerAssumption DEF BusyInv, ChangeHoldsLock, Threads
  <1> QED BY <1>1, <1>2, <1>3, PTL DEF Spec

-----------------------------------------------------------------------------
(* The session that a settings request writes back *)

\* A settings request between the load of its session and its write has one to
\* write over.
SaveInv == \A w \in Workers : pc[w] = "save" => store[who[w]] # NoSession

\* What a handler may do to the sessions: nothing, or its own user signs in, saves
\* settings or signs out.
LEMMA StoreMoves ==
  ASSUME TypeInv, NEW t \in Threads, Handler(t)
  PROVE  \/ UNCHANGED store /\ pc'[t] # "save"
         \/ UNCHANGED store /\ store[who[t]] # NoSession /\ who'[t] = who[t]
         \/ /\ \A u \in Users \ {who[t]} : store'[u] = store[u]
            /\ pc'[t] # "save"
            /\ \/ pc[t] = "remove" /\ store'[who[t]] = NoSession
               \/ /\ UNCHANGED store \/ store'[who[t]] # NoSession
                  /\ pc[t] = "save" \/ (method[t] = "login" /\ pc'[t] # pc[t])
  <1> USE DEF TypeInv, TypeOK, Threads, Return, ReleaseAndReturn, disk, call
  <1>1. CASE Disconnect(t) \/ Fail(t)
    BY <1>1 DEF Disconnect, DisconnectRefuse, DisconnectBegin, DisconnectOpenVpn,
                DisconnectWireGuard, DisconnectCommit, Fail
  <1>2. CASE t \in Workers /\ Connect(t)
    BY <1>2 DEF Connect, ConnectBegin, ConnectRefuse, ConnectAdmit, ConnectSelect,
                ConnectApiFails, ConnectSwitch, ConnectLaunch, ConnectUp,
                ConnectTimesOut, ConnectPersist, ConnectUndo, ConnectCommit
  <1>3. CASE t \in Workers /\ Account(t)
    <2>0. pc[t] # "idle" => who[t] \in Users
      BY <1>3 DEF ThreadOK
    <2>1. ASSUME NEW token \in Tokens, Login(t, token)
          PROVE  /\ \A u \in Users \ {who[t]} : store'[u] = store[u]
                 /\ UNCHANGED store \/ store'[who[t]] # NoSession
                 /\ pc'[t] # "save" /\ method[t] = "login" /\ pc'[t] # pc[t]
      BY <2>0, <2>1 DEF Login, NoSession
    <2>2. CASE LogoutRemove(t)
      BY <1>3, <2>0, <2>2 DEF LogoutRemove
    <2>3. CASE LogoutBegin(t) \/ LogoutForget(t) \/ ServersInsert(t) \/ SettingsApply(t)
      BY <1>3, <2>3 DEF LogoutBegin, LogoutForget, ServersInsert, SettingsApply
    <2>4. CASE LoadSession(t)
      BY <1>3, <2>4 DEF LoadSession, Load, SignedIn
    <2>5. ASSUME NEW tech \in Technologies, SettingsSave(t, tech)
          PROVE  /\ \A u \in Users \ {who[t]} : store'[u] = store[u]
                 /\ UNCHANGED store \/ store'[who[t]] # NoSession
                 /\ pc'[t] # "save" /\ pc[t] = "save"
      BY <2>0, <2>5 DEF SettingsSave, NoSession, Technologies
    <2> QED BY <1>3, <2>1, <2>2, <2>3, <2>4, <2>5 DEF Account
  <1> QED BY <1>1, <1>2, <1>3 DEF Handler

LEMMA SaveStep ==
  ASSUME Base, SaveInv, ~SaveMeetsLogout, [Next]_vars
  PROVE  SaveInv'
  <1> USE DEF SaveInv
  <1>0. \A x \in Workers : x \in Threads /\ (pc[x] # "idle" => who[x] \in Users)
    BY DEF Threads, Base, TypeInv, ThreadOK
  <1>1. ASSUME NEW t \in Threads, Handler(t) PROVE SaveInv'
    <2>1. OthersStay(t)
      BY <1>1, HandlerMoves DEF Base, Moves
    <2>2. ASSUME NEW w \in Workers \ {t}, pc'[w] = "save" PROVE store'[who'[w]] # NoSession
      <3>1. pc[w] = "save" /\ who'[w] = who[w] /\ store[who[w]] # NoSession /\ who[w] \in Users
        BY <1>0, <2>1, <2>2 DEF OthersStay
      <3>2. ~(pc[t] = "remove" /\ who[t] = who[w])
        BY <3>1 DEF SaveMeetsLogout, Threads, Base, TypeInv, ThreadOK, MainLabels
      <3>3. store'[who[w]] = store[who[w]] \/ store'[who[w]] # NoSession
        BY <1>1, <3>1, <3>2, StoreMoves DEF Base
      <3> QED BY <3>1, <3>3
    <2>3. ASSUME pc'[t] = "save" PROVE store'[who'[t]] # NoSession
      BY <1>1, <2>3, StoreMoves DEF Base
    <2> QED BY <2>2, <2>3
  <1>2. ASSUME UNCHANGED store,
               \A w \in Workers : pc'[w] = "save" => pc[w] = "save" /\ who'[w] = who[w]
        PROVE  SaveInv'
    BY <1>2
  <1>3. CASE \E w \in Workers : ConnectThrow(w)
    BY <1>0, <1>2, <1>3 DEF ConnectThrow, ReleaseAndReturn, Return, disk, Base, TypeInv, TypeOK
  <1>4. CASE \E w \in Workers, u \in Users, m \in Methods : Request(w, u, m)
    BY <1>0, <1>2, <1>4 DEF Request, disk, Base, TypeInv, TypeOK
  <1>5. CASE Engine \/ UNCHANGED vars
    BY <1>2, <1>5
    DEF Engine, WireGuardStarts, WireGuardStops, OpenVpnConnects, OpenVpnReconnects,
        OpenVpnExits, vars, threads, call, disk
  <1>6. CASE Process
    <2>1. UNCHANGED store
      BY <1>6 DEF Process, ServiceStop, Shutdown, ServiceExit, Crash, Reboot,
                  ServiceStart, disk
    <2>2. CASE ProcessGone
      BY <1>0, <1>2, <2>1, <2>2 DEF ProcessGone
    <2>3. CASE ServiceStop \/ Shutdown \/ ServiceStart
      BY <1>0, <1>2, <2>1, <2>3, ControllerAssumption
      DEF ServiceStop, Shutdown, ServiceStart, threads, call, Base, TypeInv, TypeOK
    <2> QED BY <1>6, <2>2, <2>3 DEF Process, ServiceExit, Crash, Reboot
  <1> QED BY <1>1, <1>3, <1>4, <1>5, <1>6 DEF Next

\* A user without a session gets one by signing in, whatever fails, or a logout has
\* met a settings request of its user that had loaded the session and not yet written
\* it back: no other order of calls brings a removed session back
\* (VpnController::saveSettings, which reads and writes it with no lock between).
THEOREM OnlyLoginSignsIn == Spec => SessionOnlyByLogin \/ <>SaveMeetsLogout
  <1> DEFINE SignsIn(u) == store[u] = NoSession /\ store'[u] # NoSession
             LogsIn(u) == \E w \in Workers : /\ method[w] = "login" /\ who[w] = u
                                           /\ pc'[w] # pc[w]
             ByLogin == \A u \in Users : SignsIn(u) => LogsIn(u)
  <1>1. Init => Base /\ SaveInv
    BY InitBase DEF Init, SaveInv, Threads
  <1>2. Base /\ SaveInv /\ ~SaveMeetsLogout /\ [Next]_vars => (Base /\ SaveInv)'
    BY BaseStep, SaveStep
  <1>3. Base /\ SaveInv /\ [Next]_vars => ByLogin
    <2> SUFFICES ASSUME Base, SaveInv, [Next]_vars, NEW u \in Users, SignsIn(u)
                 PROVE  LogsIn(u)
      OBVIOUS
    <2>1. PICK t \in Threads : Handler(t)
      BY DEF Next, Request, ConnectThrow, Engine, WireGuardStarts, WireGuardStops,
             OpenVpnConnects, OpenVpnReconnects, OpenVpnExits, Process, ServiceStop,
             Shutdown, ServiceExit, Crash, Reboot, ServiceStart, vars, disk
    <2>2. u = who[t]
      BY <2>1, StoreMoves DEF Base
    <2>3. t \in Workers
      BY <2>2, ControllerAssumption DEF Threads, Base, TypeInv, ThreadOK
    <2>4. pc[t] # "save"
      BY <2>2, <2>3 DEF SaveInv
    <2> QED BY <2>1, <2>2, <2>3, <2>4, StoreMoves DEF Base
  <1> QED BY <1>1, <1>2, <1>3, PTL DEF SessionOnlyByLogin, Spec
=============================================================================
