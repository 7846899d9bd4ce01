----------------------- MODULE ControllerTunnelProofs -----------------------
(***************************************************************************)
(* Which engine is live at each place of an operation, and whose it is:    *)
(* from that, ownership, the technology reported, that no handler takes    *)
(* over the tunnel of another user and that a logout ends its tunnel       *)
(* before it turns to the session.  These hold as long as a handler does   *)
(* not throw, an engine that is told to stop stops, and the service ends   *)
(* by its stop: Faults \subseteq {"fileFails"}.  That one engine is live   *)
(* at a time is proved apart, with all faults.                             *)
(***************************************************************************)
EXTENDS ControllerProofs

\* An engine that carries traffic or is about to
WireGuardLive == wireGuard.state \in {"pending", "running"}

\* What is live runs with the credentials of u.
LiveFor(u) == /\ WireGuardLive => wireGuard.user = u
              /\ OpenVpnRunning => openVpn.user = u
NothingLive == ~WireGuardLive /\ ~OpenVpnRunning

\* No engine is live but that of the technology.
OnlyLive(tech) == IF tech = "OpenVpn" THEN ~WireGuardLive ELSE ~OpenVpnRunning

\* The labels of a connect between its admission and the launch of its engine,
\* from the launch to the end, and the labels of a disconnect
Admitted == {"select", "engine", "launch"}
Launched == {"await", "persist", "undo", "commit"}
Stopping == {"stopOpenVpn", "stopWireGuard", "disconnected"}

\* What is live has a user, one engine at most is, and the WireGuard tunnel
\* service starts only while a connect waits for it.
EngineInv ==
    /\ WireGuardLive => wireGuard.user \in Users
    /\ OpenVpnRunning => openVpn.user \in Users
    /\ ~(WireGuardLive /\ OpenVpnRunning)
    /\ wireGuard.state = "pending" => \E t \in Threads : pc[t] = "await"

\* The owner in memory is the user of what is live, from the end of one connect
\* to the launch of the next.
OwnedInv == (\A t \in Threads : pc[t] \notin Launched) => LiveFor(owner)

\* What each place of an operation knows of the engines
PlaceInv(t) ==
    /\ pc[t] \in Admitted \cup Launched => LiveFor(who[t])
    /\ pc[t] \in {"launch"} \cup Launched => OnlyLive(Tech(t))
    /\ t \in Workers /\ pc[t] \in Stopping => LiveFor(who[t])
    /\ pc[t] = "stopWireGuard" => ~OpenVpnRunning
    /\ pc[t] = "disconnected" => NothingLive
    /\ t = Main /\ pc[t] \in {"fail", "exit"} => NothingLive
    /\ pc[t] \in Admitted \cup Launched \cup Stopping => status # "Connected"

\* A connection that is up and settled is of the technology reported.
NamedInv ==
    status = "Connected" => /\ WireGuardLive => technology = "NordLynx"
                            /\ OpenVpnRunning => technology = "OpenVpn"

TunnelInv == /\ EngineInv /\ OwnedInv /\ NamedInv
             /\ \A t \in Threads : PlaceInv(t)
             /\ service = "down" => NothingLive

USE DEF At, Goto, Tech

-----------------------------------------------------------------------------
(* The engines *)

\* Without "stopFails" an engine that is stopped is gone.
LEMMA StopsGone ==
  ASSUME Faults \subseteq {"fileFails"}, NEW ok
  PROVE  /\ StopWireGuard(ok) => wireGuard' = Absent
         /\ StopOpenVpn(ok) => ok /\ openVpn' = Absent
  BY DEF StopWireGuard, StopOpenVpn

\* A stop of the engine of one technology leaves the other's alone.
StopsOnly(tech) == IF tech = "OpenVpn" THEN openVpn' = Absent /\ UNCHANGED wireGuard
                   ELSE wireGuard' = Absent /\ UNCHANGED openVpn

LEMMA RollBackStops ==
  ASSUME Faults \subseteq {"fileFails"}, NEW t \in Threads, RollBack(t)
  PROVE  StopsOnly(Tech(t))
  BY StopsGone DEF RollBack, StopEngine, StopsOnly

\* What a stop of an engine does to what is live
LEMMA StopsLive ==
  ASSUME NEW tech, StopsOnly(tech)
  PROVE  /\ \A u : LiveFor(u) => LiveFor(u)'
         /\ OnlyLive(tech) => NothingLive'
         /\ tech = "OpenVpn" => ~OpenVpnRunning'
         /\ tech # "OpenVpn" => ~WireGuardLive'
         /\ WireGuardLive' => WireGuardLive /\ wireGuard' = wireGuard
         /\ OpenVpnRunning' => OpenVpnRunning /\ openVpn' = openVpn
         /\ wireGuard'.state = "pending" => wireGuard.state = "pending"
  BY DEF StopsOnly, LiveFor, OnlyLive, NothingLive, WireGuardLive, OpenVpnRunning, Absent

-----------------------------------------------------------------------------
(* The initial state *)

LEMMA InitTunnel == Init => TunnelInv
  BY ControllerAssumption
  DEF Init, TunnelInv, EngineInv, OwnedInv, NamedInv, PlaceInv, LiveFor, OnlyLive,
      NothingLive, WireGuardLive, OpenVpnRunning, Absent, Admitted, Launched, Stopping

-----------------------------------------------------------------------------
(* A step outside every operation *)

\* A thread stays where it is, or is in no operation before or after.
Aside(t) == \/ pc'[t] = pc[t] /\ who'[t] = who[t] /\ session'[t] = session[t]
            \/ pc[t] \notin Held /\ pc'[t] \notin Held /\ pc'[t] # "exit"

\* What is live may only end.
EnginesCalm == /\ WireGuardLive' => WireGuardLive /\ wireGuard'.user = wireGuard.user
               /\ OpenVpnRunning' => OpenVpnRunning /\ openVpn'.user = openVpn.user
               /\ wireGuard'.state = "pending" => wireGuard.state = "pending"

LEMMA CalmStep ==
  ASSUME TunnelInv, EnginesCalm, \A t \in Threads : Aside(t),
         UNCHANGED <<owner, status>>, NamedInv', service' = "down" => service = "down"
  PROVE  TunnelInv'
  <1> USE DEF TunnelInv, EnginesCalm, Aside
  <1>1. EngineInv'
    BY DEF EngineInv, Held, Connecting
  <1>2. OwnedInv'
    BY DEF OwnedInv, LiveFor, Launched, Held, Connecting
  <1>3. ASSUME NEW t \in Threads PROVE PlaceInv(t)'
    BY DEF PlaceInv, LiveFor, OnlyLive, NothingLive, Admitted, Launched, Stopping,
           Held, Connecting
  <1>4. (service = "down" => NothingLive)'
    BY DEF NothingLive
  <1> QED BY <1>1, <1>2, <1>3, <1>4

\* The handlers that take no lock touch the session of their own thread only, and
\* the technology reported only when nothing is connected.
LEMMA AccountAside ==
  ASSUME TypeInv, NEW w \in Workers, Account(w)
  PROVE  /\ pc'[w] # "exit" /\ w # Main
         /\ \A x \in Threads \ {w} : session'[x] = session[x]
         /\ technology' # technology => status # "Connected"
  <1> USE ControllerAssumption DEF TypeInv, TypeOK, Threads, Return, state, call, Idle
  <1>1. ASSUME NEW token \in Tokens, Login(w, token)
        PROVE  /\ pc'[w] # "exit" /\ UNCHANGED technology
               /\ \A x \in Threads \ {w} : session'[x] = session[x]
    BY <1>1 DEF Login
  <1>2. CASE LogoutBegin(w) \/ LogoutRemove(w) \/ LogoutForget(w)
    BY <1>2 DEF LogoutBegin, LogoutRemove, LogoutForget
  <1>3. CASE LoadSession(w) \/ ServersInsert(w)
    BY <1>3 DEF LoadSession, Load, ServersInsert
  <1>4. ASSUME NEW tech \in Technologies, SettingsSave(w, tech)
        PROVE  /\ pc'[w] # "exit" /\ UNCHANGED technology
               /\ \A x \in Threads \ {w} : session'[x] = session[x]
    BY <1>4 DEF SettingsSave
  <1>5. CASE SettingsApply(w)
    BY <1>5 DEF SettingsApply
  <1> QED BY <1>1, <1>2, <1>3, <1>4, <1>5 DEF Account

LEMMA AccountTunnel ==
  ASSUME Base, TunnelInv, NEW w \in Workers, Account(w)
  PROVE  TunnelInv'
  <1>1. Moves(w) /\ UNCHANGED <<owner, status, engines>>
    BY AccountMoves DEF Base
  <1>2. /\ pc'[w] # "exit" /\ \A x \in Threads \ {w} : session'[x] = session[x]
        /\ technology' # technology => status # "Connected"
    BY AccountAside DEF Base
  <1>3. pc[w] \notin Held /\ pc'[w] \notin Held
    BY DEF Account, Login, LogoutBegin, LogoutRemove, LogoutForget, LoadSession,
           ServersInsert, SettingsSave, SettingsApply, Return, Held, Connecting, Base,
           TypeInv, TypeOK, Threads
  <1>4. \A t \in Threads : Aside(t)
    BY <1>1, <1>2, <1>3 DEF Aside, Moves, OthersStay
  <1>5. EnginesCalm /\ NamedInv'
    BY <1>1, <1>2
    DEF EnginesCalm, WireGuardLive, OpenVpnRunning, engines, TunnelInv, NamedInv
  <1> QED BY <1>1, <1>4, <1>5, CalmStep DEF Moves

LEMMA EngineTunnel ==
  ASSUME Base, TunnelInv,
         \/ Engine
         \/ UNCHANGED vars
         \/ ServiceStop
  PROVE  TunnelInv'
  <1>1. /\ UNCHANGED <<owner, status, technology>> /\ \A t \in Threads : Aside(t)
        /\ service' = "down" => service = "down"
    BY DEF Aside, Engine, WireGuardStarts, WireGuardStops, OpenVpnConnects,
           OpenVpnReconnects, OpenVpnExits, ServiceStop, vars, state, threads, call
  <1>2. EnginesCalm
    BY DEF EnginesCalm, WireGuardLive, OpenVpnRunning, Engine, WireGuardStarts,
           WireGuardStops, OpenVpnConnects, OpenVpnReconnects, OpenVpnExits, ServiceStop,
           vars, engines, Absent, Base, TypeInv, TypeOK
  <1>3. NamedInv'
    BY <1>1, <1>2 DEF EnginesCalm, TunnelInv, NamedInv
  <1> QED BY <1>1, <1>2, <1>3, CalmStep

LEMMA RequestTunnel ==
  ASSUME Base, TunnelInv, NEW w \in Workers, NEW u \in Users, NEW m \in Methods,
         Request(w, u, m)
  PROVE  TunnelInv'
  <1>1. \A t \in Threads : Aside(t)
    BY DEF Request, Aside, Base, TypeInv, TypeOK, Threads, Held, Connecting
  <1>2. EnginesCalm /\ NamedInv'
    BY DEF Request, EnginesCalm, WireGuardLive, OpenVpnRunning, engines, state, TunnelInv,
           NamedInv
  <1> QED BY <1>1, <1>2, CalmStep DEF Request, state

LEMMA ProcessTunnel ==
  ASSUME Faults \subseteq {"fileFails"}, Base, TunnelInv, Process
  PROVE  TunnelInv'
  <1>1. CASE ServiceStop
    BY <1>1, EngineTunnel
  <1>2. CASE Shutdown
    <2>1. \A t \in Threads : Aside(t)
      BY <1>2 DEF Shutdown, Aside, Base, TypeInv, TypeOK, Threads, Held, Connecting, call
    <2>2. EnginesCalm /\ NamedInv'
      BY <1>2 DEF Shutdown, EnginesCalm, WireGuardLive, OpenVpnRunning, engines, state,
                  TunnelInv, NamedInv
    <2> QED BY <1>2, <2>1, <2>2, CalmStep DEF Shutdown, state
  <1>3. CASE ServiceExit
    <2>1. NothingLive
      BY <1>3 DEF ServiceExit, TunnelInv, PlaceInv, Threads
    <2>2. NothingLive' /\ \A t \in Threads : pc'[t] = "idle"
      BY <1>3, <2>1 DEF ServiceExit, ProcessGone, NothingLive, WireGuardLive,
                        OpenVpnRunning, Absent, Threads
    <2> QED
      BY <2>2
      DEF TunnelInv, EngineInv, OwnedInv, NamedInv, PlaceInv, LiveFor, OnlyLive,
          NothingLive, WireGuardLive, Admitted, Launched, Stopping
  <1>4. CASE ServiceStart
    <2>1. NothingLive /\ \A t \in Threads : pc[t] = "idle"
      BY <1>4 DEF ServiceStart, TunnelInv, Base, DownInv
    <2>2. NothingLive' /\ \A t \in Threads : pc'[t] = "idle"
      BY <1>4, <2>1 DEF ServiceStart, NothingLive, WireGuardLive, OpenVpnRunning, engines,
                        threads
    <2> QED
      BY <2>2
      DEF TunnelInv, EngineInv, OwnedInv, NamedInv, PlaceInv, LiveFor, OnlyLive,
          NothingLive, WireGuardLive, Admitted, Launched, Stopping
  <1> QED BY <1>1, <1>2, <1>3, <1>4 DEF Process, Crash, Reboot

-----------------------------------------------------------------------------
(* A step of the thread that holds the lock, or takes it *)

\* The thread is the only one that can be in an operation.
Alone(t) == pc[t] \in Held \/ opHolder = NoThread

\* The invariant as that thread sees it
Local(t) ==
    /\ WireGuardLive => wireGuard.user \in Users
    /\ OpenVpnRunning => openVpn.user \in Users
    /\ ~(WireGuardLive /\ OpenVpnRunning)
    /\ wireGuard.state = "pending" => pc[t] = "await"
    /\ pc[t] \notin Launched => LiveFor(owner)
    /\ NamedInv
    /\ PlaceInv(t)

LEMMA AloneIsLocal ==
  ASSUME Base, TunnelInv, NEW t \in Threads, Alone(t)
  PROVE  Local(t)
  <1>1. \A x \in Threads \ {t} : pc[x] \notin Held
    BY ControllerAssumption DEF Alone, Base, LockInv, Threads
  <1> QED
    BY <1>1
    DEF Local, TunnelInv, EngineInv, OwnedInv, Launched, Held, Connecting

LEMMA LocalIsAll ==
  ASSUME Base, NEW t \in Threads, Alone(t), Moves(t), Local(t)'
  PROVE  TunnelInv'
  <1>1. ASSUME NEW x \in Threads \ {t}
        PROVE  pc'[x] \notin Held /\ ~(x = Main /\ pc'[x] = "exit")
    BY ControllerAssumption DEF Alone, Base, LockInv, MainInv, Moves, OthersStay, Threads
  <1>2. ASSUME NEW x \in Threads PROVE PlaceInv(x)'
    BY <1>1
    DEF Local, PlaceInv, Admitted, Launched, Stopping, Held, Connecting
  <1>3. EngineInv' /\ OwnedInv' /\ NamedInv'
    BY DEF Local, EngineInv, OwnedInv
  <1>4. service' # "down"
    BY DEF Moves, Base, DownInv
  <1> QED BY <1>2, <1>3, <1>4 DEF TunnelInv

\* Neither stopping an engine nor leaving both alone starts anything.
LEMMA StopsCalm ==
  ASSUME \/ UNCHANGED engines
         \/ \E tech \in Technologies : StopsOnly(tech)
  PROVE  EnginesCalm
  <1>1. CASE UNCHANGED engines
    BY <1>1 DEF engines, EnginesCalm, WireGuardLive, OpenVpnRunning
  <1>2. ASSUME NEW tech \in Technologies, StopsOnly(tech) PROVE EnginesCalm
    BY <1>2, StopsLive DEF EnginesCalm
  <1> QED BY <1>1, <1>2

\* A connect that starts nothing goes on with the other engine gone, or fails.
LEMMA ShrinkLocal ==
  ASSUME NEW w \in Workers, w # Main, Local(w), EnginesCalm,
         UNCHANGED <<status, technology, owner, who, session>>,
         pc[w] \in {"engine", "launch"},
         pc'[w] = "fail" \/ (pc'[w] = "launch" /\ OnlyLive(Tech(w))')
  PROVE  Local(w)'
  BY DEF Local, EnginesCalm, NamedInv, PlaceInv, LiveFor, Admitted, Launched, Stopping

\* A connect that launches its engine is the only user of what is live.
LEMMA LaunchLocal ==
  ASSUME NEW w \in Workers, w # Main, Local(w), who[w] \in Users,
         UNCHANGED <<status, technology, owner, who, session>>,
         pc[w] = "launch", pc'[w] = "await", OnlyLive(Tech(w))',
         WireGuardLive' => wireGuard'.user = who[w],
         OpenVpnRunning' => openVpn'.user = who[w],
         ~(WireGuardLive' /\ OpenVpnRunning')
  PROVE  Local(w)'
  BY DEF Local, NamedInv, PlaceInv, LiveFor, Admitted, Launched, Stopping

LEMMA SwitchLocal ==
  ASSUME Faults \subseteq {"fileFails"}, Base, NEW w \in Workers, w # Main, Local(w),
         ConnectSwitch(w)
  PROVE  Local(w)'
  <1>1. /\ pc[w] = "engine" /\ pc'[w] \in {"launch", "fail"}
        /\ UNCHANGED <<status, technology, owner, who, session>>
    BY DEF ConnectSwitch, state, call, Base, TypeInv, TypeOK, Threads
  <1>2. Tech(w) \in Technologies
    BY <1>1, TechType DEF Base, Loaded, Connecting, Threads
  <1>3. CASE UNCHANGED engines
    <2>1. WireGuardLive => WireGuardConnected
      BY <1>1 DEF Local, WireGuardLive, WireGuardConnected
    <2>2. pc'[w] = "launch" => ~OtherEngineUp(w)
      <3>1. ASSUME NEW tech \in Technologies \ {Tech(w)}, NEW ok \in BOOLEAN,
                   StopEngine(tech, ok)
            PROVE  ~OtherEngineUp(w)
        <4>1. StopsOnly(tech)
          BY <3>1, StopsGone DEF StopEngine, StopsOnly
        <4>2. IF tech = "OpenVpn" THEN ~OpenVpnRunning' ELSE ~WireGuardLive'
          BY <4>1, StopsLive
        <4>3. IF tech = "OpenVpn" THEN ~OpenVpnRunning ELSE ~WireGuardLive
          BY <1>3, <4>2 DEF engines, WireGuardLive, OpenVpnRunning
        <4>4. Tech(w) = "OpenVpn" <=> tech # "OpenVpn"
          BY <1>2, <3>1 DEF Technologies
        <4> QED BY <4>3, <4>4 DEF OtherEngineUp, WireGuardLive, WireGuardConnected
      <3> QED BY <3>1 DEF ConnectSwitch
    <2>3. ~OtherEngineUp(w) => OnlyLive(Tech(w))
      BY <2>1 DEF OtherEngineUp, OnlyLive
    <2>4. OnlyLive(Tech(w)) => OnlyLive(Tech(w))'
      BY <1>1, <1>3 DEF OnlyLive, WireGuardLive, OpenVpnRunning, engines
    <2> QED BY <1>1, <1>3, <2>2, <2>3, <2>4, StopsCalm, ShrinkLocal
  <1>4. ASSUME NEW tech \in Technologies \ {Tech(w)}, NEW ok \in BOOLEAN,
               StopEngine(tech, ok)
        PROVE  Local(w)'
    <2>1. StopsOnly(tech)
      BY <1>4, StopsGone DEF StopEngine, StopsOnly
    <2>2. UNCHANGED Tech(w)
      BY <1>1
    <2>3. Tech(w) = "OpenVpn" <=> tech # "OpenVpn"
      BY <1>2, <1>4 DEF Technologies
    <2>4. OnlyLive(Tech(w))'
      BY <2>1, <2>2, <2>3, StopsLive DEF OnlyLive
    <2>5. EnginesCalm
      BY <2>1, StopsCalm
    <2> QED BY <1>1, <2>4, <2>5, ShrinkLocal
  <1> QED BY <1>3, <1>4 DEF ConnectSwitch

LEMMA ConnectLaunchLocal ==
  ASSUME Faults \subseteq {"fileFails"}, Base, NEW w \in Workers, w # Main, Local(w),
         ConnectLaunch(w)
  PROVE  Local(w)'
  <1>1. /\ pc[w] = "launch" /\ pc'[w] \in {"await", "fail"}
        /\ UNCHANGED <<status, technology, owner, who, session>>
    BY DEF ConnectLaunch, state, call, Base, TypeInv, TypeOK, Threads
  <1>2. Tech(w) \in Technologies /\ UNCHANGED Tech(w) /\ who[w] \in Users
    BY <1>1, TechType DEF Base, Loaded, Connecting, Threads, TypeInv, ThreadOK
  <1>3. OnlyLive(Tech(w))
    BY <1>1 DEF Local, PlaceInv
  <1>4. CASE pc'[w] = "fail"
    <2>1. UNCHANGED engines \/ StopsOnly(Tech(w))
      BY <1>1, <1>4, StopsGone DEF ConnectLaunch, StopsOnly, Base, TypeInv, TypeOK, Threads
    <2> QED BY <1>1, <1>2, <1>4, <2>1, StopsCalm, ShrinkLocal
  <1>5. CASE pc'[w] = "await"
    <2>1. \/ /\ Tech(w) = "NordLynx" /\ UNCHANGED openVpn
             /\ wireGuard' = [state |-> "pending", user |-> who[w]]
          \/ /\ Tech(w) = "OpenVpn" /\ UNCHANGED wireGuard
             /\ openVpn'.user = who[w]
      BY <1>1, <1>5 DEF ConnectLaunch, engines, Base, TypeInv, TypeOK, Threads
    <2>2. CASE /\ Tech(w) = "NordLynx" /\ UNCHANGED openVpn
               /\ wireGuard' = [state |-> "pending", user |-> who[w]]
      <3>1. ~OpenVpnRunning'
        BY <1>3, <2>2 DEF OnlyLive, OpenVpnRunning
      <3>2. OnlyLive(Tech(w))'
        BY <1>2, <2>2, <3>1 DEF OnlyLive
      <3> QED BY <1>1, <1>2, <1>5, <2>2, <3>1, <3>2, LaunchLocal
    <2>3. CASE /\ Tech(w) = "OpenVpn" /\ UNCHANGED wireGuard
               /\ openVpn'.user = who[w]
      <3>1. ~WireGuardLive'
        BY <1>3, <2>3 DEF OnlyLive, WireGuardLive
      <3>2. OnlyLive(Tech(w))'
        BY <1>2, <2>3, <3>1 DEF OnlyLive
      <3> QED BY <1>1, <1>2, <1>5, <2>3, <3>1, <3>2, LaunchLocal
    <2> QED BY <2>1, <2>2, <2>3
  <1> QED BY <1>1, <1>4, <1>5

LEMMA ConnectLocal ==
  ASSUME Faults \subseteq {"fileFails"}, Base, NEW w \in Workers, Local(w), Connect(w)
  PROVE  Local(w)'
  <1> USE DEF Local, NamedInv, PlaceInv, LiveFor, OnlyLive, NothingLive, WireGuardLive,
              OpenVpnRunning, Admitted, Launched, Stopping
  <1>0. /\ w \in Threads /\ w # Main /\ pc \in [Threads -> Labels]
        /\ session \in [Threads -> Sessions \cup {NoSession}]
        /\ pc[w] # "idle" => who[w] \in Users
        /\ pc[w] \in Loaded => Tech(w) \in Technologies
    BY ControllerAssumption, TechType
    DEF Threads, Base, TypeInv, TypeOK, ThreadOK
  <1>1. CASE ConnectBegin(w)
    BY <1>0, <1>1 DEF ConnectBegin, Load, Return, state, engines
  <1>2. CASE ConnectRefuse(w)
    BY <1>0, <1>2 DEF ConnectRefuse, ReleaseAndReturn, Return, state, engines
  <1>3. CASE ConnectAdmit(w)
    BY <1>0, <1>3, ControllerAssumption
    DEF ConnectAdmit, InUse, TunnelUp, WireGuardConnected, engines
  <1>4. CASE ConnectSelect(w) \/ ConnectApiFails(w)
    BY <1>0, <1>4
    DEF ConnectSelect, ConnectApiFails, Loaded, Connecting, engines, state, call
  <1>5. CASE ConnectSwitch(w)
    BY <1>0, <1>5, SwitchLocal
  <1>6. CASE ConnectLaunch(w)
    BY <1>0, <1>6, ConnectLaunchLocal
  <1>7. CASE ConnectUp(w)
    BY <1>0, <1>7 DEF ConnectUp, WireGuardConnected, engines, state, call
  <1>8. CASE ConnectTimesOut(w) \/ ConnectUndo(w)
    <2>1. StopsOnly(Tech(w))
      BY <1>0, <1>8, RollBackStops DEF ConnectTimesOut, ConnectUndo
    <2>2. NothingLive'
      BY <1>8, <2>1, StopsLive DEF ConnectTimesOut, ConnectUndo
    <2> QED BY <1>0, <1>8, <2>2 DEF ConnectTimesOut, ConnectUndo, state, call
  <1>9. CASE ConnectPersist(w)
    BY <1>0, <1>9 DEF ConnectPersist, engines, state, call
  <1>10. CASE ConnectCommit(w)
    BY <1>0, <1>10
    DEF ConnectCommit, ReleaseAndReturn, Return, Loaded, Connecting, Technologies, engines
  <1> QED BY <1>1, <1>2, <1>3, <1>4, <1>5, <1>6, <1>7, <1>8, <1>9, <1>10 DEF Connect

LEMMA DisconnectLocal ==
  ASSUME Faults \subseteq {"fileFails"}, Base, NEW t \in Threads, Local(t),
         Disconnect(t) \/ Fail(t)
  PROVE  Local(t)'
  <1> USE DEF Local, NamedInv, PlaceInv, LiveFor, OnlyLive, NothingLive, WireGuardLive,
              OpenVpnRunning, Admitted, Launched, Stopping
  <1>0. /\ pc \in [Threads -> Labels] /\ Main \notin Workers
        /\ NoUser \notin Users
    BY ControllerAssumption DEF Threads, Base, TypeInv, TypeOK
  <1>1. CASE DisconnectRefuse(t)
    BY <1>0, <1>1 DEF DisconnectRefuse, Disconnects, Forced, Return, state, engines
  <1>2. CASE DisconnectBegin(t)
    BY <1>0, <1>2 DEF DisconnectBegin, Disconnects, Forced, engines, call
  <1>3. CASE DisconnectOpenVpn(t)
    BY <1>0, <1>3, StopsGone DEF DisconnectOpenVpn, Absent, state
  <1>4. CASE DisconnectWireGuard(t)
    BY <1>0, <1>4, StopsGone DEF DisconnectWireGuard, Absent, state, call
  <1>5. CASE DisconnectCommit(t)
    BY <1>0, <1>5 DEF DisconnectCommit, Return, engines, call
  <1>6. CASE Fail(t)
    BY <1>0, <1>6 DEF Fail, SetFailure, ReleaseAndReturn, Return, engines
  <1> QED BY <1>1, <1>2, <1>3, <1>4, <1>5, <1>6 DEF Disconnect

\* A step of an operation is one of the only thread in an operation.
LEMMA OperationAlone ==
  ASSUME Base, NEW t \in Threads,
         Disconnect(t) \/ Fail(t) \/ (t \in Workers /\ Connect(t))
  PROVE  Alone(t)
  BY DEF Alone, Held, Connecting, Disconnect, DisconnectRefuse, DisconnectBegin,
         DisconnectOpenVpn, DisconnectWireGuard, DisconnectCommit, Fail, Connect,
         ConnectBegin, ConnectRefuse, ConnectAdmit, ConnectSelect, ConnectApiFails,
         ConnectSwitch, ConnectLaunch, ConnectUp, ConnectTimesOut, ConnectPersist,
         ConnectUndo, ConnectCommit

LEMMA HandlerTunnel ==
  ASSUME Faults \subseteq {"fileFails"}, Base, TunnelInv, NEW t \in Threads, Handler(t)
  PROVE  TunnelInv'
  <1>1. CASE t \in Workers /\ Account(t)
    BY <1>1, AccountTunnel
  <1>2. CASE Disconnect(t) \/ Fail(t) \/ (t \in Workers /\ Connect(t))
    <2>1. Alone(t)
      BY <1>2, OperationAlone
    <2>2. Local(t)
      BY <2>1, AloneIsLocal
    <2>3. Local(t)'
      BY <1>2, <2>2, ConnectLocal, DisconnectLocal
    <2> QED BY <2>1, <2>3, HandlerMoves, LocalIsAll DEF Base
  <1> QED BY <1>1, <1>2 DEF Handler

LEMMA TunnelStep ==
  ASSUME Faults \subseteq {"fileFails"}
  PROVE  Base /\ TunnelInv /\ [Next]_vars => (Base /\ TunnelInv)'
  <1> SUFFICES ASSUME Base, TunnelInv, [Next]_vars PROVE TunnelInv'
    BY BaseStep
  <1>1. ~\E w \in Workers : ConnectThrow(w)
    BY DEF ConnectThrow
  <1> QED BY <1>1, HandlerTunnel, RequestTunnel, EngineTunnel, ProcessTunnel DEF Next

LEMMA TunnelAlways ==
  ASSUME Faults \subseteq {"fileFails"}
  PROVE  Spec => [](Base /\ TunnelInv)
  <1>1. Init => Base /\ TunnelInv
    BY InitBase, InitTunnel
  <1> QED BY <1>1, TunnelStep, PTL DEF Spec

-----------------------------------------------------------------------------
(* One engine at a time, with all faults *)

\* The two engines are not live together, and a connect that launches one has seen
\* that the other is not.
PairInv == /\ ~(WireGuardLive /\ OpenVpnRunning)
           /\ \A w \in Workers : pc[w] = "launch" => OnlyLive(Tech(w))

StartsNothing == /\ WireGuardLive' => WireGuardLive
                 /\ OpenVpnRunning' => OpenVpnRunning

\* Stopping an engine starts none, whether it ends or cannot be stopped.
LEMMA StopStartsNothing ==
  ASSUME TypeOK, NEW tech, NEW ok \in BOOLEAN, StopEngine(tech, ok)
  PROVE  /\ StartsNothing
         /\ ok => IF tech = "OpenVpn" THEN ~OpenVpnRunning' ELSE ~WireGuardLive'
  BY DEF TypeOK, StartsNothing, StopEngine, StopOpenVpn, StopWireGuard, Absent,
         WireGuardLive, OpenVpnRunning

LEMMA OperationPair ==
  ASSUME Base, PairInv, ~PassesStarting, NEW t \in Threads,
         Disconnect(t) \/ Fail(t) \/ (t \in Workers /\ Connect(t))
  PROVE  PairInv'
  <1>1. \A x \in Workers \ {t} : pc'[x] # "launch"
    <2>1. Alone(t) /\ OthersStay(t)
      BY OperationAlone, HandlerMoves DEF Handler, Base, Moves
    <2> QED BY <2>1, ControllerAssumption
            DEF Alone, OthersStay, Base, LockInv, Threads, Held, Connecting
  <1>2. ASSUME StartsNothing, t \in Workers => pc'[t] # "launch" \/ OnlyLive(Tech(t))'
        PROVE  PairInv'
    BY <1>1, <1>2 DEF PairInv, StartsNothing, Threads
  <1>3. /\ TypeOK /\ pc \in [Threads -> Labels] /\ Technologies = {"NordLynx", "OpenVpn"}
        /\ pc[t] = "engine" => Tech(t) \in Technologies
    BY TechType DEF Base, TypeInv, TypeOK, Technologies, Loaded, Connecting
  <1>4. ASSUME UNCHANGED engines, pc'[t] # "launch" PROVE PairInv'
    BY <1>2, <1>4 DEF StartsNothing, engines, WireGuardLive, OpenVpnRunning
  <1>5. CASE Disconnect(t) \/ Fail(t)
    <2>1. pc'[t] # "launch"
      BY <1>3, <1>5
      DEF Disconnect, DisconnectRefuse, DisconnectBegin, DisconnectOpenVpn,
          DisconnectWireGuard, DisconnectCommit, Fail, ReleaseAndReturn, Return
    <2>2. CASE UNCHANGED engines
      BY <1>4, <2>1, <2>2
    <2>3. CASE DisconnectOpenVpn(t) \/ DisconnectWireGuard(t)
      <3>1. StartsNothing
        BY <1>3, <2>3
        DEF DisconnectOpenVpn, DisconnectWireGuard, StopOpenVpn, StopWireGuard, TypeOK,
            Absent, StartsNothing, WireGuardLive, OpenVpnRunning
      <3> QED BY <1>2, <2>1, <3>1
    <2> QED BY <1>5, <2>2, <2>3
            DEF Disconnect, DisconnectRefuse, DisconnectBegin, DisconnectCommit, Fail
  <1>6. CASE t \in Workers /\ Connect(t)
    <2>1. CASE ConnectSwitch(t)
      <3>1. CASE UNCHANGED engines /\ ~OtherEngineUp(t)
        <4>1. OnlyLive(Tech(t))
          BY <1>3, <1>6, <2>1, <3>1
          DEF ConnectSwitch, OtherEngineUp, PassesStarting, OnlyLive, WireGuardLive,
              WireGuardConnected
        <4>2. OnlyLive(Tech(t))' /\ StartsNothing
          BY <2>1, <3>1, <4>1
          DEF ConnectSwitch, call, engines, OnlyLive, StartsNothing, WireGuardLive,
              OpenVpnRunning
        <4> QED BY <1>2, <4>2
      <3>2. ASSUME NEW ok \in BOOLEAN, NEW tech \in Technologies \ {Tech(t)},
                   Goto(t, IF ok THEN "launch" ELSE "fail"), StopEngine(tech, ok)
            PROVE  PairInv'
        <4>1. /\ StartsNothing /\ UNCHANGED session
              /\ ok => IF tech = "OpenVpn" THEN ~OpenVpnRunning' ELSE ~WireGuardLive'
          BY <1>3, <2>1, <3>2, StopStartsNothing DEF ConnectSwitch, call
        <4>2. Tech(t) = "OpenVpn" <=> tech # "OpenVpn"
          BY <1>3, <2>1, <3>2 DEF ConnectSwitch
        <4>3. ok => OnlyLive(Tech(t))'
          BY <4>1, <4>2 DEF OnlyLive
        <4>4. pc'[t] # "launch" \/ OnlyLive(Tech(t))'
          BY <1>3, <3>2, <4>3
        <4> QED BY <1>2, <4>1, <4>4
      <3> QED BY <2>1, <3>1, <3>2 DEF ConnectSwitch
    <2>2. CASE ConnectLaunch(t)
      <3>1. pc[t] = "launch" /\ pc'[t] \in {"fail", "await"} /\ OnlyLive(Tech(t))
        BY <1>3, <1>6, <2>2 DEF ConnectLaunch, PairInv
      <3>2. CASE StartsNothing
        BY <1>2, <3>1, <3>2
      <3>3. CASE ~StartsNothing
        <4>1. \/ Tech(t) = "NordLynx" /\ UNCHANGED openVpn
              \/ Tech(t) = "OpenVpn" /\ UNCHANGED wireGuard
          BY <2>2, <3>3
          DEF ConnectLaunch, engines, StartsNothing, WireGuardLive, OpenVpnRunning
        <4>2. ~(WireGuardLive' /\ OpenVpnRunning')
          BY <3>1, <4>1 DEF OnlyLive, WireGuardLive, OpenVpnRunning
        <4> QED BY <1>1, <3>1, <4>2 DEF PairInv
      <3> QED BY <3>2, <3>3
    <2>3. CASE ConnectTimesOut(t) \/ ConnectUndo(t)
      <3>1. PICK ok \in BOOLEAN : StopEngine(Tech(t), ok)
        BY <2>3 DEF ConnectTimesOut, ConnectUndo, RollBack
      <3>2. StartsNothing
        BY <1>3, <3>1, StopStartsNothing
      <3>3. pc'[t] # "launch"
        BY <1>3, <2>3 DEF ConnectTimesOut, ConnectUndo
      <3> QED BY <1>2, <3>2, <3>3
    <2>4. CASE ~ConnectSwitch(t) /\ UNCHANGED engines /\ ~ConnectLaunch(t)
      <3>1. pc'[t] # "launch"
        BY <1>3, <1>6, <2>4
        DEF Connect, ConnectBegin, ConnectRefuse, ConnectAdmit, ConnectSelect,
            ConnectApiFails, ConnectUp, ConnectTimesOut, ConnectPersist, ConnectUndo,
            ConnectCommit, ReleaseAndReturn, Return
      <3> QED BY <1>4, <2>4, <3>1
    <2> QED BY <1>6, <2>1, <2>2, <2>3, <2>4
            DEF Connect, ConnectBegin, ConnectRefuse, ConnectAdmit, ConnectSelect,
                ConnectApiFails, ConnectUp, ConnectPersist, ConnectCommit
  <1> QED BY <1>5, <1>6

\* What no operation does starts neither engine and brings nobody to a launch.
LEMMA AsidePair ==
  ASSUME Base, PairInv, [Next]_vars,
         \A t \in Threads : ~(Disconnect(t) \/ Fail(t) \/ (t \in Workers /\ Connect(t)))
  PROVE  PairInv'
  <1>0. \A w \in Workers : w \in Threads /\ w # Main
    BY ControllerAssumption DEF Threads
  <1>1. ASSUME StartsNothing,
               \A w \in Workers : pc'[w] = "launch" => /\ pc[w] = "launch"
                                                      /\ session'[w] = session[w]
        PROVE  PairInv'
    <2>1. ASSUME NEW w \in Workers, pc'[w] = "launch" PROVE OnlyLive(Tech(w))'
      <3>1. OnlyLive(Tech(w)) /\ session'[w] = session[w]
        BY <1>1, <2>1 DEF PairInv
      <3> QED BY <1>1, <3>1 DEF OnlyLive, StartsNothing
    <2> QED BY <1>1, <2>1 DEF PairInv, StartsNothing
  <1>2. ASSUME NEW w \in Workers, Account(w) PROVE PairInv'
    <2>1. /\ OthersStay(w) /\ UNCHANGED engines
          /\ \A x \in Threads \ {w} : session'[x] = session[x]
      BY <1>2, AccountMoves, AccountAside DEF Base, Moves
    <2>2. pc'[w] # "launch"
      BY <1>2 DEF Account, Login, LogoutBegin, LogoutRemove, LogoutForget, LoadSession,
             ServersInsert, SettingsSave, SettingsApply, Return, Base, TypeInv, TypeOK,
             Threads
    <2>3. StartsNothing
      BY <2>1 DEF StartsNothing, engines, WireGuardLive, OpenVpnRunning
    <2> QED BY <1>0, <1>1, <2>1, <2>2, <2>3 DEF OthersStay
  <1>3. ASSUME NEW w \in Workers, NEW u \in Users, NEW m \in Methods, Request(w, u, m)
        PROVE  PairInv'
    BY <1>0, <1>1, <1>3
    DEF Request, StartsNothing, engines, WireGuardLive, OpenVpnRunning, Base, TypeInv,
        TypeOK
  <1>4. ASSUME NEW w \in Workers, ConnectThrow(w) PROVE PairInv'
    BY <1>0, <1>1, <1>4
    DEF ConnectThrow, ReleaseAndReturn, Return, StartsNothing, engines, WireGuardLive,
        OpenVpnRunning, Base, TypeInv, TypeOK
  <1>5. CASE Engine \/ UNCHANGED vars
    <2>1. UNCHANGED <<pc, session>>
      BY <1>5
      DEF Engine, WireGuardStarts, WireGuardStops, OpenVpnConnects, OpenVpnReconnects,
          OpenVpnExits, vars, threads, call
    <2>2. StartsNothing
      BY <1>5
      DEF Engine, WireGuardStarts, WireGuardStops, OpenVpnConnects, OpenVpnReconnects,
          OpenVpnExits, vars, engines, StartsNothing, WireGuardLive, OpenVpnRunning,
          Absent, Base, TypeInv, TypeOK
    <2> QED BY <1>1, <2>1, <2>2
  <1>6. CASE Process
    <2>1. CASE ProcessGone
      <3>1. ~OpenVpnRunning' /\ \A w \in Workers : pc'[w] # "launch"
        BY <1>0, <2>1 DEF ProcessGone, OpenVpnRunning, Absent
      <3> QED BY <3>1 DEF PairInv
    <2>2. CASE ServiceStop \/ Shutdown \/ ServiceStart
      <3>1. UNCHANGED engines /\ UNCHANGED session /\ \A w \in Workers : pc'[w] = pc[w]
        BY <1>0, <2>2
        DEF ServiceStop, Shutdown, ServiceStart, threads, call, Base, TypeInv, TypeOK
      <3>2. StartsNothing
        BY <3>1 DEF StartsNothing, engines, WireGuardLive, OpenVpnRunning
      <3> QED BY <1>1, <3>1, <3>2
    <2> QED BY <1>6, <2>1, <2>2 DEF Process, ServiceExit, Crash, Reboot
  <1> QED BY <1>2, <1>3, <1>4, <1>5, <1>6 DEF Next, Handler

\* Whatever fails, throws, cannot be stopped, crashes or loses power, the two engines
\* carry traffic together only if a connect with OpenVPN has passed a tunnel service
\* that was still starting, which it does not take for one that is up
\* (VpnController.cpp:270-291); a failed stop of the other engine never does it.
THEOREM OneEngineAtATime == Spec => []OneEngine \/ <>PassesStarting
  <1>1. Init => Base /\ PairInv
    BY InitBase DEF Init, PairInv, WireGuardLive, Absent, Threads
  <1>2. Base /\ PairInv /\ ~PassesStarting /\ [Next]_vars => (Base /\ PairInv)'
    BY BaseStep, OperationPair, AsidePair
  <1>3. Base /\ PairInv => OneEngine
    BY DEF PairInv, WireGuardLive, WireGuardConnected, OneEngine
  <1> QED BY <1>1, <1>2, <1>3, PTL DEF Spec

-----------------------------------------------------------------------------
(* What follows *)

\* At rest the user whose credentials carry traffic is the owner, whatever files
\* cannot be written: no failed switch or rollback leaves a tunnel that its user
\* cannot stop (VpnController::connect, disconnect).
THEOREM OwnerTracksTheTunnel ==
  Faults \subseteq {"fileFails"} /\ Spec => []OwnerTracksTunnel
  <1> SUFFICES ASSUME Faults \subseteq {"fileFails"} PROVE Spec => []OwnerTracksTunnel
    OBVIOUS
  <1>1. Base /\ TunnelInv => OwnerTracksTunnel
    <2> SUFFICES ASSUME Base, TunnelInv, opHolder = NoThread
                 PROVE  TunnelUsers \subseteq {owner}
      BY DEF OwnerTracksTunnel
    <2>1. \A t \in Threads : pc[t] \notin Launched
      BY ControllerAssumption DEF Base, LockInv, Threads, Launched, Held, Connecting
    <2> QED
      BY <2>1
      DEF TunnelInv, OwnedInv, LiveFor, WireGuardLive, WireGuardConnected, TunnelUsers
  <1> QED BY <1>1, TunnelAlways, PTL

\* A settled connection is reported with the technology of the engine that is up,
\* whatever settings are saved beside it (VpnController::saveSettings).
THEOREM TechnologyIsTheEngines ==
  Faults \subseteq {"fileFails"} /\ Spec => []TechnologyAgrees
  <1> SUFFICES ASSUME Faults \subseteq {"fileFails"} PROVE Spec => []TechnologyAgrees
    OBVIOUS
  <1>1. Base /\ TunnelInv => TechnologyAgrees
    BY DEF TunnelInv, EngineInv, NamedInv, WireGuardLive, WireGuardConnected, TunnelUp,
           TechnologyAgrees
  <1> QED BY <1>1, TunnelAlways, PTL

\* No handler running for one user takes down or replaces a tunnel that runs with
\* the credentials of another: whoever changes an engine is its only user.
THEOREM NobodyTakesOver == Faults \subseteq {"fileFails"} /\ Spec => NoTakeover
  <1> SUFFICES ASSUME Faults \subseteq {"fileFails"} PROVE Spec => NoTakeover
    OBVIOUS
  <1> DEFINE Spares(w) == \A v \in TunnelUsers \ {who[w]} : v \in TunnelUsers'
             NoneLost == \A w \in Workers : pc'[w] # pc[w] /\ service' # "down" => Spares(w)
  <1>1. Base /\ TunnelInv /\ [Next]_vars => NoneLost
    <2> SUFFICES ASSUME Base, TunnelInv, [Next]_vars, NEW w \in Workers,
                        pc'[w] # pc[w], service' # "down"
                 PROVE  Spares(w)
      OBVIOUS
    <2>1. w \in Threads /\ w # Main
      BY ControllerAssumption DEF Threads
    <2>2. CASE UNCHANGED engines
      BY <2>2 DEF engines, TunnelUsers, WireGuardConnected, OpenVpnRunning
    <2>3. CASE LiveFor(who[w])
      BY <2>3 DEF LiveFor, WireGuardLive, WireGuardConnected, TunnelUsers
    <2>4. UNCHANGED engines \/ LiveFor(who[w])
      <3>1. ASSUME NEW t \in Threads, Handler(t) PROVE t = w
        BY <2>1, <3>1, HandlerMoves DEF Base, Moves, OthersStay
      <3>2. CASE Connect(w)
        <4>1. \/ UNCHANGED engines
              \/ pc[w] \in {"engine", "launch", "await", "undo"}
          BY <3>2
          DEF Connect, ConnectBegin, ConnectRefuse, ConnectAdmit, ConnectSelect,
              ConnectApiFails, ConnectSwitch, ConnectLaunch, ConnectUp,
              ConnectTimesOut, ConnectPersist, ConnectUndo, ConnectCommit
        <4> QED BY <2>1, <4>1 DEF TunnelInv, PlaceInv, Admitted, Launched
      <3>3. CASE Disconnect(w) \/ Fail(w)
        <4>1. UNCHANGED engines \/ pc[w] \in {"stopOpenVpn", "stopWireGuard"}
          BY <3>3
          DEF Disconnect, DisconnectRefuse, DisconnectBegin, DisconnectOpenVpn,
              DisconnectWireGuard, DisconnectCommit, Fail
        <4> QED BY <2>1, <4>1 DEF TunnelInv, PlaceInv, Stopping
      <3>4. CASE Account(w)
        BY <3>4, AccountMoves DEF Base
      <3>5. ASSUME NEW x \in Workers, NEW u \in Users, NEW m \in Methods, Request(x, u, m)
            PROVE  UNCHANGED engines
        BY <3>5 DEF Request
      <3>6. CASE Engine \/ UNCHANGED vars
        BY <3>6
        DEF Engine, WireGuardStarts, WireGuardStops, OpenVpnConnects, OpenVpnReconnects,
            OpenVpnExits, vars, threads
      <3>7. CASE Process
        BY <2>1, <3>7
        DEF Process, ServiceStop, Shutdown, ServiceExit, Crash, Reboot, ServiceStart,
            ProcessGone, threads
      <3>8. CASE \E x \in Workers : ConnectThrow(x)
        BY <3>8 DEF ConnectThrow
      <3> QED BY <3>1, <3>2, <3>3, <3>4, <3>5, <3>6, <3>7, <3>8 DEF Next, Handler
    <2> QED BY <2>2, <2>3, <2>4
  <1> QED BY <1>1, TunnelAlways, PTL DEF NoTakeover, Spec

-----------------------------------------------------------------------------
(* Logout *)

\* When a logout turns to the session it has ended the tunnel of its user, or found
\* none, unless a connect of the same user is under way beside it, whatever the others
\* connect, switch or end meanwhile (VpnController::logout decides by the owner, which
\* a connect records last).
THEOREM LogoutEndsTheTunnel == Faults \subseteq {"fileFails"} /\ Spec => LogoutLeavesNoTunnel
  <1> SUFFICES ASSUME Faults \subseteq {"fileFails"} PROVE Spec => LogoutLeavesNoTunnel
    OBVIOUS
  <1> DEFINE Gone(w) == \/ who[w] \notin TunnelUsers'
                        \/ opHolder' # NoThread /\ who[opHolder'] = who[w]
             NoTunnel == \A w \in Workers : pc[w] # "remove" /\ pc'[w] = "remove" => Gone(w)
  <1>1. Base /\ TunnelInv /\ [Next]_vars => NoTunnel
    <2> SUFFICES ASSUME Base, TunnelInv, [Next]_vars, NEW w \in Workers,
                        pc[w] # "remove", pc'[w] = "remove"
                 PROVE  Gone(w)
      OBVIOUS
    <2>0. w \in Threads /\ w # Main /\ pc \in [Threads -> Labels]
      BY ControllerAssumption DEF Threads, Base, TypeInv, TypeOK
    <2>1. Handler(w)
      <3>1. CASE \E t \in Threads : Handler(t)
        BY <2>0, <3>1, HandlerMoves DEF Base, Moves, OthersStay
      <3>2. CASE \/ \E x \in Workers, u \in Users, m \in Methods : Request(x, u, m)
                 \/ \E x \in Workers : ConnectThrow(x)
        BY <2>0, <3>2 DEF Request, ConnectThrow, ReleaseAndReturn, Return
      <3>3. CASE Engine \/ UNCHANGED vars
        BY <2>0, <3>3
        DEF Engine, WireGuardStarts, WireGuardStops, OpenVpnConnects, OpenVpnReconnects,
            OpenVpnExits, vars, threads
      <3>4. CASE Process
        BY <2>0, <3>4
        DEF Process, ServiceStop, Shutdown, ServiceExit, Crash, Reboot, ServiceStart,
            ProcessGone, threads
      <3> QED BY <3>1, <3>2, <3>3, <3>4 DEF Next
    <2>2. \/ LogoutBegin(w) /\ owner # who[w]
          \/ DisconnectCommit(w)
      BY <2>0, <2>1
      DEF Handler, Disconnect, DisconnectRefuse, DisconnectBegin, DisconnectOpenVpn,
          DisconnectWireGuard, Fail, Connect, ConnectBegin, ConnectRefuse, ConnectAdmit,
          ConnectSelect, ConnectApiFails, ConnectSwitch, ConnectLaunch, ConnectUp,
          ConnectTimesOut, ConnectPersist, ConnectUndo, ConnectCommit, Account, Login,
          LogoutBegin, OwnsConnection, LogoutRemove, LogoutForget, LoadSession,
          ServersInsert, SettingsSave, SettingsApply, Return, ReleaseAndReturn
    <2>3. CASE LogoutBegin(w) /\ owner # who[w]
      <3>1. pc[w] = "start" /\ who[w] \in Users /\ UNCHANGED <<opHolder, engines>>
        BY <2>0, <2>3 DEF LogoutBegin, Base, TypeInv, ThreadOK
      <3>2. TunnelUsers' = TunnelUsers
        BY <3>1 DEF engines, TunnelUsers, WireGuardConnected, OpenVpnRunning
      <3>3. CASE \A t \in Threads : pc[t] \notin Launched
        BY <2>3, <3>2, <3>3
        DEF TunnelInv, OwnedInv, LiveFor, WireGuardLive, WireGuardConnected, TunnelUsers
      <3>4. ASSUME NEW t \in Threads, pc[t] \in Launched PROVE Gone(w)
        <4>1. opHolder = t /\ t # NoThread
          BY <3>4, ControllerAssumption
          DEF Base, LockInv, Launched, Held, Connecting, Threads
        <4>2. LiveFor(who[t])
          BY <3>4 DEF TunnelInv, PlaceInv
        <4>3. CASE who[t] = who[w]
          BY <3>1, <4>1, <4>3
        <4>4. CASE who[t] # who[w]
          BY <3>2, <4>2, <4>4
          DEF LiveFor, WireGuardLive, WireGuardConnected, TunnelUsers
        <4> QED BY <4>3, <4>4
      <3> QED BY <3>3, <3>4
    <2>4. CASE DisconnectCommit(w)
      <3>1. NothingLive /\ UNCHANGED engines
        BY <2>0, <2>4 DEF DisconnectCommit, TunnelInv, PlaceInv
      <3> QED BY <3>1 DEF NothingLive, engines, TunnelUsers, WireGuardLive,
                          WireGuardConnected, OpenVpnRunning
    <2> QED BY <2>2, <2>3, <2>4
  <1> QED BY <1>1, TunnelAlways, PTL DEF LogoutLeavesNoTunnel, Spec
=============================================================================
