----------------------------- MODULE Controller -----------------------------
(***************************************************************************)
(* VpnController of OpenNordService: the RPC handlers that decide who may  *)
(* bring the machine's VPN tunnel up or down.                              *)
(*                                                                         *)
(* Every RPC runs on a pipe-worker thread of its own.  Two locks order the *)
(* handlers: operationMutex_ (variable opHolder) is held for the whole of  *)
(* a connect or a disconnect, mutex_ for short sections over state_,       *)
(* connectionOwnerSid_ and serverCache_.  A section under mutex_ is one    *)
(* action here; a file or an engine call made outside it is another, so    *)
(* that the handlers of two threads interleave exactly where the code lets *)
(* them.  The engines are what the controller can tell of them: what SCM   *)
(* says of the WireGuard tunnel service, whether the OpenVPN process runs, *)
(* and whether its management channel has reported CONNECTED.              *)
(***************************************************************************)
EXTENDS Naturals, FiniteSets

CONSTANTS
    Users,      \* Windows SIDs
    NoUser,     \* the empty SID
    Workers,    \* pipe-worker threads of NamedPipeServer
    Main,       \* the service's main thread, which runs shutdown()
    NoThread,   \* nobody holds the lock
    Tokens,     \* Nord access tokens
    Methods,    \* the RPC methods clients call
    Faults      \* what may go wrong beside a refused connection

Technologies == {"NordLynx", "OpenVpn"}
ConnectMethods == {"connect", "connectLocation", "quickConnect"}
AllMethods == ConnectMethods
                \cup {"login", "logout", "servers", "saveSettings", "disconnect"}
AllFaults == {"crash",        \* the service process dies
              "reboot",       \* the machine loses power
              "throw",        \* a handler throws and serveClient catches it
              "stopFails",    \* an engine cannot be stopped
              "fileFails"}    \* a file cannot be read, written or removed

ASSUME ControllerAssumption ==
    /\ NoUser \notin Users
    /\ Main \notin Workers
    /\ NoThread \notin Workers \cup {Main}
    /\ Methods \subseteq AllMethods
    /\ Faults \subseteq AllFaults

Threads == Workers \cup {Main}
Owners == Users \cup {NoUser}
NoSession == [token |-> "none", technology |-> "none"]
Sessions == [token : Tokens, technology : Technologies]
NoList == "none"
Lists == Technologies \cup {NoList}

VARIABLES
    service,    \* "up", "stopping" (NamedPipeServer::stop) or "down"
    opHolder,   \* the thread that holds operationMutex_
    status,     \* state_.status
    technology, \* state_.technology
    server,     \* state_.server: the user whose connect selected it
    owner,      \* connectionOwnerSid_
    ownerFile,  \* the SID in %ProgramData%/OpenNord/active-owner
    cache,      \* serverCache_: the technology each user's list was asked for
    store,      \* the session file of each user
    wireGuard,  \* the WireGuard tunnel service and whose keys it runs with
    openVpn,    \* the OpenVPN process and whose credentials it runs with
    pc,         \* where each thread is in its handler
    method,     \* the method it was called with
    who,        \* the SID of its client
    session,    \* the session its handler loaded
    list,       \* the server list it selects from
    failed      \* whether its disconnect has met an error

state == <<status, technology, server, owner>>
disk == <<ownerFile, store>>
engines == <<wireGuard, openVpn>>
call == <<method, who, session, list, failed>>
threads == <<pc, call>>
vars == <<service, opHolder, state, cache, disk, engines, threads>>

-----------------------------------------------------------------------------
(* What the controller can tell of the engines *)

WireGuardStates == {"absent", "stopped", "pending", "running"}
OpenVpnStates == {"absent", "running", "connected", "unmanaged"}
Absent == [state |-> "absent", user |-> NoUser]

WireGuardExists == wireGuard.state # "absent"
WireGuardConnected == wireGuard.state = "running"
OpenVpnRunning == openVpn.state # "absent"
OpenVpnConnected == openVpn.state = "connected"
TunnelUp == WireGuardConnected \/ OpenVpnRunning

\* The users whose credentials carry the machine's traffic
TunnelUsers == (IF WireGuardConnected THEN {wireGuard.user} ELSE {})
                 \cup (IF OpenVpnRunning THEN {openVpn.user} ELSE {})

\* WireGuardTunnel::disconnect: /uninstalltunnelservice, then the config file
StopWireGuard(ok) ==
    \/ ok /\ wireGuard' = Absent
    \/ /\ ~ok /\ "fileFails" \in Faults
       /\ wireGuard' = Absent
    \/ /\ ~ok /\ "stopFails" \in Faults /\ WireGuardExists
       /\ \/ UNCHANGED wireGuard
          \/ wireGuard' = [wireGuard EXCEPT !.state = "stopped"]

\* OpenVpnTunnel::disconnect: joins the management thread whatever happens
StopOpenVpn(ok) ==
    \/ ok /\ openVpn' = Absent
    \/ /\ ~ok /\ "stopFails" \in Faults /\ OpenVpnRunning
       /\ openVpn' = [openVpn EXCEPT !.state = "unmanaged"]

\* status(): what user u is told, from the stored state and the engines' own
StatusView(u) ==
    LET stale == ~TunnelUp /\ status = "Connected"
        foreign == owner # NoUser /\ owner # u
    IN  [authenticated |-> store[u] # NoSession,
         status |-> IF WireGuardConnected \/ OpenVpnConnected THEN "Connected"
                    ELSE IF OpenVpnRunning THEN "Reconnecting"
                    ELSE IF stale THEN "Disconnected" ELSE status,
         technology |-> IF WireGuardConnected THEN "NordLynx"
                        ELSE IF OpenVpnRunning THEN "OpenVpn"
                        ELSE IF store[u] # NoSession THEN store[u].technology
                        ELSE technology,
         server |-> IF stale \/ foreign THEN NoUser ELSE server]

-----------------------------------------------------------------------------
(* Steps shared by the handlers *)

At(t, label) == pc[t] = label
Goto(t, label) == pc' = [pc EXCEPT ![t] = label]
Tech(t) == session[t].technology

\* The reply is written and the worker is free; the main thread exits.
Return(t) == /\ Goto(t, IF t = Main THEN "exit" ELSE "idle")
             /\ method' = [method EXCEPT ![t] = "none"]
             /\ who' = [who EXCEPT ![t] = NoUser]
             /\ session' = [session EXCEPT ![t] = NoSession]
             /\ list' = [list EXCEPT ![t] = NoList]
             /\ failed' = [failed EXCEPT ![t] = FALSE]
ReleaseAndReturn(t) == opHolder' = NoThread /\ Return(t)

\* NamedPipeServer hands a request to a worker.
Request(w, u, m) ==
    /\ service = "up" /\ At(w, "idle")
    /\ Goto(w, "start")
    /\ method' = [method EXCEPT ![w] = m]
    /\ who' = [who EXCEPT ![w] = u]
    /\ UNCHANGED <<service, opHolder, state, cache, disk, engines,
                   session, list, failed>>

\* requireSession(): the session is there, and is read
SignedIn(w) == store[who[w]] # NoSession
NoSessionRead(w) == ~SignedIn(w) \/ "fileFails" \in Faults
Load(w) == /\ session' = [session EXCEPT ![w] = store[who[w]]]
           /\ UNCHANGED <<method, who, list, failed>>

\* Mutant: the failure leaves state_ as it is
KeepState == UNCHANGED <<status, server>>
SetFailure == status' = "Error" /\ server' = NoUser

\* setFailure() and the error reply, at the end of a connect or disconnect
Fail(t) ==
    /\ At(t, "fail")
    /\ SetFailure
    /\ ReleaseAndReturn(t)
    /\ UNCHANGED <<service, technology, owner, cache, disk, engines>>

-----------------------------------------------------------------------------
(* login, logout, servers, saveSettings: no lock across their steps *)

\* The API calls touch nothing shared: one step, at SecureStore::save, with
\* the default settings; or the token is rejected or the save fails.
Login(w, token) ==
    /\ At(w, "start") /\ method[w] = "login"
    /\ \/ store' = [store EXCEPT ![who[w]] =
                       [token |-> token, technology |-> "NordLynx"]]
       \/ UNCHANGED store
    /\ Return(w)
    /\ UNCHANGED <<service, opHolder, state, cache, ownerFile, engines>>

\* Mutant: the tunnel is left alone
OwnsNothing(w) == FALSE
OwnsConnection(w) == owner = who[w]

LogoutBegin(w) ==
    /\ At(w, "start") /\ method[w] = "logout"
    /\ Goto(w, IF OwnsConnection(w) THEN "disconnect" ELSE "remove")
    /\ UNCHANGED <<service, opHolder, state, cache, disk, engines, call>>

LogoutRemove(w) ==
    /\ At(w, "remove")
    /\ \/ /\ store' = [store EXCEPT ![who[w]] = NoSession]
          /\ Goto(w, "forget") /\ UNCHANGED call
       \/ "fileFails" \in Faults /\ Return(w) /\ UNCHANGED store
    /\ UNCHANGED <<service, opHolder, state, cache, ownerFile, engines>>

LogoutForget(w) ==
    /\ At(w, "forget")
    /\ cache' = [cache EXCEPT ![who[w]] = NoList]
    /\ Return(w)
    /\ UNCHANGED <<service, opHolder, state, disk, engines>>

\* requireSession() of servers and saveSettings
LoadSession(w) ==
    /\ At(w, "start") /\ method[w] \in {"servers", "saveSettings"}
    /\ \/ NoSessionRead(w) /\ Return(w)
       \/ /\ SignedIn(w) /\ Load(w)
          /\ Goto(w, IF method[w] = "servers" THEN "insert" ELSE "save")
    /\ UNCHANGED <<service, opHolder, state, cache, disk, engines>>

ServersInsert(w) ==
    /\ At(w, "insert")
    /\ \/ cache' = [cache EXCEPT ![who[w]] = Tech(w)]
       \/ UNCHANGED cache               \* the recommendation request failed
    /\ Return(w)
    /\ UNCHANGED <<service, opHolder, state, disk, engines>>

\* The session read earlier is written back with the new settings
SettingsSave(w, tech) ==
    /\ At(w, "save")
    /\ \/ /\ session' = [session EXCEPT ![w].technology = tech]
          /\ UNCHANGED <<method, who, list, failed>>
          /\ store' = [store EXCEPT ![who[w]] =
                          [token |-> session[w].token, technology |-> tech]]
          /\ Goto(w, "apply")
       \/ "fileFails" \in Faults /\ Return(w) /\ UNCHANGED store
    /\ UNCHANGED <<service, opHolder, state, cache, ownerFile, engines>>

\* Mutant: the technology changes under a live connection
AlwaysIdle == TRUE
Idle == status \in {"Disconnected", "Error"}

SettingsApply(w) ==
    /\ At(w, "apply")
    /\ cache' = [cache EXCEPT ![who[w]] = NoList]
    /\ technology' = IF Idle THEN Tech(w) ELSE technology
    /\ Return(w)
    /\ UNCHANGED <<service, opHolder, status, server, owner, disk, engines>>

-----------------------------------------------------------------------------
(* connect, connectLocation, quickConnect *)

ConnectBegin(w) ==
    /\ At(w, "start") /\ method[w] \in ConnectMethods
    /\ opHolder = NoThread
    /\ \/ NoSessionRead(w) /\ Return(w) /\ UNCHANGED opHolder
       \/ SignedIn(w) /\ opHolder' = w /\ Load(w) /\ Goto(w, "admit")
    /\ UNCHANGED <<service, state, cache, disk, engines>>

Busy == status \in {"Connecting", "Disconnecting"}
\* Mutant: a reconnecting OpenVPN tunnel does not count
InUseIfConnected(u) ==
    (WireGuardConnected \/ OpenVpnConnected) /\ owner # NoUser /\ owner # u
InUse(u) == TunnelUp /\ owner # NoUser /\ owner # u

ConnectRefuse(w) ==
    /\ At(w, "admit")
    /\ Busy \/ InUse(who[w])
    /\ ReleaseAndReturn(w)
    /\ UNCHANGED <<service, state, cache, disk, engines>>

ConnectAdmit(w) ==
    /\ At(w, "admit")
    /\ ~Busy /\ ~InUse(who[w])
    /\ status' = "Connecting"
    /\ list' = [list EXCEPT ![w] = cache[who[w]]]
    /\ UNCHANGED <<method, who, session, failed>>
    /\ Goto(w, "select")
    /\ UNCHANGED <<service, opHolder, technology, server, owner,
                   cache, disk, engines>>

\* A server ID is looked up in the cached list, if there is one; every other
\* request asks the API with the settings of the session loaded before.
Discovers(w) == method[w] # "connect" \/ list[w] = NoList

ConnectSelect(w) ==
    /\ At(w, "select")
    /\ IF Discovers(w)
       THEN /\ cache' = [cache EXCEPT ![who[w]] = Tech(w)]
            /\ list' = [list EXCEPT ![w] = Tech(w)]
            /\ UNCHANGED <<method, who, session, failed>>
       ELSE UNCHANGED <<cache, call>>
    /\ \/ Goto(w, "engine")
       \/ method[w] = "connect" /\ Goto(w, "fail")   \* no such server ID
    /\ UNCHANGED <<service, opHolder, state, disk, engines>>

\* A location or server request fails, or the signed OpenVPN profile does
ConnectApiFails(w) ==
    /\ \/ At(w, "select") /\ Discovers(w)
       \/ At(w, "engine") /\ Tech(w) = "OpenVpn"
    /\ Goto(w, "fail")
    /\ UNCHANGED <<service, opHolder, state, cache, disk, engines, call>>

\* Mutant: the WireGuard tunnel is not stopped before OpenVPN starts
OnlyOpenVpnUp(w) == Tech(w) = "NordLynx" /\ OpenVpnRunning
\* The other engine is up, as far as the controller can see
OtherEngineUp(w) == IF Tech(w) = "OpenVpn" THEN WireGuardConnected
                    ELSE OpenVpnRunning

\* Stopping the engine of one technology
StopEngine(tech, ok) ==
    IF tech = "OpenVpn" THEN StopOpenVpn(ok) /\ UNCHANGED wireGuard
    ELSE StopWireGuard(ok) /\ UNCHANGED openVpn

ConnectSwitch(w) ==
    /\ At(w, "engine")
    /\ \/ ~OtherEngineUp(w) /\ Goto(w, "launch") /\ UNCHANGED engines
       \/ /\ OtherEngineUp(w)
          /\ \E ok \in BOOLEAN :
                /\ Goto(w, IF ok THEN "launch" ELSE "fail")
                /\ \E tech \in Technologies \ {Tech(w)} : StopEngine(tech, ok)
    /\ UNCHANGED <<service, opHolder, state, cache, disk, call>>

\* The engine refuses before it touches anything, cannot stop its own old
\* tunnel, fails before the new one exists, or starts it.  A new OpenVPN tunnel
\* may show what the management thread of the one before has left.
ConnectLaunch(w) ==
    /\ At(w, "launch")
    /\ \/ Goto(w, "fail") /\ UNCHANGED engines
       \/ /\ Tech(w) = "NordLynx" /\ UNCHANGED openVpn
          /\ \/ Goto(w, "fail") /\ WireGuardExists /\ StopWireGuard(FALSE)
             \/ Goto(w, "fail") /\ wireGuard' = Absent
             \/ /\ Goto(w, "await")
                /\ wireGuard' = [state |-> "pending", user |-> who[w]]
       \/ /\ Tech(w) = "OpenVpn" /\ UNCHANGED wireGuard
          /\ \/ Goto(w, "fail") /\ OpenVpnRunning /\ StopOpenVpn(FALSE)
             \/ Goto(w, "fail") /\ openVpn' = Absent
             \/ /\ Goto(w, "await")
                /\ openVpn' \in [state : {"running", "connected"}, user : {who[w]}]
    /\ UNCHANGED <<service, opHolder, state, cache, disk, call>>

\* Mutant: the new tunnel is left as it is
RollBackNothing(w) == UNCHANGED engines
RollBack(w) == \E ok \in BOOLEAN : StopEngine(Tech(w), ok)

\* The engine reports the tunnel up in time ...
ConnectUp(w) ==
    /\ At(w, "await") /\ Goto(w, "persist")
    /\ IF Tech(w) = "OpenVpn" THEN OpenVpnConnected ELSE WireGuardConnected
    /\ UNCHANGED <<service, opHolder, state, cache, disk, engines, call>>

\* Mutant: the poll has no time limit
NeverTimesOut(w) == FALSE
\* ... or it fails, or the time is over
ConnectTimesOut(w) ==
    /\ At(w, "await") /\ Goto(w, "fail")
    /\ RollBack(w)
    /\ UNCHANGED <<service, opHolder, state, cache, disk, call>>

\* Mutant: a failed write is ignored
ConnectPersistMaybe(w) ==
    /\ At(w, "persist") /\ Goto(w, "commit")
    /\ ownerFile' = who[w] \/ UNCHANGED ownerFile
    /\ UNCHANGED <<service, opHolder, state, cache, store, engines, call>>

\* persistConnectionOwner
ConnectPersist(w) ==
    /\ At(w, "persist")
    /\ \/ ownerFile' = who[w] /\ Goto(w, "commit")
       \/ "fileFails" \in Faults /\ Goto(w, "undo") /\ UNCHANGED ownerFile
    /\ UNCHANGED <<service, opHolder, state, cache, store, engines, call>>

\* The result of this rollback is ignored
ConnectUndo(w) ==
    /\ At(w, "undo") /\ Goto(w, "fail")
    /\ RollBack(w)
    /\ UNCHANGED <<service, opHolder, state, cache, disk, call>>

\* Mutant: the owner is not recorded in memory
ConnectCommitUnowned(w) ==
    /\ At(w, "commit")
    /\ status' = "Connected" /\ technology' = Tech(w)
    /\ server' = who[w]
    /\ ReleaseAndReturn(w)
    /\ UNCHANGED <<service, owner, cache, disk, engines>>

ConnectCommit(w) ==
    /\ At(w, "commit")
    /\ status' = "Connected" /\ technology' = Tech(w)
    /\ server' = who[w] /\ owner' = who[w]
    /\ ReleaseAndReturn(w)
    /\ UNCHANGED <<service, cache, disk, engines>>

\* An exception unwinds connect: the lock is released, state_ stays as it is
ConnectThrow(w) ==
    /\ "throw" \in Faults
    /\ pc[w] \in {"select", "engine", "launch", "persist"}
    /\ ReleaseAndReturn(w)
    /\ UNCHANGED <<service, state, cache, disk, engines>>

-----------------------------------------------------------------------------
(* disconnect: its own RPC, the first half of logout, or shutdown() *)

Disconnects(t) == \/ At(t, "start") /\ method[t] = "disconnect"
                  \/ At(t, "disconnect")
Forced(t) == t = Main

DisconnectRefuse(t) ==
    /\ Disconnects(t) /\ opHolder = NoThread
    /\ ~Forced(t) /\ owner # NoUser /\ owner # who[t]
    /\ Return(t)
    /\ UNCHANGED <<service, opHolder, state, cache, disk, engines>>

DisconnectBegin(t) ==
    /\ Disconnects(t) /\ opHolder = NoThread
    /\ Forced(t) \/ owner \in {NoUser, who[t]}
    /\ opHolder' = t
    /\ status' = "Disconnecting"
    /\ Goto(t, "stopOpenVpn")
    /\ UNCHANGED <<service, technology, server, owner, cache, disk, engines, call>>

DisconnectOpenVpn(t) ==
    /\ At(t, "stopOpenVpn")
    /\ \E ok \in BOOLEAN :
          /\ StopOpenVpn(ok)
          /\ failed' = [failed EXCEPT ![t] = ~ok]
          /\ UNCHANGED <<method, who, session, list>>
    /\ Goto(t, "stopWireGuard")
    /\ UNCHANGED <<service, opHolder, state, cache, disk, wireGuard>>

DisconnectWireGuard(t) ==
    /\ At(t, "stopWireGuard")
    /\ \E ok \in BOOLEAN :
          /\ StopWireGuard(ok)
          /\ Goto(t, IF ok /\ ~failed[t] THEN "disconnected" ELSE "fail")
    /\ UNCHANGED <<service, opHolder, state, cache, disk, openVpn, call>>

\* The result of removing the owner file is ignored
DisconnectCommit(t) ==
    /\ At(t, "disconnected")
    /\ status' = "Disconnected" /\ server' = NoUser /\ owner' = NoUser
    /\ \/ ownerFile' = NoUser
       \/ "fileFails" \in Faults /\ UNCHANGED ownerFile
    /\ opHolder' = NoThread
    /\ IF method[t] = "logout" THEN Goto(t, "remove") /\ UNCHANGED call
       ELSE Return(t)
    /\ UNCHANGED <<service, technology, cache, store, engines>>

-----------------------------------------------------------------------------
(* The life of the service process *)

\* The stop control: NamedPipeServer::stop lets the workers finish ...
ServiceStop ==
    /\ service = "up" /\ service' = "stopping"
    /\ UNCHANGED <<opHolder, state, cache, disk, engines, threads>>

\* ... and serviceMain calls shutdown().
Shutdown ==
    /\ service = "stopping" /\ At(Main, "idle")
    /\ \A w \in Workers : At(w, "idle")
    /\ Goto(Main, "disconnect")
    /\ UNCHANGED <<service, opHolder, state, cache, disk, engines, call>>

\* What dies with the process: its memory, its threads and, by the job
\* object's kill-on-close limit, the OpenVPN process.
ProcessGone ==
    /\ service' = "down"
    /\ opHolder' = NoThread
    /\ status' = "Disconnected" /\ technology' = "NordLynx"
    /\ server' = NoUser /\ owner' = NoUser
    /\ cache' = [u \in Users |-> NoList]
    /\ openVpn' = Absent
    /\ pc' = [t \in Threads |-> "idle"]
    /\ method' = [t \in Threads |-> "none"]
    /\ who' = [t \in Threads |-> NoUser]
    /\ session' = [t \in Threads |-> NoSession]
    /\ list' = [t \in Threads |-> NoList]
    /\ failed' = [t \in Threads |-> FALSE]

ServiceExit == At(Main, "exit") /\ ProcessGone /\ UNCHANGED <<disk, wireGuard>>

Crash == /\ "crash" \in Faults /\ service # "down"
         /\ ProcessGone /\ UNCHANGED <<disk, wireGuard>>

\* The tunnel service is installed to start with the machine
Reboot == /\ "reboot" \in Faults
          /\ ProcessGone /\ UNCHANGED disk
          /\ wireGuard' = IF WireGuardExists
                          THEN [wireGuard EXCEPT !.state = "pending"]
                          ELSE wireGuard

\* VpnController::VpnController
ServiceStart ==
    /\ service = "down" /\ service' = "up"
    /\ IF WireGuardConnected
       THEN /\ status' = "Connected" /\ UNCHANGED ownerFile
            /\ \/ owner' = ownerFile
               \/ "fileFails" \in Faults /\ UNCHANGED owner
       ELSE /\ \/ ownerFile' = NoUser
               \/ "fileFails" \in Faults /\ UNCHANGED ownerFile
            /\ UNCHANGED <<status, owner>>
    /\ UNCHANGED <<opHolder, technology, server, cache, store, engines, threads>>

-----------------------------------------------------------------------------
(* What the engines do on their own *)

WireGuardStarts ==
    /\ wireGuard.state = "pending"
    /\ wireGuard' = [wireGuard EXCEPT !.state = "running"]
    /\ UNCHANGED <<service, opHolder, state, cache, disk, openVpn, threads>>

WireGuardStops ==
    /\ wireGuard.state \in {"pending", "running"}
    /\ wireGuard' = [wireGuard EXCEPT !.state = "stopped"]
    /\ UNCHANGED <<service, opHolder, state, cache, disk, openVpn, threads>>

OpenVpnConnects ==
    /\ openVpn.state = "running"
    /\ openVpn' = [openVpn EXCEPT !.state = "connected"]
    /\ UNCHANGED <<service, opHolder, state, cache, disk, wireGuard, threads>>

OpenVpnReconnects ==
    /\ openVpn.state = "connected"
    /\ openVpn' = [openVpn EXCEPT !.state = "running"]
    /\ UNCHANGED <<service, opHolder, state, cache, disk, wireGuard, threads>>

OpenVpnExits ==
    /\ OpenVpnRunning
    /\ openVpn' = Absent
    /\ UNCHANGED <<service, opHolder, state, cache, disk, wireGuard, threads>>

-----------------------------------------------------------------------------
Init ==
    /\ service = "up" /\ opHolder = NoThread
    /\ status = "Disconnected" /\ technology = "NordLynx"
    /\ server = NoUser /\ owner = NoUser /\ ownerFile = NoUser
    /\ cache = [u \in Users |-> NoList]
    /\ store = [u \in Users |-> NoSession]
    /\ wireGuard = Absent /\ openVpn = Absent
    /\ pc = [t \in Threads |-> "idle"]
    /\ method = [t \in Threads |-> "none"]
    /\ who = [t \in Threads |-> NoUser]
    /\ session = [t \in Threads |-> NoSession]
    /\ list = [t \in Threads |-> NoList]
    /\ failed = [t \in Threads |-> FALSE]

Connect(w) ==
    \/ ConnectBegin(w) \/ ConnectRefuse(w) \/ ConnectAdmit(w)
    \/ ConnectSelect(w) \/ ConnectApiFails(w) \/ ConnectSwitch(w)
    \/ ConnectLaunch(w) \/ ConnectUp(w) \/ ConnectTimesOut(w) \/ ConnectPersist(w)
    \/ ConnectUndo(w) \/ ConnectCommit(w)

Disconnect(t) ==
    \/ DisconnectRefuse(t) \/ DisconnectBegin(t) \/ DisconnectOpenVpn(t)
    \/ DisconnectWireGuard(t) \/ DisconnectCommit(t)

Account(w) ==
    \/ \E token \in Tokens : Login(w, token)
    \/ LogoutBegin(w) \/ LogoutRemove(w) \/ LogoutForget(w)
    \/ LoadSession(w) \/ ServersInsert(w)
    \/ \E tech \in Technologies : SettingsSave(w, tech)
    \/ SettingsApply(w)

\* A step of the handler thread t is in
Handler(t) == Disconnect(t) \/ Fail(t) \/ (t \in Workers /\ (Connect(t) \/ Account(t)))

Engine == \/ WireGuardStarts \/ WireGuardStops
          \/ OpenVpnConnects \/ OpenVpnReconnects \/ OpenVpnExits

Process == ServiceStop \/ Shutdown \/ ServiceExit \/ Crash \/ Reboot \/ ServiceStart

Next ==
    \/ \E w \in Workers, u \in Users, m \in Methods : Request(w, u, m)
    \/ \E t \in Threads : Handler(t)
    \/ \E w \in Workers : ConnectThrow(w)
    \/ Engine
    \/ Process

Spec == Init /\ [][Next]_vars

-----------------------------------------------------------------------------
(* Properties *)

Labels == {"idle", "start", "disconnect", "remove", "forget", "insert", "save",
           "apply", "admit", "select", "engine", "launch", "await", "persist",
           "undo", "commit", "fail", "stopOpenVpn", "stopWireGuard",
           "disconnected", "exit"}

\* Every variable holds a value of its C++ type.
TypeOK ==
    /\ service \in {"up", "stopping", "down"}
    /\ opHolder \in Threads \cup {NoThread}
    /\ status \in {"Disconnected", "Connecting", "Connected", "Disconnecting", "Error"}
    /\ technology \in Technologies
    /\ server \in Owners /\ owner \in Owners /\ ownerFile \in Owners
    /\ cache \in [Users -> Lists]
    /\ store \in [Users -> Sessions \cup {NoSession}]
    /\ wireGuard \in [state : WireGuardStates, user : Owners]
    /\ openVpn \in [state : OpenVpnStates, user : Owners]
    /\ pc \in [Threads -> Labels]
    /\ method \in [Threads -> AllMethods \cup {"none"}]
    /\ who \in [Threads -> Owners]
    /\ session \in [Threads -> Sessions \cup {NoSession}]
    /\ list \in [Threads -> Lists]
    /\ failed \in [Threads -> BOOLEAN]

\* The status says Connecting or Disconnecting only while a connect or a
\* disconnect runs, so no failure path leaves the controller refusing every
\* later connect as busy (VpnController::connect, disconnect, setFailure).
ChangeHoldsLock == Busy => opHolder # NoThread

\* No user's status shows the server another user's connect selected, whatever
\* failed or restarted in between (VpnController::status).
ServerIsPrivate == \A u \in Users : StatusView(u).server \in {u, NoUser}

\* At rest, an owner in memory is the one on disk: a restart finds the same
\* owner (persistConnectionOwner, clearConnectionOwner, the constructor).
OwnerPersisted ==
    opHolder = NoThread /\ service # "down" /\ owner # NoUser => ownerFile = owner

\* At rest, the user whose credentials carry traffic owns the connection: no
\* failed switch or rollback leaves a tunnel up that its user cannot stop, or
\* that another user may.
OwnerTracksTunnel ==
    opHolder = NoThread /\ service # "down" => TunnelUsers \subseteq {owner}

\* The service controls either the WireGuard tunnel service or an OpenVPN
\* process: the two never carry traffic together, not even during a switch.
OneEngine == ~(WireGuardConnected /\ OpenVpnRunning)

\* A connect with OpenVPN passes a tunnel service that is still starting.
PassesStarting ==
    \E w \in Workers : /\ At(w, "engine") /\ Tech(w) = "OpenVpn"
                       /\ wireGuard.state = "pending"

\* While a connection is up and settled, state_.technology names the engine
\* that is up, whatever settings are saved meanwhile (saveSettings).
TechnologyAgrees ==
    opHolder = NoThread /\ status = "Connected" /\ TunnelUp
        => (technology = "NordLynx" <=> WireGuardConnected)

\* No handler running for one user takes down or replaces a tunnel that runs
\* with another user's credentials.
NoTakeover ==
    [][\A w \in Workers : pc'[w] # pc[w] /\ service' # "down"
          => \A v \in TunnelUsers \ {who[w]} : v \in TunnelUsers']_vars

\* A logout is about to remove the session that a saveSettings of the same user
\* has loaded and not yet written back.
SaveMeetsLogout ==
    \E w, x \in Workers : At(w, "save") /\ At(x, "remove") /\ who[w] = who[x]

\* A user without a session gets one only by signing in.
SessionOnlyByLogin ==
    [][\A u \in Users : store[u] = NoSession /\ store'[u] # NoSession
          => \E w \in Workers : /\ method[w] = "login" /\ who[w] = u
                              /\ pc'[w] # pc[w]]_vars

\* When logout turns to the session, whether it had a tunnel to end or found none
\* of its user, none runs with its credentials, unless a connect of the same user
\* is under way beside it.
LogoutLeavesNoTunnel ==
    [][\A w \in Workers : pc[w] # "remove" /\ pc'[w] = "remove"
          => \/ who[w] \notin TunnelUsers'
             \/ opHolder' # NoThread /\ who[opHolder'] = who[w]]_vars

\* A restart never discards the owner on disk of a tunnel that is running or
\* starting (README: ownership is persisted across service restarts).
RestartKeepsOwner ==
    [][service = "down" /\ service' = "up"
          /\ wireGuard.state \in {"pending", "running"} /\ ownerFile = wireGuard.user
          => owner' = ownerFile]_vars

\* A signed-out user's credentials carry no traffic once no operation runs.
SignedOutIsDown ==
    opHolder = NoThread => \A u \in TunnelUsers : store[u] # NoSession

-----------------------------------------------------------------------------
(* Liveness: a thread that can take a step takes it; WaitForSingleObject,  *)
(* the SCM polls, the process runs and the API calls all have time limits. *)

Fairness == /\ \A t \in Threads : WF_vars(Handler(t))
            /\ WF_vars(Shutdown) /\ WF_vars(ServiceExit)
FairSpec == Spec /\ Fairness

\* A stop of the service completes whatever its workers were doing.
StopCompletes == (service = "stopping") ~> (service = "down")
=============================================================================
