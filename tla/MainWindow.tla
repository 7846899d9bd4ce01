------------------------------ MODULE MainWindow ------------------------------
(***************************************************************************)
(* MainWindow of OpenNord.exe: what the window knows, what it lets the      *)
(* user do, and the service calls it has under way.                        *)
(*                                                                         *)
(* One thread runs the event loop.  Calls go through RpcClient to pool     *)
(* threads and answer in any order, between any two clicks, and also while *)
(* a message box is open: its nested loop keeps the timer and the replies  *)
(* going and holds back the user alone.                                    *)
(*                                                                         *)
(* The methods of the class are operators from window to window, so that a *)
(* handler is the composition of the calls it makes.  The service is what  *)
(* the window can tell of it; Controller models it in full.                *)
(***************************************************************************)
EXTENDS Naturals, Sequences

CONSTANTS
    None, Failed,   \* no value; the error of a call
    Sessions,       \* the sessions the service may have at the start
    MaxActions,     \* bound on what the user and the environment do
    MaxDialogs,     \* bound on message boxes open at once
    Faults          \* what may go wrong beside a connect that fails

AllFaults == {"serviceStops",   \* the service stops and starts
              "callFails",      \* any call fails
              "loadFails"}      \* a status is read beside a write of the session

Technologies == {"nordlynx", "openvpn"}
Settings == [technology : Technologies, autoConnect : BOOLEAN]

ASSUME MainWindowAssumption ==
    /\ None # Failed
    /\ Sessions \subseteq Settings \cup {None}
    /\ MaxActions \in Nat /\ MaxDialogs \in Nat \ {0}
    /\ Faults \subseteq AllFaults

\* The calls the window can have under way.  Each visit of the page loads the
\* settings; two such calls at a time are within the bound.
Loads == {"settings", "settingsAgain"}
Operations == {"operation", "automatic"}
Slots == {"status", "locations", "save", "logout"} \cup Loads \cup Operations

VARIABLES
    window,     \* the members of MainWindow
    calls,      \* the calls under way: the future of each and its reply
    service,    \* the service as the window can see it
    actions,    \* how much the user and the environment have done
    automatic   \* automatic connects since the window last showed signed out

history == <<actions, automatic>>
vars == <<window, calls, service, history>>

Free == [phase |-> "free", ask |-> None, reply |-> None]
Queued(ask) == [phase |-> "queued", ask |-> ask, reply |-> None]

\* A window and its calls, which every method may extend
App == [w |-> window, c |-> calls]
Becomes(a) == window' = a.w /\ calls' = a.c
Taken(a, s) == a.c[s].phase # "free"
Send(a, s, ask) == [a EXCEPT !.c[s] = Queued(ask)]
Release(a, s) == [a EXCEPT !.c[s] = Free]

-----------------------------------------------------------------------------
(* What the window derives from its members *)

EngineReady(w) == w.technology \in w.ready
Active(w) == w.status = "connected"
Idle(w) == w.status \in {"disconnected", "error"}
CanChange(w) == w.available /\ w.authenticated /\ ~w.busy /\ (Active(w) \/ Idle(w))
PowerEnabled(w) == CanChange(w) /\ (Active(w) \/ EngineReady(w))

(* Methods *)

SetBusy(a, b) == [a EXCEPT !.w.busy = b]
ShowError(a, then) == [a EXCEPT !.w.dialogs = Append(@, then)]
ShowPage(a, page) == [a EXCEPT !.w.page = page]

\* statusInFlight_ is the call itself
RefreshStatus(a) == IF Taken(a, "status") THEN a ELSE Send(a, "status", None)

\* The table shows the list, and a selection that is no longer in it is dropped
UpdateLocations(a, locations) ==
    [a EXCEPT !.w.locations = locations,
              !.w.rows = locations,
              !.w.selected = @ /\ locations # None]

\* locationsInFlight_ is the call; it remembers the technology it was made for
LoadLocations(a, force) ==
    IF Taken(a, "locations") \/ (~force /\ a.w.locations # None) THEN a
    ELSE Send(a, "locations", a.w.technology)

RoomToLoad == \E s \in Loads : ~Taken(App, s)
LoadSettings(a) ==
    IF ~Taken(a, "settings") THEN Send(a, "settings", None)
    ELSE Send(a, "settingsAgain", None)

\* Mutant: any row may be opened at any time
OpenAlways(a, row) == ShowPage(a, row)

\* navigation_ emits currentRowChanged only for another row
RowChanged(a, row) ==
    IF ~a.w.authenticated THEN a
    ELSE IF row \in {"home", "locations"} /\ ~EngineReady(a.w)
    THEN ShowPage(a, "dependency")
    ELSE LET shown == ShowPage(a, row) IN
         CASE row = "locations" -> LoadLocations(shown, FALSE)
           [] row = "settings" -> LoadSettings(shown)
           [] OTHER -> shown

SetRow(a, row) ==
    IF a.w.row = row THEN a ELSE RowChanged([a EXCEPT !.w.row = row], row)

-----------------------------------------------------------------------------
(* applyStatus and showServiceUnavailable *)

\* The list is dropped; its rows stay in the table.
SignedOut(a, wasAuthenticated) ==
    LET out == [a EXCEPT !.w.attempted = FALSE, !.w.selected = FALSE,
                         !.w.locations = None, !.w.page = "login"]
    IN IF wasAuthenticated THEN SetRow(out, "home") ELSE out

\* A page that needs an engine gives way to the dependency page, and back
PageFor(w) ==
    CASE ~EngineReady(w) /\ w.page \notin {"settings", "account"} -> "dependency"
      [] EngineReady(w) /\ w.page \in {"login", "dependency"} -> "home"
      [] OTHER -> w.page

\* The first status of a session, and one with an engine that has become ready
LoadsSettings(before, state) ==
    \/ ~before.authenticated
    \/ ~EngineReady(before) /\ state.technology \in state.ready

ApplyStatus(a, state) ==
    LET before == a.w
        changed == state.technology # before.technology
        known == [a EXCEPT !.w.available = TRUE,
                           !.w.authenticated = state.authenticated,
                           !.w.ready = state.ready,
                           !.w.technology = state.technology,
                           !.w.status = state.status,
                           !.w.locations = IF changed THEN None ELSE @,
                           !.w.rows = IF changed THEN None ELSE @,
                           !.w.selected = @ /\ ~changed]
        shown == ShowPage(known, PageFor(known.w))
        loaded == IF LoadsSettings(before, state) THEN LoadSettings(shown) ELSE shown
    IN IF ~state.authenticated THEN SignedOut(known, before.authenticated)
       ELSE IF ~before.authenticated \/ changed THEN LoadLocations(loaded, FALSE)
       ELSE loaded

ServiceUnavailable(a) ==
    [a EXCEPT !.w.available = FALSE, !.w.status = "unknown",
              !.w.page = IF a.w.authenticated THEN @ ELSE "login"]

-----------------------------------------------------------------------------
(* Replies: each is the callback of its call, at any time after the answer *)

Asked(s) == calls[s].phase = "queued"
Answered(s) == calls[s].phase = "answered"
Reply(s) == calls[s].reply
Refused(s) == Reply(s) = Failed
Done(s) == Release(App, s)
\* A message box can be opened within the bound
RoomFor(shows) == shows => Len(window.dialogs) < MaxDialogs

\* Mutant: a status that failed leaves statusInFlight_ set
StuckOnFailure(a) == IF Refused("status") THEN App ELSE a
StatusDone(a) == a

StatusReply ==
    /\ Answered("status")
    /\ ~Refused("status") /\ Reply("status").authenticated
        /\ LoadsSettings(window, Reply("status")) => RoomToLoad
    /\ Becomes(IF Refused("status") THEN StatusDone(ServiceUnavailable(Done("status")))
               ELSE ApplyStatus(Done("status"), Reply("status")))
    /\ automatic' = IF window'.authenticated THEN automatic ELSE 0
    /\ UNCHANGED <<service, actions>>

\* Mutant: the list is taken for the technology of the moment
TakeAnyList == FALSE
ListIsStale == calls["locations"].ask # window.technology

\* The list is the same whoever asks for it, so it is made when it arrives.
LocationsReply ==
    /\ Asked("locations")
    /\ \E failed \in BOOLEAN :
         LET shows == failed /\ ~ListIsStale /\ window.page = "locations"
         IN /\ RoomFor(shows)
            /\ Becomes(IF ListIsStale /\ window.authenticated
                       THEN LoadLocations(Done("locations"), TRUE)
                       ELSE IF shows THEN ShowError(Done("locations"), "nothing")
                       ELSE IF ListIsStale \/ failed THEN Done("locations")
                       ELSE UpdateLocations(Done("locations"), calls["locations"].ask))
    /\ UNCHANGED <<service, history>>

\* Mutant: an automatic connect does not wait for an operation
MayConnect(w) == w.status = "disconnected"
MayAutoConnect(w) == w.status = "disconnected" /\ ~w.busy
\* Mutant: an attempt is not remembered
Forget(first) == FALSE
Attempt(first) == first

SettingsReply(s) ==
    /\ Answered(s)
    /\ LET first == ~Refused(s) /\ ~window.attempted /\ EngineReady(window)
           connects == first /\ Reply(s).autoConnect /\ MayAutoConnect(window)
           marked == [Done(s) EXCEPT !.w.attempted = @ \/ Attempt(first)]
       IN /\ Becomes(IF connects THEN Send(SetBusy(marked, TRUE), "automatic", "connect")
                     ELSE marked)
          /\ automatic' = IF connects THEN automatic + 1 ELSE automatic
    /\ UNCHANGED <<service, actions>>

OperationDone(s) == SetBusy(Done(s), FALSE)

\* The message box of an error comes before the refresh
OperationReply(s) ==
    /\ Answered(s) /\ RoomFor(Refused(s))
    /\ LET done == OperationDone(s)
           then == IF calls[s].ask = "login" THEN "nothing" ELSE "refresh"
       IN Becomes(IF Refused(s) THEN ShowError(done, then) ELSE RefreshStatus(done))
    /\ UNCHANGED <<service, history>>

\* Mutant: a saved technology keeps the old list
KeepList(a) == a
ClearList(a) == UpdateLocations(a, None)

SaveReply ==
    /\ Answered("save") /\ RoomFor(Refused("save"))
    /\ LET saved == [Done("save") EXCEPT !.w.technology = calls["save"].ask.technology]
       IN Becomes(IF Refused("save") THEN ShowError(Done("save"), "nothing")
                  ELSE RefreshStatus(LoadLocations(ClearList(saved), TRUE)))
    /\ UNCHANGED <<service, history>>

LogoutReply ==
    /\ Answered("logout") /\ RoomFor(Refused("logout"))
    /\ Becomes(IF Refused("logout") THEN ShowError(Done("logout"), "nothing")
               ELSE RefreshStatus(Done("logout")))
    /\ UNCHANGED <<service, history>>

-----------------------------------------------------------------------------
(* The user, the timer and the message boxes *)

Acts(a) ==
    /\ actions < MaxActions /\ actions' = actions + 1
    /\ Becomes(a)
    /\ UNCHANGED <<service, automatic>>
UserAt(page) == window.page = page /\ window.dialogs = <<>>

Tick ==
    /\ ~Taken(App, "status") /\ Becomes(RefreshStatus(App))
    /\ UNCHANGED <<service, history>>

LoginClick ==
    /\ UserAt("login") /\ ~window.busy /\ window.available
    /\ Acts(Send(SetBusy(App, TRUE), "operation", "login"))

Navigate(row) ==
    /\ window.dialogs = <<>> /\ window.authenticated /\ row # window.row
    /\ row = "settings" => RoomToLoad
    /\ Acts(SetRow(App, row))

PowerClick ==
    /\ UserAt("home") /\ PowerEnabled(window)
    /\ Acts(Send(SetBusy(App, TRUE), "operation",
                 IF Active(window) THEN "disconnect" ELSE "connect"))

\* homeLocation_ and the tiles
ChooseLocation(chosen) ==
    /\ UserAt("home") /\ CanChange(window) /\ Idle(window)
    /\ ~Taken(App, "locations") /\ window.locations # None
    /\ chosen # window.selected
    /\ Acts([App EXCEPT !.w.selected = chosen])

\* A row may be of a list that is dropped: home selects a location of the list.
\* The search field, which filters the list into the table anew, is left out.
ConnectSelected ==
    /\ UserAt("locations") /\ CanChange(window) /\ EngineReady(window)
    /\ ~Taken(App, "locations") /\ window.rows # None
    /\ LET chosen == [App EXCEPT !.w.selected = window.locations # None]
       IN  Acts(Send(SetBusy(SetRow(chosen, "home"), TRUE), "operation", "connect"))

SaveClick(settings) ==
    /\ UserAt("settings") /\ window.available /\ window.authenticated
    /\ ~window.busy /\ ~Taken(App, "save")
    /\ Acts(Send(App, "save", settings))

SignOutClick ==
    /\ UserAt("account")
    /\ Acts(ShowError(App, "signOut"))

\* The topmost box closes first.  A second sign-out under way is left out.
CloseDialog ==
    /\ window.dialogs # <<>>
    /\ LET n == Len(window.dialogs)
           closed == [App EXCEPT !.w.dialogs = SubSeq(@, 1, n - 1)]
       IN \/ window.dialogs[n] # "refresh" /\ Becomes(closed)
          \/ window.dialogs[n] = "refresh" /\ Becomes(RefreshStatus(closed))
          \/ /\ window.dialogs[n] = "signOut" /\ ~Taken(App, "logout")
             /\ Becomes(Send(closed, "logout", None))
    /\ UNCHANGED <<service, history>>

-----------------------------------------------------------------------------
(* The service: VpnController for this user, and RpcClient's failures *)

View(authenticated) ==
    [authenticated |-> authenticated,
     technology |-> IF service.tunnel # None THEN service.tunnel
                    ELSE IF authenticated THEN service.session.technology
                    ELSE service.technology,
     ready |-> service.installed,
     status |-> IF service.tunnel # None THEN "connected"
                ELSE CASE service.phase = "connecting" -> "changing"
                       [] service.phase = "failed" -> "error"
                       [] service.phase = "rest" -> "disconnected"]
SignedIn == service.session # None
NoChange == service.phase # "connecting"    \* operationMutex_ is free

Answer(s, r) == calls' = [calls EXCEPT ![s].phase = "answered", ![s].reply = r]
Served == UNCHANGED <<window, history>>

\* A status fails only when the service cannot be reached; the others may
AnswerFails(s) ==
    /\ Asked(s) /\ s # "locations"
    /\ \/ ~service.up \/ "callFails" \in Faults
       \/ s \in {"save", "logout", "operation", "automatic"}
       \/ s \in Loads /\ ~SignedIn
    /\ Answer(s, Failed)
    /\ UNCHANGED service /\ Served

AnswerStatus ==
    /\ Asked("status") /\ service.up
    /\ \/ Answer("status", View(SignedIn))
       \/ "loadFails" \in Faults /\ Asked("save") /\ Answer("status", View(FALSE))
    /\ UNCHANGED service /\ Served

AnswerSettings(s) ==
    /\ Asked(s) /\ service.up /\ SignedIn
    /\ Answer(s, service.session)
    /\ UNCHANGED service /\ Served

AnswerSave ==
    /\ Asked("save") /\ service.up /\ SignedIn
    /\ Answer("save", "saved")
    /\ service' = [service EXCEPT
            !.session = calls["save"].ask,
            !.technology = IF service.tunnel = None /\ NoChange
                           THEN calls["save"].ask.technology ELSE @]
    /\ Served

AnswerLogout ==
    /\ Asked("logout") /\ service.up /\ NoChange
    /\ Answer("logout", "removed")
    /\ service' = [service EXCEPT !.session = None, !.tunnel = None,
                                  !.phase = IF service.tunnel = None THEN @ ELSE "rest"]
    /\ Served

\* A sign-in stores the default settings
AnswerLogin ==
    /\ Asked("operation") /\ calls["operation"].ask = "login" /\ service.up
    /\ Answer("operation", "user")
    /\ service' = [service EXCEPT
            !.session = [technology |-> "nordlynx", autoConnect |-> FALSE]]
    /\ Served

AnswerDisconnect ==
    /\ Asked("operation") /\ calls["operation"].ask = "disconnect"
    /\ service.up /\ NoChange
    /\ Answer("operation", "state")
    /\ service' = [service EXCEPT !.tunnel = None, !.phase = "rest"]
    /\ Served

BeginConnect(s) ==
    /\ Asked(s) /\ calls[s].ask = "connect"
    /\ service.up /\ SignedIn /\ NoChange
    /\ calls' = [calls EXCEPT ![s].phase = "handling"]
    /\ service' = [service EXCEPT !.phase = "connecting", !.tunnel = None,
                                  !.technology = service.session.technology]
    /\ Served

EndConnect(s) ==
    /\ calls[s].phase = "handling"
    /\ \/ /\ Answer(s, "state")
          /\ service' = [service EXCEPT !.tunnel = service.technology, !.phase = "rest"]
       \/ /\ Answer(s, Failed)
          /\ service' = [service EXCEPT !.phase = "failed"]
    /\ Served

Happens(changed) ==
    /\ actions < MaxActions /\ actions' = actions + 1
    /\ service' = changed
    /\ UNCHANGED <<window, calls, automatic>>

ServiceStops ==
    /\ "serviceStops" \in Faults /\ service.up
    /\ NoChange
    /\ Happens([service EXCEPT !.up = FALSE, !.tunnel = None, !.phase = "rest"])
ServiceStarts == ~service.up /\ Happens([service EXCEPT !.up = TRUE])
TunnelDrops == service.tunnel # None /\ Happens([service EXCEPT !.tunnel = None])
EngineInstalled ==
    /\ service.installed # Technologies
    /\ Happens([service EXCEPT !.installed = Technologies])

-----------------------------------------------------------------------------

Init ==
    /\ window = [available |-> FALSE, authenticated |-> FALSE, busy |-> FALSE,
                 status |-> "unknown", technology |-> "nordlynx", ready |-> {},
                 locations |-> None, rows |-> None, selected |-> FALSE, attempted |-> FALSE,
                 page |-> "login", row |-> "home", dialogs |-> <<>>]
    /\ calls = [s \in Slots |-> IF s = "status" THEN Queued(None) ELSE Free]
    /\ \E session \in Sessions :
         service = [up |-> TRUE, session |-> session, tunnel |-> None,
                    phase |-> "rest", installed |-> {"nordlynx"},
                    technology |-> "nordlynx"]
    /\ actions = 0 /\ automatic = 0

Replies ==
    \/ StatusReply \/ LocationsReply \/ SaveReply \/ LogoutReply
    \/ \E s \in Loads : SettingsReply(s)
    \/ \E s \in Operations : OperationReply(s)
Services ==
    \/ \E s \in Slots : AnswerFails(s)
    \/ AnswerStatus \/ AnswerSave \/ AnswerLogout
    \/ AnswerLogin \/ AnswerDisconnect
    \/ \E s \in Loads : AnswerSettings(s)
    \/ \E s \in Operations : BeginConnect(s) \/ EndConnect(s)
Users ==
    \/ LoginClick \/ PowerClick \/ ConnectSelected \/ SignOutClick
    \/ \E row \in {"home", "locations", "settings", "account"} : Navigate(row)
    \/ \E chosen \in BOOLEAN : ChooseLocation(chosen)
    \/ \E settings \in Settings : SaveClick(settings)
Environment == ServiceStops \/ ServiceStarts \/ TunnelDrops \/ EngineInstalled

Next == Replies \/ Services \/ Users \/ Environment \/ Tick \/ CloseDialog

Spec == Init /\ [][Next]_vars

\* Replies are delivered, calls are served (each has a time limit) and the
\* timer runs; nobody has to click.
FairSpec == /\ Spec /\ WF_vars(Tick) /\ WF_vars(StatusReply)
            /\ WF_vars(AnswerStatus \/ AnswerFails("status"))
            /\ WF_vars(CloseDialog)
            /\ \A s \in Loads : WF_vars(SettingsReply(s))
                               /\ WF_vars(AnswerSettings(s) \/ AnswerFails(s))
            /\ \A s \in Operations :
                 /\ WF_vars(OperationReply(s))
                 /\ WF_vars(AnswerFails(s) \/ BeginConnect(s) \/ EndConnect(s)
                            \/ (s = "operation" /\ (AnswerLogin \/ AnswerDisconnect)))

-----------------------------------------------------------------------------
(* Properties *)

Pages == {"login", "dependency", "home", "locations", "settings", "account"}
Under(s) == calls[s].phase # "free"

\* Types of the members of the window and of the calls
TypeOK ==
    /\ window.page \in Pages
    /\ window.row \in {"home", "locations", "settings", "account"}
    /\ window.status \in {"unknown", "connected", "disconnected", "changing", "error"}
    /\ window.technology \in Technologies
    /\ {window.locations, window.rows} \subseteq Technologies \cup {None}
    /\ DOMAIN calls = Slots
    /\ window.dialogs \in Seq({"nothing", "refresh", "signOut"})

\* The window is busy exactly while one sign-in, connect or disconnect of its
\* is under way, whoever asked for it: a click, a double click, the enter key,
\* or the reply with the settings that connects automatically.
OneOperation ==
    /\ window.busy <=> \E s \in Operations : Under(s)
    /\ ~(Under("operation") /\ Under("automatic"))

\* A signed-out window shows the sign-in page and no other, whichever late
\* replies, saved rows and service losses come in between; a signed-in one
\* never shows it.
SignedOutShowsLogin == window.authenticated <=> window.page # "login"

\* The list, and every row of the table the user can connect to, was asked for
\* under the technology selected now, and a location is selected only from the
\* list: a change of the technology by a status or by a save clears them all, a
\* late list is thrown away, and the rows a sign-out leaves are of the list it
\* drops.
ChoiceIsCurrent ==
    /\ {window.locations, window.rows} \subseteq {None, window.technology}
    /\ window.selected => window.locations # None

\* Since the window last showed signed out, it has connected on its own at
\* most once, however often settings are loaded, statuses fail and engines
\* appear.
OneAutoConnect == automatic <= 1

\* When the service has come to rest, the window comes to show it: whether it
\* can be reached, who is signed in and what the tunnel does, although replies
\* that left before arrive after, and calls fail.
Shown ==
    IF service.up
    THEN /\ window.available /\ window.authenticated = SignedIn
         /\ window.status = View(SignedIn).status
         /\ window.technology = View(SignedIn).technology
         /\ window.page \in {"home", "locations"} => EngineReady(window)
    ELSE ~window.available /\ window.status = "unknown"
StatusConverges == (<>[][FALSE]_service) => <>[]Shown

=============================================================================
