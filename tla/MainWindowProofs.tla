--------------------------- MODULE MainWindowProofs ---------------------------
(***************************************************************************)
(* What TLAPS proves of MainWindow, for any number of clicks, replies and  *)
(* message boxes.  The methods of the class are operators from window to   *)
(* window, so each has a lemma: what it keeps of a window that is sound.   *)
(***************************************************************************)
EXTENDS MainWindow, TLAPS

Statuses == {"unknown", "connected", "disconnected", "changing", "error"}
Rows == {"home", "locations", "settings", "account"}
Afterwards == {"nothing", "refresh", "signOut"}
Windows == [available : BOOLEAN, authenticated : BOOLEAN, busy : BOOLEAN,
            status : Statuses, technology : Technologies, ready : SUBSET Technologies,
            locations : Technologies \cup {None}, rows : Technologies \cup {None},
            selected : BOOLEAN, attempted : BOOLEAN,
            page : Pages, row : Rows, dialogs : Seq(Afterwards)]

Views == [authenticated : BOOLEAN, technology : Technologies,
          ready : SUBSET Technologies, status : Statuses]
Asks == {None, "login", "connect", "disconnect"} \cup Technologies \cup Settings
Answers == {None, Failed, "saved", "removed", "user", "state"} \cup Settings \cup Views
Phases == {"free", "queued", "handling", "answered"}
Call == [phase : Phases, ask : Asks, reply : Answers]
AllCalls == [Slots -> Call]
Apps == [w : Windows, c : AllCalls]

ServiceStates == [up : BOOLEAN, session : Settings \cup {None}, tunnel : Technologies \cup {None},
             phase : {"rest", "connecting", "failed"}, installed : SUBSET Technologies,
             technology : Technologies]

-----------------------------------------------------------------------------
(* The invariant *)

\* A signed-out window, and no other, is on the sign-in page.
PageInv(w) == w.authenticated <=> w.page # "login"
\* The list and the rows are of the technology selected, and the selection is one of
\* the list.
ListInv(w) == /\ w.locations \in {None, w.technology}
              /\ w.rows \in {None, w.technology}
              /\ w.selected => w.locations # None
\* A status is answered with a view or not at all, and a save is of settings.
AskInv(c) == /\ c["status"].phase = "answered" => c["status"].reply \in Views \cup {Failed}
             /\ c["save"].phase # "free" => c["save"].ask \in Settings
Sound(a) == a \in Apps /\ PageInv(a.w) /\ ListInv(a.w) /\ AskInv(a.c)

\* The window is busy with the one operation under way.
BusyInv(a) == /\ a.w.busy <=> \E s \in Operations : Taken(a, s)
              /\ ~(Taken(a, "operation") /\ Taken(a, "automatic"))

\* An automatic connect is remembered as long as it counts.
AutoInv == automatic = 0 \/ (automatic = 1 /\ window.attempted)

Inv == Sound(App) /\ BusyInv(App) /\ AutoInv /\ service \in ServiceStates

\* A step of a method that is about no operation and no sign-in
Keeps(r, a) == /\ r.w.busy = a.w.busy
               /\ r.c["operation"] = a.c["operation"]
               /\ r.c["automatic"] = a.c["automatic"]
               /\ r.w.attempted = a.w.attempted
               /\ r.w.authenticated = a.w.authenticated

LEMMA KeepsBusy ==
  ASSUME NEW a, NEW r, BusyInv(a), Keeps(r, a)
  PROVE  BusyInv(r)
  BY DEF BusyInv, Keeps, Taken, Operations

LEMMA KeepsTrans ==
  ASSUME NEW a, NEW b, NEW c, Keeps(b, a), Keeps(c, b)
  PROVE  Keeps(c, a)
  BY DEF Keeps

LEMMA AppParts == App.w = window /\ App.c = calls
  BY DEF App

LEMMA Parts == ASSUME NEW a \in Apps PROVE a.w \in Windows /\ a.c \in AllCalls
  BY Zenon DEF Apps

LEMMA WindowPut ==
  ASSUME NEW a \in Apps, NEW w \in Windows
  PROVE  LET r == [a EXCEPT !.w = w] IN r \in Apps /\ r.w = w /\ r.c = a.c
  <1>1. [a EXCEPT !.w = w] \in Apps
    BY Zenon DEF Apps
  <1>2. [a EXCEPT !.w = w].w = w
    BY Zenon DEF Apps
  <1>3. [a EXCEPT !.w = w].c = a.c
    BY Zenon DEF Apps
  <1> QED BY <1>1, <1>2, <1>3

-----------------------------------------------------------------------------
(* Changes of one call *)

LEMMA Put ==
  ASSUME NEW a \in Apps, NEW s \in Slots, NEW k \in Call
  PROVE  /\ [a EXCEPT !.c[s] = k] \in Apps
         /\ [a EXCEPT !.c[s] = k].w = a.w
         /\ [a EXCEPT !.c[s] = k].c = [a.c EXCEPT ![s] = k]
  <1>1. a.c \in AllCalls
    BY Parts
  <1>2. [a.c EXCEPT ![s] = k] \in AllCalls
    BY <1>1, Zenon DEF AllCalls
  <1>3. [a EXCEPT !.c[s] = k] \in Apps
    BY <1>2, Zenon DEF Apps
  <1>4. [a EXCEPT !.c[s] = k].w = a.w
    BY <1>2, Zenon DEF Apps
  <1>5. [a EXCEPT !.c[s] = k].c = [a.c EXCEPT ![s] = k]
    BY <1>2, Zenon DEF Apps
  <1> QED BY <1>3, <1>4, <1>5

LEMMA CallTypes ==
  /\ Free \in Call /\ Free.phase = "free"
  /\ \A ask \in Asks : /\ Queued(ask) \in Call /\ Queued(ask).phase = "queued"
                       /\ Queued(ask).ask = ask
  BY DEF Call, Free, Queued, Phases, Asks, Answers

LEMMA SendPut ==
  ASSUME NEW a, Sound(a), NEW s \in Slots, NEW ask \in Asks, s = "save" => ask \in Settings
  PROVE  /\ Sound(Send(a, s, ask)) /\ Send(a, s, ask).w = a.w
         /\ \A x \in Slots \ {s} : Send(a, s, ask).c[x] = a.c[x]
         /\ Send(a, s, ask).c[s] = Queued(ask)
  <1>1. a \in Apps /\ a.c \in AllCalls
    BY Parts DEF Sound
  <1>2. /\ Send(a, s, ask) \in Apps /\ Send(a, s, ask).w = a.w
        /\ Send(a, s, ask).c = [a.c EXCEPT ![s] = Queued(ask)]
    BY <1>1, Put, CallTypes DEF Send
  <1>3. AskInv(Send(a, s, ask).c)
    BY <1>1, <1>2, CallTypes DEF AskInv, AllCalls, Sound, Slots, Loads, Operations
  <1> QED BY <1>1, <1>2, <1>3 DEF Sound, AllCalls

LEMMA ReleasePut ==
  ASSUME NEW a, Sound(a), NEW s \in Slots
  PROVE  /\ Sound(Release(a, s)) /\ Release(a, s).w = a.w
         /\ \A x \in Slots \ {s} : Release(a, s).c[x] = a.c[x]
         /\ Release(a, s).c[s] = Free
  <1>1. a \in Apps /\ a.c \in AllCalls
    BY Parts DEF Sound
  <1>2. /\ Release(a, s) \in Apps /\ Release(a, s).w = a.w
        /\ Release(a, s).c = [a.c EXCEPT ![s] = Free]
    BY <1>1, Put, CallTypes DEF Release
  <1>3. AskInv(Release(a, s).c)
    BY <1>1, <1>2, CallTypes DEF AskInv, AllCalls, Sound, Slots, Loads, Operations
  <1> QED BY <1>1, <1>2, <1>3 DEF Sound, AllCalls

-----------------------------------------------------------------------------
(* Methods *)

\* What a method may be: nothing, or the send of a call that is no operation
LEMMA SendKeeps ==
  ASSUME NEW a, Sound(a), NEW s \in {"status", "locations", "settings", "settingsAgain"},
         NEW ask \in Asks
  PROVE  /\ Sound(Send(a, s, ask)) /\ Keeps(Send(a, s, ask), a)
         /\ Send(a, s, ask).w = a.w
  <1>1. /\ s \in Slots /\ s # "save" /\ "operation" \in Slots \ {s}
        /\ "automatic" \in Slots \ {s}
    BY DEF Slots, Loads, Operations
  <1>2. /\ Sound(Send(a, s, ask)) /\ Send(a, s, ask).w = a.w
        /\ \A x \in Slots \ {s} : Send(a, s, ask).c[x] = a.c[x]
    BY <1>1, SendPut
  <1> QED BY <1>1, <1>2 DEF Keeps

LEMMA KeepsSelf == ASSUME NEW a PROVE Keeps(a, a)
  BY DEF Keeps

LEMMA RefreshKeeps ==
  ASSUME NEW a, Sound(a)
  PROVE  Sound(RefreshStatus(a)) /\ Keeps(RefreshStatus(a), a) /\ RefreshStatus(a).w = a.w
  <1>1. None \in Asks
    BY DEF Asks
  <1>2. RefreshStatus(a) = a \/ RefreshStatus(a) = Send(a, "status", None)
    BY DEF RefreshStatus
  <1> QED BY <1>1, <1>2, SendKeeps, KeepsSelf

LEMMA LoadLocationsKeeps ==
  ASSUME NEW a, Sound(a), NEW force
  PROVE  /\ Sound(LoadLocations(a, force)) /\ Keeps(LoadLocations(a, force), a)
         /\ LoadLocations(a, force).w = a.w
  <1>1. a.w.technology \in Asks
    BY Parts DEF Sound, Asks, Windows
  <1>2. \/ LoadLocations(a, force) = a
        \/ LoadLocations(a, force) = Send(a, "locations", a.w.technology)
    BY DEF LoadLocations
  <1>3. CASE LoadLocations(a, force) = a
    BY <1>3, KeepsSelf
  <1>4. CASE LoadLocations(a, force) = Send(a, "locations", a.w.technology)
    <2>1. /\ Sound(Send(a, "locations", a.w.technology))
          /\ Keeps(Send(a, "locations", a.w.technology), a)
          /\ Send(a, "locations", a.w.technology).w = a.w
      BY <1>1, SendKeeps
    <2> QED BY <1>4, <2>1
  <1> QED BY <1>2, <1>3, <1>4

LEMMA LoadSettingsKeeps ==
  ASSUME NEW a, Sound(a)
  PROVE  /\ Sound(LoadSettings(a)) /\ Keeps(LoadSettings(a), a) /\ LoadSettings(a).w = a.w
  <1>1. None \in Asks
    BY DEF Asks
  <1>2. \/ LoadSettings(a) = Send(a, "settings", None)
        \/ LoadSettings(a) = Send(a, "settingsAgain", None)
    BY DEF LoadSettings
  <1> QED BY <1>1, <1>2, SendKeeps

-----------------------------------------------------------------------------
(* Changes of one member of the window *)

\* A window with its calls, but for the page
Listed(a) == a \in Apps /\ ListInv(a.w) /\ AskInv(a.c)

LEMMA ShowPageIs ==
  ASSUME NEW a \in Apps, NEW page \in Pages
  PROVE  /\ ShowPage(a, page) \in Apps /\ ShowPage(a, page).c = a.c
         /\ ShowPage(a, page).w = [a.w EXCEPT !.page = page]
         /\ [a.w EXCEPT !.page = page] \in Windows
  <1>1. a.w \in Windows
    BY Parts
  <1>2. [a.w EXCEPT !.page = page] \in Windows
    BY <1>1, Zenon DEF Windows
  <1>3. ShowPage(a, page) \in Apps
    BY <1>2, Zenon DEF ShowPage, Apps
  <1>4. ShowPage(a, page).c = a.c
    BY <1>2, Zenon DEF ShowPage, Apps
  <1>5. ShowPage(a, page).w = [a.w EXCEPT !.page = page]
    BY <1>2, Zenon DEF ShowPage, Apps
  <1> QED BY <1>2, <1>3, <1>4, <1>5

LEMMA ShowPageKeeps ==
  ASSUME NEW a, Listed(a), NEW page \in Pages, a.w.authenticated <=> page # "login"
  PROVE  /\ Sound(ShowPage(a, page)) /\ Keeps(ShowPage(a, page), a)
         /\ ShowPage(a, page).w.locations = a.w.locations
         /\ ShowPage(a, page).w.row = a.w.row
         /\ ShowPage(a, page).w.technology = a.w.technology
         /\ ShowPage(a, page).w.ready = a.w.ready
         /\ ShowPage(a, page).c = a.c
  <1>1. a \in Apps /\ a.w \in Windows
    BY Parts DEF Listed
  <1> DEFINE r == ShowPage(a, page)
             v == [a.w EXCEPT !.page = page]
  <1>a. r \in Apps /\ r.c = a.c /\ r.w = v
    BY <1>1, ShowPageIs
  <1>b. /\ v.page = page /\ v.busy = a.w.busy /\ v.authenticated = a.w.authenticated
        /\ v.attempted = a.w.attempted /\ v.technology = a.w.technology
        /\ v.locations = a.w.locations /\ v.rows = a.w.rows /\ v.selected = a.w.selected
        /\ v.row = a.w.row /\ v.ready = a.w.ready
    BY <1>1, Zenon DEF Windows
  <1> HIDE DEF r, v
  <1>2. /\ r \in Apps /\ r.c = a.c
        /\ r.w.page = page /\ r.w.busy = a.w.busy /\ r.w.authenticated = a.w.authenticated
        /\ r.w.attempted = a.w.attempted /\ r.w.technology = a.w.technology
        /\ r.w.locations = a.w.locations /\ r.w.rows = a.w.rows /\ r.w.selected = a.w.selected
        /\ r.w.row = a.w.row /\ r.w.ready = a.w.ready
    BY <1>a, <1>b
  <1>3. PageInv(r.w)
    BY <1>2 DEF PageInv
  <1>4. ListInv(r.w) /\ AskInv(r.c)
    BY <1>2 DEF ListInv, Listed
  <1>5. Keeps(r, a)
    BY <1>2 DEF Keeps
  <1> QED BY <1>2, <1>3, <1>4, <1>5 DEF Sound, r

LEMMA RowChangedKeeps ==
  ASSUME NEW a, Sound(a), NEW row \in Rows
  PROVE  /\ Sound(RowChanged(a, row)) /\ Keeps(RowChanged(a, row), a)
         /\ RowChanged(a, row).w.locations = a.w.locations
  <1>1. Listed(a) /\ "dependency" \in Pages /\ row \in Pages /\ row # "login"
    BY DEF Sound, Listed, Pages, Rows
  <1>2. CASE ~a.w.authenticated
    BY <1>2, KeepsSelf DEF RowChanged
  <1>3. CASE a.w.authenticated
    <2> DEFINE r == ShowPage(a, row)
    <2>1. /\ Sound(r) /\ Keeps(r, a) /\ r.w.locations = a.w.locations
      BY <1>1, <1>3, ShowPageKeeps
    <2>2. \/ RowChanged(a, row) = ShowPage(a, "dependency")
          \/ RowChanged(a, row) = r
          \/ RowChanged(a, row) = LoadLocations(r, FALSE)
          \/ RowChanged(a, row) = LoadSettings(r)
      BY <1>3 DEF RowChanged, Rows
    <2>3. CASE RowChanged(a, row) = ShowPage(a, "dependency")
      BY <1>1, <1>3, <2>3, ShowPageKeeps
    <2> HIDE DEF r
    <2>4. CASE RowChanged(a, row) = LoadLocations(r, FALSE)
      BY <2>1, <2>4, LoadLocationsKeeps, KeepsTrans
    <2>5. CASE RowChanged(a, row) = LoadSettings(r)
      BY <2>1, <2>5, LoadSettingsKeeps, KeepsTrans
    <2> QED BY <2>1, <2>2, <2>3, <2>4, <2>5
  <1> QED BY <1>2, <1>3

LEMMA RowPut ==
  ASSUME NEW a, Sound(a), NEW row \in Rows
  PROVE  LET r == [a EXCEPT !.w.row = row]
         IN  Sound(r) /\ Keeps(r, a) /\ r.w.locations = a.w.locations
  <1> DEFINE r == [a EXCEPT !.w.row = row]
             v == [a.w EXCEPT !.row = row]
  <1>1. a \in Apps /\ a.w \in Windows
    BY Parts DEF Sound
  <1>2. v \in Windows
    BY <1>1, Zenon DEF Windows
  <1>3. /\ v.page = a.w.page /\ v.busy = a.w.busy /\ v.authenticated = a.w.authenticated
        /\ v.attempted = a.w.attempted /\ v.technology = a.w.technology
        /\ v.locations = a.w.locations /\ v.rows = a.w.rows /\ v.selected = a.w.selected
    BY <1>1, Zenon DEF Windows
  <1>4. r \in Apps
    BY <1>1, <1>2, Zenon DEF Apps
  <1>5. r.c = a.c
    BY <1>1, <1>2, Zenon DEF Apps
  <1>6. r.w = v
    BY <1>1, <1>2, Zenon DEF Apps
  <1> HIDE DEF r, v
  <1> QED BY <1>3, <1>4, <1>5, <1>6 DEF Sound, Keeps, PageInv, ListInv, r

LEMMA SetRowKeeps ==
  ASSUME NEW a, Sound(a), NEW row \in Rows
  PROVE  /\ Sound(SetRow(a, row)) /\ Keeps(SetRow(a, row), a)
         /\ SetRow(a, row).w.locations = a.w.locations
  <1> DEFINE b == [a EXCEPT !.w.row = row]
  <1>1. Sound(b) /\ Keeps(b, a) /\ b.w.locations = a.w.locations
    BY RowPut
  <1>2. SetRow(a, row) = a \/ SetRow(a, row) = RowChanged(b, row)
    BY DEF SetRow
  <1> HIDE DEF b
  <1>3. CASE SetRow(a, row) = RowChanged(b, row)
    BY <1>1, <1>3, RowChangedKeeps, KeepsTrans
  <1> QED BY <1>2, <1>3, KeepsSelf

LEMMA SetBusyIs ==
  ASSUME NEW a, Sound(a), NEW b \in BOOLEAN
  PROVE  LET r == SetBusy(a, b)
         IN  /\ Sound(r) /\ r.c = a.c /\ r.w.busy = b
             /\ r.w.authenticated = a.w.authenticated /\ r.w.attempted = a.w.attempted
  <1> DEFINE r == SetBusy(a, b)
             v == [a.w EXCEPT !.busy = b]
  <1>1. a \in Apps /\ a.w \in Windows
    BY Parts DEF Sound
  <1>2. r = [a EXCEPT !.w = v]
    BY <1>1, Zenon DEF SetBusy
  <1>3. v \in Windows
    BY <1>1, Zenon DEF Windows
  <1>4. /\ v.page = a.w.page /\ v.busy = b /\ v.authenticated = a.w.authenticated
        /\ v.attempted = a.w.attempted /\ v.technology = a.w.technology
        /\ v.locations = a.w.locations /\ v.rows = a.w.rows /\ v.selected = a.w.selected
    BY <1>1, Zenon DEF Windows
  <1> HIDE DEF r, v
  <1>5. r \in Apps /\ r.w = v /\ r.c = a.c
    BY <1>1, <1>2, <1>3, WindowPut
  <1> QED BY <1>4, <1>5 DEF Sound, PageInv, ListInv, r

\* A message box opens or closes.
LEMMA DialogsPut ==
  ASSUME NEW a, Sound(a), NEW dialogs \in Seq(Afterwards)
  PROVE  LET r == [a EXCEPT !.w.dialogs = dialogs] IN Sound(r) /\ Keeps(r, a) /\ r.c = a.c
  <1> DEFINE r == [a EXCEPT !.w.dialogs = dialogs]
             v == [a.w EXCEPT !.dialogs = dialogs]
  <1>1. a \in Apps /\ a.w \in Windows
    BY Parts DEF Sound
  <1>2. r = [a EXCEPT !.w = v]
    BY <1>1, Zenon
  <1>3. v \in Windows
    BY <1>1, Zenon DEF Windows
  <1>4. /\ v.page = a.w.page /\ v.busy = a.w.busy /\ v.authenticated = a.w.authenticated
        /\ v.attempted = a.w.attempted /\ v.technology = a.w.technology
        /\ v.locations = a.w.locations /\ v.rows = a.w.rows /\ v.selected = a.w.selected
    BY <1>1, Zenon DEF Windows
  <1> HIDE DEF r, v
  <1>5. r \in Apps /\ r.w = v /\ r.c = a.c
    BY <1>1, <1>2, <1>3, WindowPut
  <1> QED BY <1>4, <1>5 DEF Sound, PageInv, ListInv, Keeps, r

LEMMA ShowErrorKeeps ==
  ASSUME NEW a, Sound(a), NEW then \in Afterwards
  PROVE  Sound(ShowError(a, then)) /\ Keeps(ShowError(a, then), a)
  <1>1. a.w.dialogs \in Seq(Afterwards)
    BY Parts DEF Sound, Windows
  <1>2. Append(a.w.dialogs, then) \in Seq(Afterwards)
    BY <1>1
  <1>3. ShowError(a, then) = [a EXCEPT !.w.dialogs = Append(a.w.dialogs, then)]
    BY Zenon DEF ShowError
  <1> QED BY <1>2, <1>3, DialogsPut

\* A new list, or none, for the technology selected
LEMMA UpdateLocationsKeeps ==
  ASSUME NEW a \in Apps, PageInv(a.w), AskInv(a.c), NEW l \in {None, a.w.technology}
  PROVE  /\ Sound(UpdateLocations(a, l)) /\ Keeps(UpdateLocations(a, l), a)
  <1> DEFINE r == UpdateLocations(a, l)
             v == [a.w EXCEPT !.locations = l, !.rows = l, !.selected = @ /\ l # None]
  <1>1. a.w \in Windows
    BY Parts
  <1>2. r = [a EXCEPT !.w = v]
    BY Zenon DEF UpdateLocations
  <1>t. l \in Technologies \cup {None}
    BY <1>1 DEF Windows
  <1>3. v \in Windows
    BY <1>1, <1>t, Zenon DEF Windows
  <1>4. /\ v.page = a.w.page /\ v.busy = a.w.busy /\ v.authenticated = a.w.authenticated
        /\ v.attempted = a.w.attempted /\ v.technology = a.w.technology
        /\ v.locations = l /\ v.rows = l /\ (v.selected => l # None)
    BY <1>1, Zenon DEF Windows
  <1> HIDE DEF r, v
  <1>5. r \in Apps /\ r.w = v /\ r.c = a.c
    BY <1>2, <1>3, WindowPut
  <1> QED BY <1>4, <1>5 DEF Sound, PageInv, ListInv, Keeps, r

\* A saved technology is followed by the clearing of the list.
LEMMA SavedKeeps ==
  ASSUME NEW a, Sound(a), NEW technology \in Technologies
  PROVE  LET r == [a EXCEPT !.w.technology = technology]
         IN  r \in Apps /\ PageInv(r.w) /\ AskInv(r.c) /\ Keeps(r, a)
  <1> DEFINE r == [a EXCEPT !.w.technology = technology]
             v == [a.w EXCEPT !.technology = technology]
  <1>1. a \in Apps /\ a.w \in Windows
    BY Parts DEF Sound
  <1>2. r = [a EXCEPT !.w = v]
    BY <1>1, Zenon
  <1>3. v \in Windows
    BY <1>1, Zenon DEF Windows
  <1>4. /\ v.page = a.w.page /\ v.busy = a.w.busy /\ v.authenticated = a.w.authenticated
        /\ v.attempted = a.w.attempted
    BY <1>1, Zenon DEF Windows
  <1> HIDE DEF r, v
  <1>5. r \in Apps /\ r.w = v /\ r.c = a.c
    BY <1>1, <1>2, <1>3, WindowPut
  <1> QED BY <1>4, <1>5 DEF Sound, PageInv, Keeps, r

\* A location is chosen from a list that is there.
LEMMA SelectKeeps ==
  ASSUME NEW a, Sound(a), NEW chosen \in BOOLEAN, chosen => a.w.locations # None
  PROVE  LET r == [a EXCEPT !.w.selected = chosen] IN Sound(r) /\ Keeps(r, a) 
  <1> DEFINE r == [a EXCEPT !.w.selected = chosen]
             v == [a.w EXCEPT !.selected = chosen]
  <1>1. a \in Apps /\ a.w \in Windows
    BY Parts DEF Sound
  <1>2. r = [a EXCEPT !.w = v]
    BY <1>1, Zenon
  <1>3. v \in Windows
    BY <1>1, Zenon DEF Windows
  <1>4. /\ v.page = a.w.page /\ v.busy = a.w.busy /\ v.authenticated = a.w.authenticated
        /\ v.attempted = a.w.attempted /\ v.technology = a.w.technology
        /\ v.locations = a.w.locations /\ v.rows = a.w.rows /\ v.selected = chosen
    BY <1>1, Zenon DEF Windows
  <1> HIDE DEF r, v
  <1>5. r \in Apps /\ r.w = v /\ r.c = a.c
    BY <1>1, <1>2, <1>3, WindowPut
  <1> QED BY <1>4, <1>5 DEF Sound, PageInv, ListInv, Keeps, r

\* The settings reply remembers its attempt.
Mark(a, b) == [a EXCEPT !.w.attempted = @ \/ b]

LEMMA MarkIs ==
  ASSUME NEW a, Sound(a), NEW b \in BOOLEAN
  PROVE  LET r == Mark(a, b)
         IN  /\ Sound(r) /\ r.c = a.c /\ r.w.busy = a.w.busy
             /\ r.w.authenticated = a.w.authenticated
             /\ r.w.attempted <=> (a.w.attempted \/ b)
  <1> DEFINE r == Mark(a, b)
             v == [a.w EXCEPT !.attempted = @ \/ b]
  <1>1. a \in Apps /\ a.w \in Windows
    BY Parts DEF Sound
  <1>2. r = [a EXCEPT !.w = v]
    BY <1>1, Zenon DEF Mark
  <1>3. v \in Windows
    BY <1>1, Zenon DEF Windows
  <1>4. /\ v.page = a.w.page /\ v.busy = a.w.busy /\ v.authenticated = a.w.authenticated
        /\ (v.attempted <=> (a.w.attempted \/ b)) /\ v.technology = a.w.technology
        /\ v.locations = a.w.locations /\ v.rows = a.w.rows /\ v.selected = a.w.selected
    BY <1>1, Zenon DEF Windows
  <1> HIDE DEF r, v
  <1>5. r \in Apps /\ r.w = v /\ r.c = a.c
    BY <1>1, <1>2, <1>3, WindowPut
  <1> QED BY <1>4, <1>5 DEF Sound, PageInv, ListInv, r

LEMMA UnavailableKeeps ==
  ASSUME NEW a, Sound(a)
  PROVE  Sound(ServiceUnavailable(a)) /\ Keeps(ServiceUnavailable(a), a)
  <1> DEFINE r == ServiceUnavailable(a)
             page == IF a.w.authenticated THEN a.w.page ELSE "login"
             v == [a.w EXCEPT !.available = FALSE, !.status = "unknown", !.page = page]
  <1>1. a \in Apps /\ a.w \in Windows
    BY Parts DEF Sound
  <1>2. r = [a EXCEPT !.w = v]
    BY <1>1, Zenon DEF ServiceUnavailable
  <1>p. page \in Pages /\ page = a.w.page
    BY <1>1 DEF Sound, PageInv, Windows, Pages
  <1>u. "unknown" \in Statuses
    BY DEF Statuses
  <1>3. v \in Windows
    <2> HIDE DEF page
    <2> QED BY <1>1, <1>p, <1>u, Zenon DEF Windows
  <1>4. /\ v.page = page /\ v.busy = a.w.busy /\ v.authenticated = a.w.authenticated
        /\ v.attempted = a.w.attempted /\ v.technology = a.w.technology
        /\ v.locations = a.w.locations /\ v.rows = a.w.rows /\ v.selected = a.w.selected
    <2> HIDE DEF page
    <2> QED BY <1>1, Zenon DEF Windows
  <1> HIDE DEF r, v, page
  <1>5. r \in Apps /\ r.w = v /\ r.c = a.c
    BY <1>1, <1>2, <1>3, WindowPut
  <1> QED BY <1>p, <1>4, <1>5 DEF Sound, PageInv, ListInv, Keeps, r

-----------------------------------------------------------------------------
(* applyStatus *)

\* What applyStatus knows before it chooses a page, as its definition has it
Known(a, state) ==
    LET changed == state.technology # a.w.technology
    IN  [a EXCEPT !.w.available = TRUE,
                  !.w.authenticated = state.authenticated,
                  !.w.ready = state.ready,
                  !.w.technology = state.technology,
                  !.w.status = state.status,
                  !.w.locations = IF changed THEN None ELSE @,
                  !.w.rows = IF changed THEN None ELSE @,
                  !.w.selected = @ /\ ~changed]

\* A status changes who is signed in; it ends no operation.
Follows(r, a, authenticated) ==
    /\ r.w.busy = a.w.busy
    /\ r.c["operation"] = a.c["operation"] /\ r.c["automatic"] = a.c["automatic"]
    /\ r.w.authenticated = authenticated
    /\ authenticated => r.w.attempted = a.w.attempted

LEMMA FollowsKeeps ==
  ASSUME NEW a, NEW b, NEW c, NEW authenticated, Follows(b, a, authenticated), Keeps(c, b)
  PROVE  Follows(c, a, authenticated)
  BY DEF Follows, Keeps

LEMMA KnownIs ==
  ASSUME NEW a, Sound(a), NEW state \in Views
  PROVE  Listed(Known(a, state)) /\ Follows(Known(a, state), a, state.authenticated)
  <1> DEFINE r == Known(a, state)
             changed == state.technology # a.w.technology
             list == IF changed THEN None ELSE a.w.locations
             rows == IF changed THEN None ELSE a.w.rows
             kept == a.w.selected /\ ~changed
             u == [a.w EXCEPT !.available = TRUE,
                              !.authenticated = state.authenticated,
                              !.ready = state.ready,
                              !.technology = state.technology,
                              !.status = state.status]
             v == [u EXCEPT !.locations = list, !.rows = rows, !.selected = kept]
  <1>1. a \in Apps /\ a.w \in Windows
    BY Parts DEF Sound
  <1>u. u.locations = a.w.locations /\ u.rows = a.w.rows /\ u.selected = a.w.selected
    BY <1>1, Zenon DEF Windows
  <1>2. r = [a EXCEPT !.w = v]
    BY <1>1, <1>u, Zenon DEF Known
  <1>3. /\ state.authenticated \in BOOLEAN /\ state.technology \in Technologies
        /\ state.ready \in SUBSET Technologies /\ state.status \in Statuses
    BY Zenon DEF Views
  <1>4. /\ list \in Technologies \cup {None} /\ rows \in Technologies \cup {None}
        /\ list \in {None, state.technology} /\ rows \in {None, state.technology}
        /\ kept => list # None
    BY <1>1 DEF Sound, ListInv, Windows
  <1>k. kept \in BOOLEAN
    OBVIOUS
  <1> HIDE DEF changed, list, rows, kept
  <1>a. /\ u \in Windows
        /\ u.busy = a.w.busy /\ u.authenticated = state.authenticated
        /\ u.attempted = a.w.attempted /\ u.technology = state.technology
    BY <1>1, <1>3, Zenon DEF Windows
  <1> HIDE DEF u
  <1>5. v \in Windows
    <2>1. u \in Windows
      BY <1>a
    <2>2. list \in Technologies \cup {None} /\ rows \in Technologies \cup {None}
      BY <1>4
    <2> QED BY <1>k, <2>1, <2>2, Zenon DEF Windows
  <1>6. /\ v.busy = u.busy /\ v.authenticated = u.authenticated
        /\ v.attempted = u.attempted /\ v.technology = u.technology
        /\ v.locations = list /\ v.rows = rows /\ v.selected = kept
    BY <1>a, Zenon DEF Windows
  <1> HIDE DEF r, v
  <1>7. r \in Apps /\ r.w = v /\ r.c = a.c
    BY <1>1, <1>2, <1>5, WindowPut
  <1> QED BY <1>4, <1>a, <1>6, <1>7 DEF Sound, Listed, ListInv, Follows, r

LEMMA SignedOutKeeps ==
  ASSUME NEW a, Listed(a), ~a.w.authenticated, NEW was
  PROVE  /\ Sound(SignedOut(a, was)) /\ SignedOut(a, was).w.busy = a.w.busy
         /\ ~SignedOut(a, was).w.authenticated
         /\ SignedOut(a, was).c["operation"] = a.c["operation"]
         /\ SignedOut(a, was).c["automatic"] = a.c["automatic"]
  <1> DEFINE out == [a EXCEPT !.w.attempted = FALSE, !.w.selected = FALSE,
                              !.w.locations = None, !.w.page = "login"]
             v == [a.w EXCEPT !.attempted = FALSE, !.selected = FALSE,
                              !.locations = None, !.page = "login"]
  <1>1. a \in Apps /\ a.w \in Windows
    BY Parts DEF Listed
  <1>2. out = [a EXCEPT !.w = v]
    BY <1>1, Zenon
  <1>3. v \in Windows
    <2>1. "login" \in Pages
      BY DEF Pages
    <2> QED BY <1>1, <2>1, Zenon DEF Windows
  <1>4. /\ v.busy = a.w.busy /\ v.authenticated = a.w.authenticated
        /\ v.page = "login" /\ v.locations = None /\ v.selected = FALSE
        /\ v.rows = a.w.rows /\ v.technology = a.w.technology
    BY <1>1, Zenon DEF Windows
  <1>5. SignedOut(a, was) = out \/ SignedOut(a, was) = SetRow(out, "home")
    BY DEF SignedOut
  <1> HIDE DEF out, v
  <1>6. out \in Apps /\ out.w = v /\ out.c = a.c
    BY <1>1, <1>2, <1>3, WindowPut
  <1>7. Sound(out)
    BY <1>4, <1>6 DEF Sound, Listed, PageInv, ListInv
  <1>8. CASE SignedOut(a, was) = out
    BY <1>4, <1>6, <1>7, <1>8
  <1>9. CASE SignedOut(a, was) = SetRow(out, "home")
    <2>1. "home" \in Rows
      BY DEF Rows
    <2>2. Sound(SetRow(out, "home")) /\ Keeps(SetRow(out, "home"), out)
      BY <1>7, <2>1, SetRowKeeps
    <2> QED BY <1>4, <1>6, <1>9, <2>2 DEF Keeps
  <1> QED BY <1>5, <1>8, <1>9

LEMMA PageForIs ==
  ASSUME NEW w \in Windows
  PROVE  PageFor(w) \in Pages /\ PageFor(w) # "login"
  <1>1. w.page \in Pages
    BY Zenon DEF Windows
  <1> QED BY <1>1 DEF PageFor, Pages

LEMMA ApplyStatusKeeps ==
  ASSUME NEW a, Sound(a), NEW state \in Views
  PROVE  /\ Sound(ApplyStatus(a, state))
         /\ Follows(ApplyStatus(a, state), a, state.authenticated)
  <1> DEFINE known == Known(a, state)
             shown == ShowPage(known, PageFor(known.w))
             loaded == IF LoadsSettings(a.w, state) THEN LoadSettings(shown) ELSE shown
             r == ApplyStatus(a, state)
  <1>1. Listed(known) /\ Follows(known, a, state.authenticated)
    BY KnownIs
  <1>2. /\ ~state.authenticated => r = SignedOut(known, a.w.authenticated)
        /\ state.authenticated => r = loaded \/ r = LoadLocations(loaded, FALSE)
    BY DEF ApplyStatus, Known
  <1>3. shown = ShowPage(known, PageFor(known.w)) /\ (loaded = shown \/ loaded = LoadSettings(shown))
    OBVIOUS
  <1> HIDE DEF known, shown, loaded, r
  <1>4. CASE ~state.authenticated
    <2>1. ~known.w.authenticated
      BY <1>1, <1>4 DEF Follows
    <2>2. /\ Sound(r) /\ r.w.busy = known.w.busy /\ ~r.w.authenticated
          /\ r.c["operation"] = known.c["operation"] /\ r.c["automatic"] = known.c["automatic"]
      BY <1>1, <1>2, <1>4, <2>1, SignedOutKeeps
    <2>b. r.w.authenticated \in BOOLEAN /\ state.authenticated \in BOOLEAN
      BY <2>2, Parts, Zenon DEF Sound, Windows, Views
    <2> QED BY <1>1, <1>4, <2>2, <2>b DEF Follows, r
  <1>5. CASE state.authenticated
    <2>1. known.w.authenticated /\ known.w \in Windows
      BY <1>1, <1>5, Parts DEF Follows, Listed
    <2>2. Sound(shown) /\ Keeps(shown, known)
      BY <1>1, <1>3, <2>1, PageForIs, ShowPageKeeps
    <2>3. Sound(loaded) /\ Keeps(loaded, shown)
      BY <1>3, <2>2, LoadSettingsKeeps, KeepsSelf
    <2>4. Sound(r) /\ Keeps(r, loaded)
      BY <1>2, <1>5, <2>3, LoadLocationsKeeps, KeepsSelf
    <2> QED BY <1>1, <2>2, <2>3, <2>4, FollowsKeeps DEF r
  <1> QED BY <1>4, <1>5

-----------------------------------------------------------------------------
(* Operations begin and end *)

LEMMA BeginIs ==
  ASSUME NEW a, Sound(a), BusyInv(a), ~a.w.busy, NEW s \in Operations,
         NEW ask \in {"login", "connect", "disconnect"}
  PROVE  LET r == Send(SetBusy(a, TRUE), s, ask)
         IN  /\ Sound(r) /\ BusyInv(r) /\ r.w.attempted = a.w.attempted
             /\ r.w.authenticated = a.w.authenticated
  <1> DEFINE b == SetBusy(a, TRUE)
             r == Send(b, s, ask)
  <1>1. /\ Sound(b) /\ b.c = a.c /\ b.w.busy = TRUE
        /\ b.w.authenticated = a.w.authenticated /\ b.w.attempted = a.w.attempted
    BY SetBusyIs
  <1>2. s \in Slots /\ ask \in Asks /\ s # "save"
    BY DEF Operations, Slots, Loads, Asks
  <1> HIDE DEF b
  <1>3. /\ Sound(r) /\ r.w = b.w /\ r.c[s] = Queued(ask)
        /\ \A x \in Slots \ {s} : r.c[x] = b.c[x]
    BY <1>1, <1>2, SendPut
  <1>4. ~Taken(a, "operation") /\ ~Taken(a, "automatic")
    BY DEF BusyInv, Operations
  <1>5. Queued(ask).phase = "queued"
    BY <1>2, CallTypes
  <1> HIDE DEF r
  <1>6. BusyInv(r)
    BY <1>1, <1>3, <1>4, <1>5 DEF BusyInv, Taken, Operations, Slots, Loads
  <1> QED BY <1>1, <1>3, <1>6 DEF r, b

LEMMA EndIs ==
  ASSUME NEW a, Sound(a), BusyInv(a), NEW s \in Operations, Taken(a, s)
  PROVE  LET r == SetBusy(Release(a, s), FALSE)
         IN  /\ Sound(r) /\ BusyInv(r) /\ r.w.attempted = a.w.attempted
             /\ r.w.authenticated = a.w.authenticated
  <1> DEFINE b == Release(a, s)
             r == SetBusy(b, FALSE)
  <1>1. s \in Slots
    BY DEF Operations, Slots, Loads
  <1>2. /\ Sound(b) /\ b.w = a.w /\ b.c[s] = Free
        /\ \A x \in Slots \ {s} : b.c[x] = a.c[x]
    BY <1>1, ReleasePut
  <1> HIDE DEF b
  <1>3. /\ Sound(r) /\ r.c = b.c /\ r.w.busy = FALSE
        /\ r.w.authenticated = b.w.authenticated /\ r.w.attempted = b.w.attempted
    BY <1>2, SetBusyIs
  <1> HIDE DEF r
  <1>4. BusyInv(r)
    BY <1>2, <1>3, CallTypes DEF BusyInv, Taken, Operations, Slots, Loads
  <1> QED BY <1>2, <1>3, <1>4 DEF r, b

-----------------------------------------------------------------------------
(* Steps *)

LEMMA BecomesIs ==
  ASSUME NEW r, Sound(r), Becomes(r)
  PROVE  App' = r
  <1>1. r \in [w : Windows, c : AllCalls]
    BY DEF Sound, Apps
  <1>2. r = [w |-> r.w, c |-> r.c]
    BY <1>1, Zenon
  <1>3. App' = [w |-> window', c |-> calls']
    BY DEF App
  <1> QED BY <1>2, <1>3 DEF Becomes

\* A handler that is about no operation and no sign-in
LEMMA KeepingStep ==
  ASSUME Inv, NEW r, Sound(r), Keeps(r, App), Becomes(r),
         automatic' = automatic, service' = service
  PROVE  Inv'
  <1>1. App' = r /\ BusyInv(r)
    BY BecomesIs, KeepsBusy DEF Inv
  <1>2. window'.attempted = window.attempted
    BY AppParts DEF Keeps, Becomes
  <1> QED BY <1>1, <1>2 DEF Inv, AutoInv

\* A handler of an operation
LEMMA OperatingStep ==
  ASSUME Inv, NEW r, Sound(r), BusyInv(r), r.w.attempted = window.attempted, Becomes(r),
         automatic' = automatic, service' = service
  PROVE  Inv'
  <1>1. App' = r
    BY BecomesIs
  <1>2. window'.attempted = window.attempted
    BY DEF Becomes
  <1> QED BY <1>1, <1>2 DEF Inv, AutoInv

LEMMA DoneIs ==
  ASSUME Inv, NEW s \in Slots \ Operations
  PROVE  Sound(Done(s)) /\ Keeps(Done(s), App) /\ Done(s).w = window
  <1>1. "operation" \in Slots \ {s} /\ "automatic" \in Slots \ {s}
    BY DEF Slots, Loads, Operations
  <1>2. /\ Sound(Done(s)) /\ Done(s).w = App.w
        /\ \A x \in Slots \ {s} : Done(s).c[x] = App.c[x]
    BY ReleasePut DEF Inv, Done
  <1> QED BY <1>1, <1>2, AppParts DEF Keeps

LEMMA StatusStep == ASSUME Inv, StatusReply PROVE Inv'
  <1> DEFINE d == Done("status")
  <1>1. Sound(d) /\ Keeps(d, App)
    BY DoneIs DEF Slots, Loads, Operations
  <1>2. calls["status"].reply \in Views \cup {Failed}
    BY AppParts DEF StatusReply, Answered, Inv, Sound, AskInv
  <1> HIDE DEF d
  <1>3. CASE Refused("status")
    <2>1. Becomes(ServiceUnavailable(d))
      BY <1>3 DEF StatusReply, StatusDone, d
    <2>2. Sound(ServiceUnavailable(d)) /\ Keeps(ServiceUnavailable(d), App)
      BY <1>1, UnavailableKeeps, KeepsTrans
    <2>3. automatic' = automatic \/ automatic' = 0
      BY DEF StatusReply
    <2>4. window'.attempted = window.attempted /\ service' = service
      BY <2>1, <2>2, AppParts DEF Becomes, Keeps, StatusReply
    <2>5. App' = ServiceUnavailable(d) /\ BusyInv(ServiceUnavailable(d))
      BY <2>1, <2>2, BecomesIs, KeepsBusy DEF Inv
    <2> QED BY <2>2, <2>3, <2>4, <2>5 DEF Inv, AutoInv
  <1>4. CASE ~Refused("status")
    <2> DEFINE state == Reply("status")
               r == ApplyStatus(d, state)
    <2>1. Becomes(r)
      BY <1>4 DEF StatusReply, d
    <2>2. state \in Views
      BY <1>2, <1>4 DEF Refused, Reply
    <2>3. Sound(r) /\ Follows(r, d, state.authenticated)
      BY <1>1, <2>2, ApplyStatusKeeps
    <2> HIDE DEF r
    <2>4. App' = r
      BY <2>1, <2>3, BecomesIs
    <2>5. BusyInv(r)
      BY <1>1, <2>3, KeepsBusy DEF Inv, Follows, BusyInv, Taken, Operations
    <2>6. AutoInv'
      <3>1. window' = r.w
        BY <2>1 DEF Becomes
      <3>2. CASE window'.authenticated
        <4>1. automatic' = automatic /\ r.w.attempted = window.attempted
          BY <1>1, <2>3, <3>1, <3>2, AppParts DEF Follows, Keeps, StatusReply
        <4> QED BY <3>1, <4>1 DEF Inv, AutoInv
      <3>3. CASE ~window'.authenticated
        BY <3>3 DEF StatusReply, AutoInv
      <3> QED BY <3>2, <3>3
    <2>7. service' = service
      BY DEF StatusReply
    <2> QED BY <2>3, <2>4, <2>5, <2>6, <2>7 DEF Inv
  <1> QED BY <1>3, <1>4

LEMMA LocationsStep == ASSUME Inv, LocationsReply PROVE Inv'
  <1> DEFINE d == Done("locations")
  <1>1. Sound(d) /\ Keeps(d, App) /\ d.w = window
    BY DoneIs DEF Slots, Loads, Operations
  <1>2. \/ Becomes(LoadLocations(d, TRUE))
        \/ Becomes(ShowError(d, "nothing"))
        \/ Becomes(d)
        \/ ~ListIsStale /\ Becomes(UpdateLocations(d, calls["locations"].ask))
    BY Zenon DEF LocationsReply
  <1>3. automatic' = automatic /\ service' = service
    BY DEF LocationsReply, history
  <1> HIDE DEF d
  <1>4. CASE Becomes(LoadLocations(d, TRUE))
    BY <1>1, <1>3, <1>4, LoadLocationsKeeps, KeepsTrans, KeepingStep
  <1>5. CASE Becomes(ShowError(d, "nothing"))
    <2>1. "nothing" \in Afterwards
      BY DEF Afterwards
    <2> QED BY <1>1, <1>3, <1>5, <2>1, ShowErrorKeeps, KeepsTrans, KeepingStep
  <1>6. CASE Becomes(d)
    BY <1>1, <1>3, <1>6, KeepingStep
  <1>7. CASE ~ListIsStale /\ Becomes(UpdateLocations(d, calls["locations"].ask))
    <2> DEFINE ask == calls["locations"].ask
    <2>1. ask \in {None, d.w.technology}
      BY <1>1, <1>7 DEF ListIsStale
    <2> HIDE DEF ask
    <2>2. Sound(UpdateLocations(d, ask)) /\ Keeps(UpdateLocations(d, ask), d)
      BY <1>1, <2>1, UpdateLocationsKeeps DEF Sound
    <2>3. Becomes(UpdateLocations(d, ask))
      BY <1>7 DEF ask
    <2> QED BY <1>1, <1>3, <2>2, <2>3, KeepsTrans, KeepingStep
  <1> QED BY <1>2, <1>4, <1>5, <1>6, <1>7

LEMMA SettingsStep ==
  ASSUME Inv, NEW s \in Loads, SettingsReply(s)
  PROVE  Inv'
  <1> DEFINE d == Done(s)
             first == ~Refused(s) /\ ~window.attempted /\ EngineReady(window)
             connects == first /\ Reply(s).autoConnect /\ MayAutoConnect(window)
             marked == Mark(d, first)
             r == Send(SetBusy(marked, TRUE), "automatic", "connect")
  <1>1. Sound(d) /\ Keeps(d, App) /\ d.w = window
    BY DoneIs DEF Slots, Loads, Operations
  <1>2. /\ connects => Becomes(r) /\ automatic' = automatic + 1
        /\ ~connects => Becomes(marked) /\ automatic' = automatic
        /\ service' = service
    BY DEF SettingsReply, Attempt, Mark
  <1>b. first \in BOOLEAN
    OBVIOUS
  <1>3. /\ first => ~window.attempted
        /\ connects => first /\ ~window.busy
    BY DEF MayAutoConnect
  <1> HIDE DEF d, first, connects
  <1>4. /\ Sound(marked) /\ marked.c = d.c /\ marked.w.busy = window.busy
        /\ marked.w.attempted <=> (window.attempted \/ first)
    <2>1. /\ Sound(marked) /\ marked.c = d.c /\ marked.w.busy = d.w.busy
          /\ marked.w.attempted <=> (d.w.attempted \/ first)
      BY <1>1, <1>b, MarkIs, Zenon
    <2> HIDE DEF marked
    <2> QED BY <1>1, <2>1
  <1> HIDE DEF marked
  <1>5. BusyInv(marked)
    BY <1>1, <1>4, AppParts DEF Inv, BusyInv, Keeps, Taken, Operations
  <1>6. CASE connects
    <2>1. Sound(r) /\ BusyInv(r) /\ r.w.attempted = marked.w.attempted
      BY <1>3, <1>4, <1>5, <1>6, BeginIs DEF Operations
    <2> HIDE DEF r
    <2>2. App' = r /\ window' = r.w
      BY <1>2, <1>6, <2>1, BecomesIs DEF Becomes
    <2>3. automatic' = 1
      BY <1>2, <1>3, <1>6 DEF Inv, AutoInv
    <2>4. AutoInv'
      BY <1>3, <1>4, <1>6, <2>1, <2>2, <2>3 DEF AutoInv
    <2> QED BY <1>2, <2>1, <2>2, <2>4 DEF Inv
  <1>7. CASE ~connects
    <2>1. App' = marked /\ window' = marked.w
      BY <1>2, <1>4, <1>7, BecomesIs DEF Becomes
    <2>2. AutoInv'
      BY <1>2, <1>4, <1>7, <2>1 DEF Inv, AutoInv
    <2> QED BY <1>2, <1>4, <1>5, <2>1, <2>2 DEF Inv
  <1> QED BY <1>6, <1>7

LEMMA OperationStep ==
  ASSUME Inv, NEW s \in Operations, OperationReply(s)
  PROVE  Inv'
  <1> DEFINE d == OperationDone(s)
             then == IF calls[s].ask = "login" THEN "nothing" ELSE "refresh"
  <1>1. Taken(App, s)
    BY AppParts DEF OperationReply, Answered, Taken
  <1>2. Sound(d) /\ BusyInv(d) /\ d.w.attempted = window.attempted
    BY <1>1, EndIs, AppParts DEF Inv, OperationDone, Done
  <1>3. Becomes(ShowError(d, then)) \/ Becomes(RefreshStatus(d))
    BY Zenon DEF OperationReply
  <1>4. automatic' = automatic /\ service' = service
    BY DEF OperationReply, history
  <1>5. then \in Afterwards
    BY DEF Afterwards
  <1> HIDE DEF d, then
  <1>6. CASE Becomes(ShowError(d, then))
    <2>1. Sound(ShowError(d, then)) /\ Keeps(ShowError(d, then), d)
      BY <1>2, <1>5, ShowErrorKeeps
    <2>2. BusyInv(ShowError(d, then)) /\ ShowError(d, then).w.attempted = window.attempted
      BY <1>2, <2>1, KeepsBusy DEF Keeps
    <2> QED BY <1>4, <1>6, <2>1, <2>2, OperatingStep
  <1>7. CASE Becomes(RefreshStatus(d))
    <2>1. Sound(RefreshStatus(d)) /\ Keeps(RefreshStatus(d), d)
      BY <1>2, RefreshKeeps
    <2>2. BusyInv(RefreshStatus(d)) /\ RefreshStatus(d).w.attempted = window.attempted
      BY <1>2, <2>1, KeepsBusy DEF Keeps
    <2> QED BY <1>4, <1>7, <2>1, <2>2, OperatingStep
  <1> QED BY <1>3, <1>6, <1>7

LEMMA SaveStep == ASSUME Inv, SaveReply PROVE Inv'
  <1> DEFINE d == Done("save")
             technology == calls["save"].ask.technology
             saved == [d EXCEPT !.w.technology = technology]
             r == RefreshStatus(LoadLocations(ClearList(saved), TRUE))
  <1>1. Sound(d) /\ Keeps(d, App)
    BY DoneIs DEF Slots, Loads, Operations
  <1>2. Becomes(ShowError(d, "nothing")) \/ Becomes(r)
    BY Zenon DEF SaveReply
  <1>3. automatic' = automatic /\ service' = service
    BY DEF SaveReply, history
  <1>4. technology \in Technologies
    BY AppParts DEF SaveReply, Answered, Inv, Sound, AskInv, Settings
  <1> HIDE DEF d, technology
  <1>5. CASE Becomes(ShowError(d, "nothing"))
    <2>1. "nothing" \in Afterwards
      BY DEF Afterwards
    <2> QED BY <1>1, <1>3, <1>5, <2>1, ShowErrorKeeps, KeepsTrans, KeepingStep
  <1>6. CASE Becomes(r)
    <2>1. saved \in Apps /\ PageInv(saved.w) /\ AskInv(saved.c) /\ Keeps(saved, d)
      BY <1>1, <1>4, SavedKeeps
    <2> DEFINE cleared == ClearList(saved)
               loading == LoadLocations(cleared, TRUE)
    <2> HIDE DEF saved
    <2>2. Sound(cleared) /\ Keeps(cleared, saved)
      BY <2>1, UpdateLocationsKeeps DEF ClearList
    <2> HIDE DEF cleared
    <2>3. Sound(loading) /\ Keeps(loading, cleared)
      BY <2>2, LoadLocationsKeeps
    <2> HIDE DEF loading
    <2>4. Sound(RefreshStatus(loading)) /\ Keeps(RefreshStatus(loading), loading)
      BY <2>3, RefreshKeeps
    <2>5. Keeps(RefreshStatus(loading), App)
      BY <1>1, <2>1, <2>2, <2>3, <2>4 DEF Keeps
    <2>6. Becomes(RefreshStatus(loading))
      BY <1>6 DEF loading, cleared, saved
    <2> QED BY <1>3, <2>4, <2>5, <2>6, KeepingStep
  <1> QED BY <1>2, <1>5, <1>6

LEMMA LogoutStep == ASSUME Inv, LogoutReply PROVE Inv'
  <1> DEFINE d == Done("logout")
  <1>1. Sound(d) /\ Keeps(d, App)
    BY DoneIs DEF Slots, Loads, Operations
  <1>2. Becomes(ShowError(d, "nothing")) \/ Becomes(RefreshStatus(d))
    BY Zenon DEF LogoutReply
  <1>3. automatic' = automatic /\ service' = service
    BY DEF LogoutReply, history
  <1>4. "nothing" \in Afterwards
    BY DEF Afterwards
  <1> HIDE DEF d
  <1>5. CASE Becomes(ShowError(d, "nothing"))
    BY <1>1, <1>3, <1>4, <1>5, ShowErrorKeeps, KeepsTrans, KeepingStep
  <1>6. CASE Becomes(RefreshStatus(d))
    BY <1>1, <1>3, <1>6, RefreshKeeps, KeepsTrans, KeepingStep
  <1> QED BY <1>2, <1>5, <1>6

LEMMA TickStep == ASSUME Inv, Tick PROVE Inv'
  <1>1. Becomes(RefreshStatus(App)) /\ automatic' = automatic /\ service' = service
    BY DEF Tick, history
  <1>2. Sound(RefreshStatus(App)) /\ Keeps(RefreshStatus(App), App)
    BY RefreshKeeps DEF Inv
  <1> QED BY <1>1, <1>2, KeepingStep

\* A button that begins an operation
LEMMA ClickStep ==
  ASSUME Inv, ~window.busy, NEW ask \in {"login", "connect", "disconnect"},
         Acts(Send(SetBusy(App, TRUE), "operation", ask))
  PROVE  Inv'
  <1> DEFINE r == Send(SetBusy(App, TRUE), "operation", ask)
  <1>1. Sound(r) /\ BusyInv(r) /\ r.w.attempted = window.attempted
    BY BeginIs, AppParts DEF Inv, Operations
  <1>2. Becomes(r) /\ automatic' = automatic /\ service' = service
    BY DEF Acts
  <1> HIDE DEF r
  <1> QED BY <1>1, <1>2, OperatingStep

\* What a click does that begins nothing
LEMMA QuietStep ==
  ASSUME Inv, NEW r, Acts(r), Sound(r), Keeps(r, App)
  PROVE  Inv'
  BY KeepingStep DEF Acts

LEMMA ConnectSelectedStep == ASSUME Inv, ConnectSelected PROVE Inv'
  <1> DEFINE chosen == [App EXCEPT !.w.selected = window.locations # None]
             home == SetRow(chosen, "home")
             r == Send(SetBusy(home, TRUE), "operation", "connect")
  <1>1. ~window.busy /\ Acts(r)
    BY DEF ConnectSelected, CanChange
  <1>2. Sound(chosen) /\ Keeps(chosen, App)
    BY <1>1, SelectKeeps, AppParts DEF Inv
  <1> HIDE DEF chosen
  <1>3. Sound(home) /\ Keeps(home, chosen)
    BY <1>2, SetRowKeeps DEF Rows
  <1> HIDE DEF home
  <1>4. BusyInv(home) /\ ~home.w.busy /\ home.w.attempted = window.attempted
    BY <1>1, <1>2, <1>3, KeepsBusy, AppParts DEF Inv, Keeps
  <1>5. Sound(r) /\ BusyInv(r) /\ r.w.attempted = window.attempted
    BY <1>3, <1>4, BeginIs DEF Operations
  <1>6. Becomes(r) /\ automatic' = automatic /\ service' = service
    BY <1>1 DEF Acts
  <1> HIDE DEF r
  <1> QED BY <1>5, <1>6, OperatingStep

LEMMA UsersStep == ASSUME Inv, Users PROVE Inv'
  <1>1. CASE LoginClick
    BY <1>1, ClickStep DEF LoginClick
  <1>2. CASE PowerClick
    BY <1>2, ClickStep DEF PowerClick, PowerEnabled, CanChange
  <1>3. CASE ConnectSelected
    BY <1>3, ConnectSelectedStep
  <1>4. CASE SignOutClick
    <2>1. "signOut" \in Afterwards
      BY DEF Afterwards
    <2> QED BY <1>4, <2>1, ShowErrorKeeps, QuietStep DEF Inv, SignOutClick
  <1>5. ASSUME NEW row \in {"home", "locations", "settings", "account"}, Navigate(row)
        PROVE  Inv'
    BY <1>5, SetRowKeeps, QuietStep DEF Inv, Navigate, Rows
  <1>6. ASSUME NEW chosen \in BOOLEAN, ChooseLocation(chosen)
        PROVE  Inv'
    <2>1. Sound(App) /\ App.w.locations # None
      BY <1>6, AppParts DEF Inv, ChooseLocation
    <2>2. Acts([App EXCEPT !.w.selected = chosen])
      BY <1>6 DEF ChooseLocation
    <2> QED BY <2>1, <2>2, SelectKeeps, QuietStep
  <1>7. ASSUME NEW settings \in Settings, SaveClick(settings)
        PROVE  Inv'
    <2> DEFINE r == Send(App, "save", settings)
    <2>1. settings \in Asks /\ "save" \in Slots /\ "operation" \in Slots \ {"save"}
          /\ "automatic" \in Slots \ {"save"}
      BY DEF Asks, Slots, Loads, Operations
    <2>2. /\ Sound(r) /\ r.w = App.w
          /\ \A x \in Slots \ {"save"} : r.c[x] = App.c[x]
      BY <2>1, SendPut DEF Inv
    <2>3. Acts(r)
      BY <1>7 DEF SaveClick
    <2> HIDE DEF r
    <2>4. Keeps(r, App)
      BY <2>1, <2>2 DEF Keeps
    <2> QED BY <2>2, <2>3, <2>4, QuietStep
  <1> QED BY <1>1, <1>2, <1>3, <1>4, <1>5, <1>6, <1>7 DEF Users

LEMMA CloseStep == ASSUME Inv, CloseDialog PROVE Inv'
  <1> DEFINE shorter == SubSeq(window.dialogs, 1, Len(window.dialogs) - 1)
             closed == [App EXCEPT !.w.dialogs = shorter]
             out == Send(closed, "logout", None)
  <1>1. \/ Becomes(closed)
        \/ Becomes(RefreshStatus(closed))
        \/ Becomes(out)
    BY Zenon, AppParts DEF CloseDialog
  <1>2. automatic' = automatic /\ service' = service
    BY DEF CloseDialog, history
  <1>3. shorter \in Seq(Afterwards)
    <2>1. window.dialogs \in Seq(Afterwards) /\ window.dialogs # <<>>
      BY AppParts, Parts DEF Inv, Sound, Windows, CloseDialog
    <2> QED BY <2>1
  <1> HIDE DEF shorter
  <1>4. Sound(closed) /\ Keeps(closed, App)
    BY <1>3, DialogsPut DEF Inv
  <1> HIDE DEF closed
  <1>5. CASE Becomes(closed)
    BY <1>2, <1>4, <1>5, KeepingStep
  <1>6. CASE Becomes(RefreshStatus(closed))
    BY <1>2, <1>4, <1>6, RefreshKeeps, KeepsTrans, KeepingStep
  <1>7. CASE Becomes(out)
    <2>1. None \in Asks /\ "logout" \in Slots /\ "operation" \in Slots \ {"logout"}
          /\ "automatic" \in Slots \ {"logout"} /\ "logout" # "save"
      BY DEF Asks, Slots, Loads, Operations
    <2>2. /\ Sound(out) /\ out.w = closed.w
          /\ \A x \in Slots \ {"logout"} : out.c[x] = closed.c[x]
      BY <1>4, <2>1, SendPut
    <2> HIDE DEF out
    <2>3. Keeps(out, App)
      BY <1>4, <2>1, <2>2 DEF Keeps
    <2> QED BY <1>2, <1>7, <2>2, <2>3, KeepingStep
  <1> QED BY <1>1, <1>5, <1>6, <1>7

-----------------------------------------------------------------------------
(* The service *)

\* The phase and the reply of a call that is under way change.
LEMMA ServedStep ==
  ASSUME Inv, NEW s \in Slots, calls[s].phase # "free",
         NEW k \in Call, k.phase # "free", k.ask = calls[s].ask,
         s = "status" /\ k.phase = "answered" => k.reply \in Views \cup {Failed},
         calls' = [calls EXCEPT ![s] = k], Served, service' \in ServiceStates
  PROVE  Inv'
  <1>1. window' = window /\ automatic' = automatic
    BY DEF Served, history
  <1>2. calls \in AllCalls
    BY AppParts, Parts DEF Inv, Sound
  <1> DEFINE r == [App EXCEPT !.c[s] = k]
  <1>3. r \in Apps /\ r.w = window /\ r.c = calls'
    BY Put, AppParts DEF Inv, Sound
  <1> HIDE DEF r
  <1>4. /\ calls'[s] = k
        /\ \A x \in Slots \ {s} : calls'[x] = calls[x]
    BY <1>2 DEF AllCalls
  <1>5. AskInv(r.c)
    BY <1>3, <1>4, AppParts DEF Inv, Sound, AskInv, Slots, Loads, Operations
  <1>6. Sound(r)
    BY <1>3, <1>5, AppParts DEF Inv, Sound
  <1>7. BusyInv(r)
    BY <1>3, <1>4, AppParts DEF Inv, BusyInv, Taken, Operations, Slots, Loads
  <1>8. App' = r
    BY <1>1, <1>3, <1>6, BecomesIs DEF Becomes
  <1> QED BY <1>1, <1>6, <1>7, <1>8 DEF Inv, AutoInv

LEMMA AnswerIs ==
  ASSUME Inv, NEW s \in Slots, calls[s].phase # "free", NEW reply \in Answers,
         s = "status" => reply \in Views \cup {Failed},
         Answer(s, reply), Served, service' \in ServiceStates
  PROVE  Inv'
  <1> DEFINE k == [calls[s] EXCEPT !.phase = "answered", !.reply = reply]
  <1>1. calls \in AllCalls /\ calls[s] \in Call
    BY AppParts, Parts DEF Inv, Sound, AllCalls
  <1>2. calls' = [calls EXCEPT ![s] = k]
    BY <1>1, Zenon DEF Answer, AllCalls
  <1>3. "answered" \in Phases
    BY DEF Phases
  <1>4. k \in Call
    BY <1>1, <1>3, Zenon DEF Call
  <1>5. k.phase = "answered" /\ k.ask = calls[s].ask /\ k.reply = reply
    BY <1>1, Zenon DEF Call
  <1> HIDE DEF k
  <1> QED BY <1>2, <1>4, <1>5, ServedStep

LEMMA ServiceParts ==
  ASSUME service \in ServiceStates
  PROVE  /\ service.up \in BOOLEAN /\ service.session \in Settings \cup {None}
         /\ service.tunnel \in Technologies \cup {None}
         /\ service.phase \in {"rest", "connecting", "failed"}
         /\ service.installed \in SUBSET Technologies
         /\ service.technology \in Technologies
  BY Zenon DEF ServiceStates

LEMMA ViewIs ==
  ASSUME service \in ServiceStates, NEW authenticated \in BOOLEAN,
         authenticated => service.session # None
  PROVE  View(authenticated) \in Views
  <1> DEFINE technology == IF service.tunnel # None THEN service.tunnel
                           ELSE IF authenticated THEN service.session.technology
                           ELSE service.technology
             status == IF service.tunnel # None THEN "connected"
                       ELSE CASE service.phase = "connecting" -> "changing"
                              [] service.phase = "failed" -> "error"
                              [] service.phase = "rest" -> "disconnected"
  <1>1. \A x \in Settings : x.technology \in Technologies
    BY Zenon DEF Settings
  <1>2. technology \in Technologies
    <2>1. CASE service.tunnel # None
      BY <2>1, ServiceParts
    <2>2. CASE service.tunnel = None /\ authenticated
      BY <1>1, <2>2, ServiceParts
    <2>3. CASE service.tunnel = None /\ ~authenticated
      BY <2>3, ServiceParts
    <2> QED BY <2>1, <2>2, <2>3
  <1>3. status \in Statuses
    BY ServiceParts DEF Statuses
  <1>4. service.installed \in SUBSET Technologies
    BY ServiceParts
  <1> QED BY <1>2, <1>3, <1>4, Zenon DEF View, Views

\* What the answers leave of the service
LEMMA ServiceUpdates ==
  ASSUME service \in ServiceStates
  PROVE  /\ \A session \in Settings, technology \in Technologies :
              [service EXCEPT !.session = session, !.technology = technology] \in ServiceStates
         /\ \A session \in Settings : [service EXCEPT !.session = session] \in ServiceStates
         /\ \A phase \in {"rest", "connecting", "failed"} :
              /\ [service EXCEPT !.phase = phase] \in ServiceStates
              /\ [service EXCEPT !.tunnel = None, !.phase = phase] \in ServiceStates
              /\ [service EXCEPT !.session = None, !.tunnel = None, !.phase = phase] \in ServiceStates
         /\ \A technology \in Technologies :
              [service EXCEPT !.phase = "connecting", !.tunnel = None,
                              !.technology = technology] \in ServiceStates
  <1>1. \A session \in Settings, technology \in Technologies :
           [service EXCEPT !.session = session, !.technology = technology] \in ServiceStates
    BY Zenon DEF ServiceStates
  <1>2. \A session \in Settings : [service EXCEPT !.session = session] \in ServiceStates
    BY Zenon DEF ServiceStates
  <1>3. \A phase \in {"rest", "connecting", "failed"} :
           [service EXCEPT !.phase = phase] \in ServiceStates
    BY Zenon DEF ServiceStates
  <1>4. \A phase \in {"rest", "connecting", "failed"} :
           [service EXCEPT !.tunnel = None, !.phase = phase] \in ServiceStates
    BY Zenon DEF ServiceStates
  <1>5. \A phase \in {"rest", "connecting", "failed"} :
           [service EXCEPT !.session = None, !.tunnel = None, !.phase = phase] \in ServiceStates
    BY Zenon DEF ServiceStates
  <1>6. \A technology \in Technologies :
           [service EXCEPT !.phase = "connecting", !.tunnel = None,
                           !.technology = technology] \in ServiceStates
    BY Zenon DEF ServiceStates
  <1> QED BY <1>1, <1>2, <1>3, <1>4, <1>5, <1>6

LEMMA FailsStep ==
  ASSUME Inv, NEW s \in Slots, AnswerFails(s)
  PROVE  Inv'
  <1>1. calls[s].phase # "free" /\ Answer(s, Failed) /\ Served /\ service' \in ServiceStates
    BY DEF AnswerFails, Asked, Inv
  <1> QED BY <1>1, AnswerIs DEF Answers

LEMMA StatusAnswerStep == ASSUME Inv, AnswerStatus PROVE Inv'
  <1>1. calls["status"].phase # "free" /\ Served /\ service' \in ServiceStates /\ "status" \in Slots
    BY DEF AnswerStatus, Asked, Inv, Slots, Loads, Operations
  <1>2. PICK authenticated \in BOOLEAN : /\ authenticated => service.session # None
                                         /\ Answer("status", View(authenticated))
    <2>1. SignedIn \in BOOLEAN /\ (SignedIn => service.session # None)
      BY DEF SignedIn
    <2>2. Answer("status", View(SignedIn)) \/ Answer("status", View(FALSE))
      BY DEF AnswerStatus
    <2> HIDE DEF SignedIn
    <2> QED BY <2>1, <2>2, Zenon
  <1>3. View(authenticated) \in Views
    BY <1>2, ViewIs DEF Inv
  <1> QED BY <1>1, <1>2, <1>3, AnswerIs DEF Answers

LEMMA SettingsAnswerStep ==
  ASSUME Inv, NEW s \in Loads, AnswerSettings(s)
  PROVE  Inv'
  <1>1. /\ calls[s].phase # "free" /\ Served /\ service' \in ServiceStates
        /\ s \in Slots /\ s # "status" /\ Answer(s, service.session)
    BY DEF AnswerSettings, Asked, Inv, Slots, Loads, Operations
  <1>2. service.session \in Answers
    BY ServiceParts DEF AnswerSettings, SignedIn, Inv, Answers
  <1> QED BY <1>1, <1>2, AnswerIs

LEMMA SaveAnswerStep == ASSUME Inv, AnswerSave PROVE Inv'
  <1> DEFINE ask == calls["save"].ask
             technology == IF service.tunnel = None /\ NoChange
                           THEN ask.technology ELSE service.technology
  <1>1. /\ calls["save"].phase # "free" /\ Served /\ Answer("save", "saved")
        /\ "save" \in Slots /\ "saved" \in Answers
    BY DEF AnswerSave, Asked, Slots, Loads, Operations, Answers
  <1>2. ask \in Settings
    BY <1>1, AppParts DEF Inv, Sound, AskInv
  <1>3. ask.technology \in Technologies
    BY <1>2, Zenon DEF Settings
  <1>4. technology \in Technologies
    BY <1>3, ServiceParts DEF Inv
  <1>5. service' = [service EXCEPT !.session = ask, !.technology = technology]
    BY Zenon DEF AnswerSave
  <1> HIDE DEF ask, technology
  <1>6. service' \in ServiceStates
    BY <1>2, <1>4, <1>5, ServiceUpdates DEF Inv
  <1> QED BY <1>1, <1>6, AnswerIs

LEMMA LogoutAnswerStep == ASSUME Inv, AnswerLogout PROVE Inv'
  <1> DEFINE phase == IF service.tunnel = None THEN service.phase ELSE "rest"
  <1>1. /\ calls["logout"].phase # "free" /\ Served /\ Answer("logout", "removed")
        /\ "logout" \in Slots /\ "removed" \in Answers
    BY DEF AnswerLogout, Asked, Slots, Loads, Operations, Answers
  <1>2. phase \in {"rest", "connecting", "failed"}
    BY ServiceParts DEF Inv
  <1>3. service' = [service EXCEPT !.session = None, !.tunnel = None, !.phase = phase]
    BY Zenon DEF AnswerLogout
  <1> HIDE DEF phase
  <1>4. service' \in ServiceStates
    BY <1>2, <1>3, ServiceUpdates DEF Inv
  <1> QED BY <1>1, <1>4, AnswerIs

LEMMA LoginAnswerStep == ASSUME Inv, AnswerLogin PROVE Inv'
  <1> DEFINE session == [technology |-> "nordlynx", autoConnect |-> FALSE]
  <1>1. /\ calls["operation"].phase # "free" /\ Served /\ Answer("operation", "user")
        /\ "operation" \in Slots /\ "user" \in Answers
    BY DEF AnswerLogin, Asked, Slots, Loads, Operations, Answers
  <1>2. session \in Settings
    BY DEF Settings, Technologies
  <1>3. service' = [service EXCEPT !.session = session]
    BY DEF AnswerLogin
  <1> HIDE DEF session
  <1>4. service' \in ServiceStates
    BY <1>2, <1>3, ServiceUpdates DEF Inv
  <1> QED BY <1>1, <1>4, AnswerIs

LEMMA DisconnectAnswerStep == ASSUME Inv, AnswerDisconnect PROVE Inv'
  <1>1. /\ calls["operation"].phase # "free" /\ Served /\ Answer("operation", "state")
        /\ "operation" \in Slots /\ "state" \in Answers
    BY DEF AnswerDisconnect, Asked, Slots, Loads, Operations, Answers
  <1>2. service' = [service EXCEPT !.tunnel = None, !.phase = "rest"]
    BY DEF AnswerDisconnect
  <1>3. service' \in ServiceStates
    BY <1>2, ServiceUpdates DEF Inv
  <1> QED BY <1>1, <1>3, AnswerIs

LEMMA BeginConnectStep ==
  ASSUME Inv, NEW s \in Operations, BeginConnect(s)
  PROVE  Inv'
  <1> DEFINE k == [calls[s] EXCEPT !.phase = "handling"]
  <1>1. calls[s].phase # "free" /\ Served /\ s \in Slots /\ s # "status"
    BY DEF BeginConnect, Asked, Operations, Slots, Loads
  <1>2. calls \in AllCalls /\ calls[s] \in Call
    BY <1>1, AppParts, Parts DEF Inv, Sound, AllCalls
  <1>3. calls' = [calls EXCEPT ![s] = k]
    BY <1>2, Zenon DEF BeginConnect
  <1>4. "handling" \in Phases
    BY DEF Phases
  <1>5. k \in Call
    BY <1>2, <1>4, Zenon DEF Call
  <1>6. k.phase = "handling" /\ k.ask = calls[s].ask
    BY <1>2, Zenon DEF Call
  <1>7. service.session.technology \in Technologies
    <2>1. service.session \in Settings
      BY ServiceParts DEF BeginConnect, SignedIn, Inv
    <2> QED BY <2>1, Zenon DEF Settings
  <1>8. service' \in ServiceStates
    BY <1>7, ServiceUpdates DEF Inv, BeginConnect
  <1> HIDE DEF k
  <1> QED BY <1>1, <1>3, <1>5, <1>6, <1>8, ServedStep

LEMMA EndConnectStep ==
  ASSUME Inv, NEW s \in Operations, EndConnect(s)
  PROVE  Inv'
  <1>1. calls[s].phase # "free" /\ Served /\ s \in Slots /\ s # "status"
    BY DEF EndConnect, Operations, Slots, Loads
  <1>2. "state" \in Answers /\ Failed \in Answers
    BY DEF Answers
  <1>3. service' \in ServiceStates
    <2>1. CASE service' = [service EXCEPT !.tunnel = service.technology, !.phase = "rest"]
      BY <2>1, ServiceParts, Zenon DEF Inv, ServiceStates
    <2>2. CASE service' = [service EXCEPT !.phase = "failed"]
      BY <2>2, ServiceUpdates DEF Inv
    <2> QED BY <2>1, <2>2 DEF EndConnect
  <1> QED BY <1>1, <1>2, <1>3, AnswerIs DEF EndConnect

LEMMA EnvironmentStep == ASSUME Inv, Environment PROVE Inv'
  <1>1. service' \in ServiceStates
    <2>1. CASE ServiceStops
      BY <2>1, Zenon DEF ServiceStops, Happens, Inv, ServiceStates
    <2>2. CASE ServiceStarts
      BY <2>2, Zenon DEF ServiceStarts, Happens, Inv, ServiceStates
    <2>3. CASE TunnelDrops
      BY <2>3, Zenon DEF TunnelDrops, Happens, Inv, ServiceStates
    <2>4. CASE EngineInstalled
      BY <2>4, Zenon DEF EngineInstalled, Happens, Inv, ServiceStates
    <2> QED BY <2>1, <2>2, <2>3, <2>4 DEF Environment
  <1>2. window' = window /\ calls' = calls /\ automatic' = automatic
    BY DEF Environment, ServiceStops, ServiceStarts, TunnelDrops, EngineInstalled, Happens
  <1> QED BY <1>1, <1>2 DEF Inv, App, AutoInv

-----------------------------------------------------------------------------
(* Theorems *)

LEMMA InitInv == ASSUME Init PROVE Inv
  <1>1. window \in Windows
    <2>1. <<>> \in Seq(Afterwards)
      OBVIOUS
    <2>2. /\ "unknown" \in Statuses /\ "nordlynx" \in Technologies
          /\ "login" \in Pages /\ "home" \in Rows
      BY DEF Statuses, Technologies, Pages, Rows
    <2> QED BY <2>1, <2>2, Zenon DEF Init, Windows
  <1>2. calls \in AllCalls
    BY CallTypes DEF Init, AllCalls, Asks
  <1>3. App \in Apps
    BY <1>1, <1>2, Zenon DEF App, Apps
  <1>4. PageInv(window) /\ ListInv(window) /\ AutoInv
    BY DEF Init, PageInv, ListInv, AutoInv
  <1>5. /\ calls["status"].phase = "queued" /\ calls["save"].phase = "free"
        /\ calls["operation"].phase = "free" /\ calls["automatic"].phase = "free"
        /\ window.busy = FALSE
    BY DEF Init, Slots, Loads, Operations, Queued, Free
  <1>6. service \in ServiceStates
    <2>1. PICK session \in Sessions :
             service = [up |-> TRUE, session |-> session, tunnel |-> None,
                        phase |-> "rest", installed |-> {"nordlynx"},
                        technology |-> "nordlynx"]
      BY DEF Init
    <2>2. session \in Settings \cup {None} /\ "nordlynx" \in Technologies
      BY MainWindowAssumption DEF Technologies
    <2> QED BY <2>1, <2>2, Zenon DEF ServiceStates
  <1> QED BY <1>3, <1>4, <1>5, <1>6, AppParts
      DEF Inv, Sound, AskInv, BusyInv, Taken, Operations

LEMMA NextInv == ASSUME Inv, [Next]_vars PROVE Inv'
  <1>1. CASE Replies
    BY <1>1, StatusStep, LocationsStep, SaveStep, LogoutStep, SettingsStep, OperationStep
    DEF Replies
  <1>2. CASE Services
    BY <1>2, FailsStep, StatusAnswerStep, SaveAnswerStep, LogoutAnswerStep, LoginAnswerStep,
       DisconnectAnswerStep, SettingsAnswerStep, BeginConnectStep, EndConnectStep
    DEF Services
  <1>3. CASE Users \/ Environment \/ Tick \/ CloseDialog
    BY <1>3, UsersStep, EnvironmentStep, TickStep, CloseStep
  <1>4. CASE UNCHANGED vars
    BY <1>4 DEF vars, history, Inv, App, AutoInv
  <1> QED BY <1>1, <1>2, <1>3, <1>4 DEF Next

LEMMA InvHolds == Spec => []Inv
  BY InitInv, NextInv, PTL DEF Spec

\* The window is on one of its pages, its calls are the ones it can make, and a
\* message box is followed by nothing, a refresh or a sign-out.
THEOREM WindowTypeCorrect == Spec => []TypeOK
  <1>1. Inv => TypeOK
    <2>1. ASSUME Inv PROVE window \in Windows /\ calls \in AllCalls
      BY <2>1, AppParts, Parts DEF Inv, Sound
    <2>2. ASSUME window \in Windows
          PROVE  /\ window.page \in Pages /\ window.row \in Rows /\ window.status \in Statuses
                 /\ window.technology \in Technologies
                 /\ window.locations \in Technologies \cup {None}
                 /\ window.rows \in Technologies \cup {None}
                 /\ window.dialogs \in Seq(Afterwards)
      BY <2>2, Zenon DEF Windows
    <2>3. calls \in AllCalls => DOMAIN calls = Slots
      BY DEF AllCalls
    <2> QED BY <2>1, <2>2, <2>3 DEF TypeOK, Rows, Statuses, Afterwards
  <1> QED BY InvHolds, <1>1, PTL

\* However clicks, double clicks, automatic connects and late replies follow
\* one another, the window is busy exactly while one operation of its is under
\* way: no second is begun, and the button never stays disabled without one.
THEOREM OneOperationAtATime == Spec => []OneOperation
  <1>1. Inv => OneOperation
    BY AppParts DEF Inv, BusyInv, OneOperation, Taken, Under
  <1> QED BY InvHolds, <1>1, PTL

\* A signed-out window, and no other, shows the sign-in page.
THEOREM OnlySignedOutAtLogin == Spec => []SignedOutShowsLogin
  <1>1. Inv => SignedOutShowsLogin
    BY AppParts DEF Inv, Sound, PageInv, SignedOutShowsLogin
  <1> QED BY InvHolds, <1>1, PTL

\* The list of locations, the rows the user can connect to, those a sign-out leaves in
\* the table too, and the location selected are of the technology selected, whatever
\* order lists, statuses and saves arrive in.
THEOREM ChoiceFollowsTechnology == Spec => []ChoiceIsCurrent
  <1>1. Inv => ChoiceIsCurrent
    BY AppParts DEF Inv, Sound, ListInv, ChoiceIsCurrent
  <1> QED BY InvHolds, <1>1, PTL

\* The window connects on its own at most once between two sign-outs.
THEOREM AutoConnectsOnce == Spec => []OneAutoConnect
  <1>1. Inv => OneAutoConnect
    BY DEF Inv, AutoInv, OneAutoConnect
  <1> QED BY InvHolds, <1>1, PTL
=============================================================================
