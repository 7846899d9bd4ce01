# A TLA+ development of OpenNord

OpenNord is an open-source NordVPN client for Windows. An unprivileged Qt window
(`OpenNord.exe`) asks a LocalSystem service (`OpenNordService.exe`) over a named
pipe to sign in, to choose a server and to bring one tunnel up or down, through
either the WireGuard tunnel service or an `openvpn.exe` child. This directory
models the parts of it whose correctness rests on the order in which threads,
processes, replies and failures interleave, and the conversions between a user's
settings and the tunnel's configuration; checks them with TLC on small instances,
and proves the central invariants with TLAPS for every instance.

Paths are relative to the repository root, which is `src/` in `PROJECT.json`;
`VpnController.cpp:150` is a line of `src/service/VpnController.cpp`.

## Inventory

| Part | State | Operations | What is hard | What makes it correct |
|---|---|---|---|---|
| `VpnController` (service) | `state_` (status, technology, server, error), `connectionOwnerSid_` and its file `active-owner`, `serverCache_`, `mutex_`, `operationMutex_` | `status`, `login`, `logout`, `servers`, `locations`, `connect` / `connectLocation` / `quickConnect`, `disconnect`, `account`, `settings`, `saveSettings`, `diagnostics`, the constructor, `shutdown` | One worker thread per request. `connect` and `disconnect` exclude each other for up to a minute; everything else runs beside them. Crash and restart while the WireGuard service lives on. Every step may fail | The owner at rest is the user of the tunnel that is up; one engine at a time; no user takes over or sees another's connection; signing out leaves nothing; no path leaves the status changing |
| `OpenVpnTunnel` (service) | `process_`, `job_`, `managementThread_`, `startupComplete_` / `startupError_`, `tunnelConnected_`, the profile and password files | `connect`, `disconnect`, `running`, `connected`, `managementLoop`, `completeStartup` | A thread per launch that outlives its process; a startup with a time limit; three ways to stop a process | One process at most; a connect that fails leaves no process and has deleted its secrets; `connected()` is about the process that runs now; no lost process keeps running |
| `WireGuardTunnel` (service) | The Windows service `WireGuardTunnel$OpenNord`, the configuration file | `connect`, `disconnect`, `connected`, `serviceExists`, `ready` | The tunnel service starts, stops and survives on its own; `wireguard.exe` may vanish or time out | A failed connect rolls back; a successful disconnect means no service |
| `NamedPipeServer` (service) | `running_`, `acceptThread_`, `clients_`, `clientsMutex_`, up to 16 pipe instances | `start`, `stop`, `acceptLoop`, `serveClient` | The listener is handed over before each request is served; stop must wake a blocked accept and cancel blocked reads | No instance leaks; stop returns and leaves no worker |
| `WindowsService`, `ServiceMain` | SCM state, `stopEvent` | `install`, `uninstall`, `start`, `stop`, `restart`, `serviceMain`, `controlHandler` | Polling with time limits against a service that may take longer to stop | Stopped means released; a restart that succeeds has seen the old process let go of pipe and tunnel; a failed service comes back |
| `SecureStore`, `windows/Security` | One encrypted session file per SID; private files | `load`, `save`, `remove`, `writePrivateFile` | A reader and a writer of one file, a crash before the rename | A file is whole or absent; a temporary file outlives its writer only by a crash or a failed deletion; saves, loads and removals are atomic |
| `NordApiClient`, `ResponseVerifier` | None | Credentials, user, servers, locations, profiles; signature checks | The order of the checks of a response | Nothing unverified is used; a token is called invalid for its form or on Nord's own refusal |
| `Protocol`, `Models`, `OpenVpnConfig`, `WireGuardConfig` | None | Framing, JSON conversion, profile filter, configuration text | Boundaries: partial frames, zero and oversized lengths, inline blocks | Settings survive their JSON; no stripped directive survives; the configuration is that of the settings |
| `RpcClient` (GUI) | `nextId_`, `autoStartService_` | `call`, `ensureServiceRunning` | Calls on pool threads, a retry, an auto-start that races with a stop | Each call is answered; a change is handled at most once; a stopped service stays stopped |
| `MainWindow` (GUI) | `authenticated_`, `busy_`, `connectionStatus_`, `statusInFlight_`, `locationsInFlight_`, `autoConnectAttempted_`, pages | One-second status poll, sign-in, connect, settings, sign-out, tray commands | Replies arrive late and out of order with the user's actions | One operation at a time; one automatic connect per sign-in; what is shown comes to be what is |
| `GraphiteMap`, `FlagIcons`, theme and layout, `Logging`, installer, scripts | Pixels, log lines, packages | | None that the system depends on | Not modelled |

How they interact: the GUI calls the service through a pipe, one connection per
request; `serveClient` runs `VpnController::handle` on the thread of that
connection and turns every exception into a reply; the controller calls the two
tunnels and the store directly; the tunnels call Windows (SCM, processes, job
objects); the SCM starts and stops the service, whose `ServiceMain` thread runs
`NamedPipeServer::stop` and then `VpnController::shutdown`.

## The modules

| Module | Models | Notes |
|---|---|---|
| `Controller` | `VpnController`, the worker threads, `ServiceMain`, the store, the owner file and both engines as the controller sees them | The core of the project |
| `ControllerMC` | Its instances: model values and the symmetry of users and workers | Safety runs only use the symmetry |
| `ControllerProofs`, `ControllerTunnelProofs` | Types, the lock, the server, the owner on disk, the status, sessions; the engines, whose they are and when a logout ends them | TLAPS, the second on the first |
| `OpenVpnTunnel` | `OpenVpnTunnel`, its process and the management thread of each launch | One call at a time, as `operationMutex_` has it |
| `Engine` | The contract of an engine that `Controller` relies on | The abstract specification `OpenVpnTunnel` implements |
| `OpenVpnTunnelMC`, `OpenVpnTunnelProofs` | Its instances; types, one process, failures terminate, whom a success and a kill are about, the refinement of `Engine` | TLAPS |
| `NamedPipeServer` | `NamedPipeServer`: `start`, `stop`, the accept loop, the workers, the instances of the pipe; the pipe's side of `RpcClient::callBlocking` | What a worker does in `handle` is `Controller` |
| `NamedPipeMC`, `NamedPipeProofs` | Its instance; its invariants and `HandledIsAnswered` | TLAPS |
| `WindowsService` | The SCM's entry and state, `ServiceMain`, the command lines | Operators and actions, composed by `RpcClient` |
| `RpcClient` | `call`, `callBlocking`, `ensureServiceRunning`, the tray's commands | EXTENDS `WindowsService` |
| `RpcClientMC`, `RpcClientProofs` | Its instances; its safety | TLAPS |
| `PrivateFiles` | `SecureStore` and `writePrivateFile`, call by call | Composed by `WireGuardTunnel` |
| `AtomicStore` | What the users of `SecureStore` may count on | The abstract specification it implements |
| `WireGuardTunnel` | `WireGuardTunnel`, the tunnel service, the configuration as a private file, beside the workers of `SecureStore` | EXTENDS `PrivateFiles` |
| `WireGuardMC`, `WireGuardProofs` | Its instance; its safety and the refinement of `AtomicStore` | TLAPS |
| `MainWindow` | `MainWindow`: members, calls under way, message boxes; the service as the window can tell | |
| `MainWindowMC`, `MainWindowProofs` | Its instance; its types and safety | TLAPS |
| `NordApi` | How a GET ends and what its body gives | Operators |
| `OpenVpnConfig` | The filter of the OpenVPN profile, and OpenVPN's own reader beside it | Operators |
| `Preparation` | From a request over the replies it rests on to a configuration | EXTENDS both |
| `PreparationMC`, `PreparationProofs` | Its instance; its safety, and the filter for every profile | TLAPS |

### Controller

A thread is a worker that serves one request or `Main`, which runs `ServiceMain`.
`pc[t]` is its place in the handler and `method[t]`, `who[t]`, `session[t]`,
`list[t]` are the locals of the call: the method, the SID, the `Session` it loaded
and, for a connect, the technology its server list was asked for. Everything one
handler does between two points at which another thread can see or change shared
state is one action. The points are: acquiring and releasing `operationMutex_`, each
critical section of `mutex_`, each access to a file, and each call of a tunnel. So
`connect` is `ConnectBegin` (lock, `requireSession`), `ConnectRefuse` or
`ConnectAdmit` (the critical section at 195), `ConnectSelect` or `ConnectApiFails`,
`ConnectSwitch` (stop the other engine), `ConnectLaunch`, `ConnectUp` or
`ConnectTimesOut`, `ConnectPersist`, `ConnectUndo`, `ConnectCommit`; `Fail` is
`setFailure` and the return; `ConnectThrow` is an exception that reaches
`serveClient`. `logout` calls the same `Disconnect` actions a `disconnect` runs, and
`shutdown` runs them with `force`.

Data is abstracted to what a property can tell apart: a session is a token and
the technology of its settings; a server is the user whose connect selected it;
a server list is the technology it was recommended for; an error message, a DNS
address or a key is nothing at all. An API call answers or fails. The engines
are environment: the tunnel service moves through `pending`, `running`,
`stopped`, and `openvpn.exe` connects, reconnects and exits on its own.

`Faults` says what may go wrong beside refusals, which always may: `crash` (the
service dies; `openvpn.exe` dies with its job object, the tunnel service lives
on; the SCM restarts the service), `reboot`, `throw`, `stopFails` (an engine
survives its stop, visibly), `fileFails` (a file cannot be read, written or
removed). Nothing limits the requests of a user but the workers there are: the
window may send a sign-out or a save beside a connect, and a user may have
several windows. What only two requests of one user can break is named by an
operator: `SaveMeetsLogout` (a `logout` is about to remove the session a
`saveSettings` of its user has loaded). So is what only a crash, a loss of
power or a stop that failed can bring: `PassesStarting` (a connect with OpenVPN passes a tunnel service in START_PENDING).

### OpenVpnTunnel and Engine

Calls never overlap, since every caller holds `operationMutex_`; the caller, the
process and the management threads do. Launches are numbered, and `process`,
`manager` hold the launch that `process_` and `managementThread_` belong to.
Each thread has its place (`connecting`, `serving`, `complete`, `leave`,
`check`, `kill`, `ended`), the line it has yet to read and the result with which
it is about to complete the startup; `completeStartup`, the scope guard that
clears `tunnelConnected_`, the test of the stop token and the `TerminateProcess`
are separate steps, as other threads run between them. A line of the channel
means `CONNECTED,SUCCESS`, another `>STATE`, or the end of the session. The two
writes of the constructor of `std::jthread` into `managementThread_`
(OpenVpnTunnel.cpp:119) are modelled as C++ has them: the new thread starts,
then the assignment stops and joins the old one.

A management thread takes up to 300 ms to notice that its process is gone, and
nothing in `connect` waits for it before the next process is launched. So threads of
two launches may run side by side, in every run. `late` is the launch whose thread
had not ended at the last launch; it is only read by the properties, which bound
what such a thread may do: it may complete the next startup or terminate the next
process (OpenVpnTunnel.cpp:119, 214), and no later one. `Kill` is that
`TerminateProcess`, whose result the code ignores: with `unkillable` among the
faults it may do nothing, and `spared` remembers it. `files` are the profile and the
password until their removal is tried: `cleanupFiles` ignores a `QFile::remove` that
fails (317-321). A process that was created but never resumed counts as not
launched.

`Engine` sees the tunnel through `running()` and `connected()` alone: absent,
running, connected, unmanaged after a stop that failed, or fading: there is no process
any more, but `tunnelConnected_` is still set and a thread is still there. A launch out of
`fading` may be connected at once, by the flag of its predecessor
(OpenVpnTunnel.cpp:68); any other connection appears only after a launch was seen
running, and an unmanaged process never connects again. The refinement mapping
reads `engine` off `process`, `alive`, `connected`, `manager` and the places of the
threads. `Controller`'s own `openVpn.state` has these values but for `fading`, which
it could only tell from `absent` at the next launch, and there it lets the process
connect as soon as it has been launched.

### NamedPipeServer

`main` is the place of `ServiceMain`, `accept` that of the accept thread with the
instance it holds in `listener`, `worker[c]` that of the worker that serves the
client `c` on the instance `serves[c]`. An instance is `free` (not created),
`listening`, `attached` to the client `peer`, `closed` by that client, or
`disconnected` until the next `ConnectNamedPipe`. The steps lie between the
tests of `running_`, the calls of Windows that block, the critical section of
`clientsMutex_`, and the end of a thread; `AcceptServe` is the whole critical
section. `toRead` and `toFlush` are the points just before a blocking call,
where `CancelSynchronousIo` has no effect. A client may leave at any point, and
the bytes it has sent stay readable. What Windows promises of pipes is an
assumption of this module: it is stated at its head.

### WindowsService and RpcClient

`scm` is what the SCM keeps of OpenNord: whether there is an entry, what
`configureRecovery` has left in it, the state, the process (`pid`) and whether a
recovery action is due. A process is `starting`, `serving`, `stopping` (the control
handler has set the event), `closing` (the server is down, the controller shuts
down), `leaving` (it has published `SERVICE_STOPPED`, or failed to start, and has
yet to destroy its server and its controller and to exit) or `gone`.
`SERVICE_STOPPED` is all that a command waits for, so a setup that removes the files
next may still find the process there (WindowsService.cpp:117, ServiceMain.cpp:39,
49). A process is `eventless` where its stop event could not be created: line 102
reads the error after a log call that may have replaced it, and the SCM may then
take the end for a clean one. A command (`install`, `uninstall`, `start`, `stop`,
`restart`) is a run of the executable with its place between two calls of the SCM; a
wait with a limit ends with the state it waits for, or without it. `found` is the
process it saw, `began` the last process there was when it began: both are only read
by properties. `--console` (`ConsoleRuns`) owns the pipe outside the SCM.

A call has the places of `callBlocking`: `check`, `pending`, `start`, `launched`
(the parts of `ensureServiceRunning`), `wait` for the pipe, `opened`, `trusted`
(after `isRegisteredServicePipe`), `sent`, `handled`. `allow` is `autoStartService_`
as `call()` read it on the GUI thread, which the tray may have flipped since.
`ConnectionFails` is the one repeat of a status call. The server may drop a
connection at any time before the answer, in `stop()`, at its capacity or by an
error of the pipe. The process at the other end is `peer`, so that a process that
has been replaced, or a console, is told from the one the call identified.

### PrivateFiles, AtomicStore and WireGuardTunnel

A path holds nothing, a value, or `Torn`. The steps of a call of `SecureStore` are
the calls of the system: create, write, flush, rename, close; exists, open, read;
exists, delete. A reader shares neither replacing nor deleting, a writer nothing, so
one call makes another one fail. The removal of the temporary file may fail too,
unnoticed (Security.cpp:128-131); `litter` says that this, or a crash, has left one
behind. A crash closes every handle and may leave a temporary file; a loss of power
also loses what was not flushed. The tunnel is one of the threads: its configuration
is a private file, written and removed through the same steps, and `tunnel.at` is
where `connect` or `disconnect` is between them. `cause` says for whom `disconnect`
runs: the user, the replacement of an older tunnel, or a rollback. `blind` records
that a check missed a service that is there, which the code allows (`serviceExists`
and `ready`, when the SCM or `wireguard.exe` cannot be opened).

`AtomicStore` has one value, and calls that take effect at one moment. The mapping
(`Sessions`) hides the tunnel and the temporary files: a save takes effect as it
renames, a load as it opens the file, a removal as it returns.

### MainWindow

`window` has the members of the class that decide anything; `calls` has a slot per
future, queued, answered or being handled, and its reply, which may be delivered
at any time after. Methods are operators on a pair of both (`App`), composed as
the code calls them: `RowChanged` within `SetRow` within `SignedOut`
within `ApplyStatus`. A message box runs an event loop of its own: `dialogs` is the stack of
open boxes with what their handler does afterwards; while there is one, the user
can do nothing else, but the timer and the replies go on. `service` is what the
window can tell of the service, of which `Controller` is the full model;
`automatic` counts the automatic connects since the window last showed signed out.
`rows` are the rows of `serverTable_`: a sign-out drops `locations_` and leaves them, so
that a user who signs in again may connect to one when the new list fails to load
(MainWindow.cpp:614, 802). That takes four clicks, beyond the run; the theorem
`ChoiceFollowsTechnology` is about any number. The search field is left out, and the model
has two loads of the settings under way at a time (`RoomToLoad`); the code has no limit.

### NordApi, OpenVpnConfig and Preparation

A reply of the network is a record of what a verifier can find in it. `ErrorOf` is
what `getUrlOnQtThread` makes of it, in its order; `Truth` is what it really is:
Nord's word, Nord's refusal (a 401 or a 403 that it signed), or neither. A token is
of the form `login` asks for or not; one that is not is refused with nothing asked
of Nord. `Preparation` runs `login`, `logout`, `saveSettings`, `servers` and the
three connects of one user from request to reply to configuration, with any reply at
each step. `told`, `sound` are ghosts: what the user was last told is saved, and
whether all that was used so far is Nord's word. Settings go to JSON and back by
`SettingsToJson` and `SettingsFromJson`, with defaults for what is absent.

`OpenVpnConfig` reads a profile twice: as the filter does (`ReadProfile`) and as
OpenVPN does (`OpenVpnReads`, from its documented syntax), since what matters is
that the two agree. Both are recursive functions over the lines, so that the proofs can
follow them. A line is what its trimmed text is: an opening or closing tag
with its case, a directive with its dashes or quotes, or a comment.

## The runs

| Run | Instance | Shows |
|---|---|---|
| `controller_safe` | 2 users, 2 workers, `connect`, `login`, `saveSettings`, `disconnect`, file errors, service stop and start; 1.7 million states | `OwnerTracksTunnel`, `OneEngine`, `TechnologyAgrees`, `ChangeHoldsLock`, `NoTakeover` |
| `controller_faults` | 2 users, 2 workers, every fault; 378,000 states | `ServerIsPrivate` and `OwnerPersisted` survive crashes, power loss, exceptions and engines that do not stop |
| `controller_account` | 2 users, 2 workers, `login`, `logout`, `servers`, `quickConnect`, file errors, fairness; 416,000 states | `LogoutLeavesNoTunnel`, and every service stop ends (`StopCompletes`) |
| `controller_logout_race` | 1 user, 2 workers | A finding: `connect` beside `logout` leaves a tunnel up |
| `openvpn_safe` | 2 launches, every fault, fairness; 155,000 states | `OneProcess`, `FailureTerminates`, `CallReturns`, `LostProcessEnds` |
| `openvpn_reports` | 3 launches, every fault; 4.8 million states | `SuccessMeansConnected`, `KillsItsOwn` and the refinement of `Engine` (`EngineSpec`) |
| `named_pipe` | 3 clients that come again and again, 2 instances, fairness; 164,000 states | `NoInstanceLeaks`, `StopIsClean`, `HandledIsAnswered`, `CallEnds`, `StopReturns` |
| `service_control` | 1 command and 1 call, repeated, 3 launches, every fault, fairness; 487,000 states | `StoppedMeansReleased`, `CommandsTellTheTruth`, `AtMostOnce`, `CallsAnswered`, `ComesBack` |
| `service_stop_undone` | 1 command, 1 call, no fault | A finding: a call queued before the tray's stop starts the service again |
| `files` | 2 workers and the tunnel, 2 values, 2 calls of the store, 2 of the tunnel, every fault; 712,000 states | `OnlyWholeFiles`, `ResultIsTrue`, `ServiceHasItsFile` and the refinement of `AtomicStore` (`StoreIsAtomic`) |
| `main_window` | 2 clicks or events, 1 message box, 3 sessions to start with, service stops, fairness; 140,000 states | `OneOperation`, `SignedOutShowsLogin`, `ChoiceIsCurrent`, `OneAutoConnect`, `StatusConverges` |
| `preparation` | 8 settings requests, 5 server bodies, every reply, a token of either form, profiles of up to 3 lines and of up to 4 whole blocks; 35,000 states | `RestsOnNordsWord`, `SettingsSurvive`, `FollowsSettings`, `ProfileIsFiltered`, `RejectionIsNords` |

Bounds, and why they suffice. Two users are what ownership is about: the owner and
the other. Two workers, beside `Main`, let any handler run beside any other; a third
only repeats one of them, as nothing counts workers. One token: no property compares
tokens. Two launches of OpenVPN are what overlaps; the third shows that nothing of
the first reaches beyond the second. With two instances and three clients the pipe
is at its capacity with one client served, which the sixteen of the code are with
fifteen, and a client is refused while others are served. One command and one call
of `RpcClient` meet every state of the service between them; the theorems are about
any number of both. Three launches are the process a restart ends, the one it
starts, and one that recovery or a call starts beside it. Two calls of the store are
what can interfere, two of the tunnel are a connect over what the one before has
left; two values tell an old one from a new one. Replies come without a bound in
`MainWindow`, which two clicks start in any order the window allows: it starts with
a session or without, so that two are enough for an operation and a change of
settings, page or session beside it. A profile of three arbitrary lines opens, fills
and closes a block in every wrong order; the profiles of whole blocks nest and
repeat them. The theorems below remove the bounds from the properties they are
about.

`OwnerTracksTunnel`, `OneEngine`, `TechnologyAgrees`, `NoTakeover` and
`LogoutLeavesNoTunnel` are checked without `crash`, `reboot`, `throw` and
`stopFails`: with them they do not all hold, see the findings; a tunnel whose
uninstall failed while it was starting may still come up, after connect reported the
failure. `ChangeHoldsLock` is checked without `throw`: an exception inside `connect`
leaves the status `Connecting`, and every later connect is refused as busy until a
disconnect; nothing past that line is known to throw, and nothing but that keeps it
from happening. `OnlyWholeFiles` lets a temporary file outlive its writer by a crash
or by a deletion that Windows refuses: the code removes none later.
`CommandsTellTheTruth` is about the pipe and the tunnel of a process, not about its
exit, and about commands that succeed: `restart` gives up after 15 seconds on a stop
that takes longer, and the service then stays stopped (WindowsService.cpp:284).
`ComesBack` excepts a process without its stop event. `ResultIsTrue` and
`ServiceHasItsFile` except the states in which a check has missed the tunnel service
(`blind`): `disconnect` then reports a success it has not checked
(WireGuardTunnel.cpp:107).

Deadlock is checked in every run but two, whose instances come to an end: `files`,
where the calls are used up, and `service_stop_undone`, where the only command is.

Fairness. `FairSpec` of `Controller` is weak fairness of each thread's handler and
of the stop of the service: Windows schedules threads, and every blocking call
inside a handler has a time limit (API requests, the 12 s poll and 20 s processes of
WireGuard, the 45 s startup and 10 + 3 + 3 s stop of OpenVPN). Requests, engines and
faults are not fair. A lock is taken when it is free; no fairness between waiters is
assumed, and the liveness properties are about the holder and about `Main`, which
waits only for workers that were accepted before the stop. `FairSpec` of
`OpenVpnTunnel` is weak fairness of the caller and of each management thread, whose
waits are bounded too (500 ms, 300 ms, 1 s); the process owes nothing. `FairSpec` of
`NamedPipeServer` is weak fairness of the three kinds of threads and of a client
that is connected: it sends, reads, and closes when it is answered or cut off, as
`callBlocking` does without waiting for anyone else. Nobody has to connect.
`FairSpec` of `RpcClient` is weak fairness of the pool threads, of the commands, of
the processes of the service and of the SCM acting on what is due; every wait in
them has a limit. Users, the administrator, crashes and `--console` promise nothing.
`FairSpec` of `MainWindow` is weak fairness of the timer, of the delivery of a
reply, each load of the settings included, of an answer to each call, each of which
`RpcClient` ends, and of a message box being closed, which the user must do; nobody
has to click otherwise, and `StatusConverges` speaks of a service that has come to
rest.

`StopReturns` has an exception the code has: a stop wakes the accept thread by
opening the pipe (NamedPipeServer.cpp:87), and if that thread has disconnected a
client and is on its way into `ConnectNamedPipe` with the only free instance,
there is nothing to open and the join at line 88 waits for the next client. The
status poll of an open window is one, every second; without a window none need
come. Nor does a stop return before a client that has not sent or not read, if
its worker is just before the blocking call when it is cancelled.

## The proofs

`tlapm` checks every theorem from nothing; no step is omitted.

* `ControllerProofs!TypeCorrect`: `Spec => []TypeOK` for any users, workers,
  methods and faults. `TypeOK` is not inductive alone: it also says that a worker
  in a handler has a user and past `requireSession` a session.
* `ControllerProofs`, beside it. The invariant is built in layers on `Base`, which is
  `TypeOK` and `LockInv`: the holder of `operationMutex_`, and no other thread,
  is at a place inside `connect` or `disconnect`. Its own statement is
  `OperationsExclude`. On top of it, each with the part that makes it
  inductive: `ServerStaysPrivate` (while no operation is about to replace it, a
  server shown belongs to the owner), `OwnerIsPersisted` (inside an operation
  the place tells whether the file or the memory is ahead), and `StatusSettles`
  (each place fixes the possible statuses). The last assumes that no handler
  throws; the others hold under every fault. `OnlyLoginSignsIn` is
  `SessionOnlyByLogin \/ <>SaveMeetsLogout`, under every fault: until a `logout` meets a
  `saveSettings` of its user, the session a `saveSettings` has loaded is still in the
  store when it writes (`SaveInv`), so that a session comes only by signing in.
* `ControllerTunnelProofs`: `OwnerTracksTheTunnel`, `OneEngineAtATime`,
  `TechnologyIsTheEngines`, `NobodyTakesOver` and `LogoutEndsTheTunnel`, for any users
  and workers. `OneEngineAtATime` is `[]OneEngine \/ <>PassesStarting`, under every
  fault: whatever crashes, loses power or cannot be stopped, only a connect with OpenVPN that
  passes a tunnel service in START_PENDING brings the two engines together. Its invariant
  (`PairInv`) says so of a service that is starting as well, and that a connect about to
  launch one engine has seen that the other is not there. The other four are about
  files that fail and nothing else (`Faults \subseteq {"fileFails"}`). `OwnerTracksTunnel`
  says nothing while an operation runs, so the inductive invariant says for each
  place of the lock holder which engine may be live and for whom: before the
  launch what is live is the owner's and the caller's, from the launch to the end
  the caller's alone and of its technology alone, after each half of a disconnect
  one engine less, and the main thread leaves nothing. An engine that is starting
  counts as live, as it carries traffic without a step of the controller. A step
  of the lock holder is shown to keep the invariant as that thread sees it
  (`Local`); no other thread is inside an operation then, so that it is the whole.
  `LogoutEndsTheTunnel` follows from that invariant: a logout that turns to the session
  has seen another owner or has just ended the tunnel, and a tunnel whose owner is
  not recorded yet is that of the connect which holds the lock.
* `OpenVpnTunnelProofs`: `OpenVpnTypeCorrect`, `OneProcessAtMost` and
  `FailuresTerminate` for any number of launches, any faults, and with
  overlapping threads. The strengthening says that no process runs between the
  stop of the old one and the launch of the next, that a launch is left
  whenever one is ahead, and that a thread completes the startup only with a
  result. `SuccessIsConnected`, `ThreadsKillTheirOwn` and `OpenVpnIsAnEngine` rest on a
  second layer, `OverlapInv`: `process` is none or of the last launch, threads beyond the last
  launch do not exist, a thread with work left is that of `managementThread_` or is about to
  become it, `managementThread_` holds the thread of another process only between a launch
  and its assignment, and then that thread has ended or is `late`; and a startup that
  succeeded was read from the process at hand or from the late one. The
  refinement maps states: no process running is an absent engine, or a fading one while
  `tunnelConnected_` and some thread outlive it, a process whose thread has ended and
  has no successor is unmanaged, and any other is connected or running as
  `tunnelConnected_` says.
* `NamedPipeProofs`: `PipeTypeCorrect`, `PipeIsKept`, `InstancesAreHeld`,
  `StopLeavesNothing` and `RepliesAreRead` for any number of clients and
  instances. The strengthening says which phase of the stop goes with which
  place of the accept thread, that a client is at the end of one instance at
  most, that a live worker serves its client's instance and never the
  listener, and that an unread reply is in the hands of the worker that wrote it.
* `RpcClientProofs`: `ReleasedWhenStopped`, `CommandsAreTruthful`,
  `HandledAtMostOnce`, `OnlySentToTheService` and `RpcTypeCorrect`, for any number of commands,
  calls and processes and all faults. The strengthening ties the state of the SCM
  to the place of its process and says every other process is unborn, or leaving or gone,
  that a command past its stop has the process it found behind it, and that the
  times a call was handled follow from its place and its one repeat.
* `WireGuardProofs`: `FilesAreWhole`, `ResultsAreTrue`, `TunnelHasItsFile`,
  `WireGuardTypeCorrect`, and `SessionsAreAtomic`: `SecureStore` implements
  `AtomicStore`. For any threads, paths, values and faults. The strengthening has
  two layers. `Files` says of a thread at work what its temporary file holds and
  which handles are its own; `Operation` says of each place of `connect` and
  `disconnect` what is left of the service and of its file. The refinement is a
  step simulation from `Files`: a rename and an open map to `Take`, a removal's
  return and the end of a call to `Succeed` or `Fail`, a crash to `Crash`, and
  every other step, the tunnel's among them, to a stutter.
* `MainWindowProofs`: `WindowTypeCorrect`, `OneOperationAtATime`, `OnlySignedOutAtLogin`,
  `ChoiceFollowsTechnology` and `AutoConnectsOnce`, for any number of clicks, message
  boxes and events. The methods are operators from window to window, so each has a
  lemma: `Sound` (types, page, list and selection, what a status may answer and a
  save may ask) survives it, and it leaves the operations (`Keeps`) or who is signed
  in to the status alone (`Follows`). A handler is the chain of its methods' lemmas.
  The strengthening beside `Sound` is that an automatic connect is remembered by
  `attempted` as long as it counts.
* `PreparationProofs`: `OnlyNordsWord`, `SettingsReadBack`, `ConfigurationFollows`,
  `InvalidTokenIsNords` and `ProfileIsReadAsMeant`, for every catalog, server list,
  profile and place, and every request. The strengthening says that the session file
  holds the settings the user was told of and that they are usable, that a list in the
  cache was Nord's word when it came, and that an operation under way works with the
  settings in force: nothing changes them before it ends. `ProfileIsReadAsMeant`
  is an induction over the lines of a profile. `Agree` relates the filter, OpenVPN's
  reader of the profile and its reader of what the filter has written: all three are
  outside of a block, or the filter and the reader of the profile are in a block that
  is dropped, or all three are in the same block with the same text; and the items of
  the output are those of the profile that stay. `LineAgrees` keeps that line by line;
  the service's directives are then read one by one (`OwnIsRead`). What a recursion
  computes is had from two lemmas, `RecursionExists` and `RecursionUnique`.
  The induction is about a set of numbers (`NaturalsFrom0`), since the library's induction
  theorems are about a predicate, which the provers cannot instantiate.

The only assumptions are the named ones on the constants (`ControllerAssumption`,
`OpenVpnAssumption`, `NamedPipeAssumption`, `WindowsAssumption`, `CallsAssumption`,
`FilesAssumption`, `TunnelAssumption`, `MainWindowAssumption`, `PreparationAssumption`,
`OpenVpnConfigAssumption`): that special values differ and that sets
are of the right kind. `PreparationAssumption` says that the name servers of a
request are a list (`Settings::fromJson` makes one of whatever it is given) and that
a profile is a sequence of the kinds of lines listed. TLC evaluates them on every run.

Where a theorem says less than the name of its property, it says so in its statement.
`OnlyLoginSignsIn` and `OneEngineAtATime` have an alternative, the one state from which the code
goes wrong (`<>SaveMeetsLogout`, `<>PassesStarting`), and no other hypothesis.
`OwnerTracksTheTunnel`, `TechnologyIsTheEngines`, `NobodyTakesOver` and
`LogoutEndsTheTunnel` assume that nothing but files fails, and `StatusSettles` that no
handler throws: with a crash, a loss of power, an engine that cannot be stopped or
an exception these do not all hold, as the findings and the bounds say.

Every safety property of a passing run, and both refinements, are theorems. Only
model-checked are the liveness properties (`CallReturns`, `LostProcessEnds`,
`StopCompletes`, `CallEnds`, `StopReturns`, `CallsAnswered`, `ComesBack`,
`StatusConverges`): fairness and `ENABLED` are outside the prover's reach.

## Findings

Two runs expect a violation; `PROJECT.json` quotes what the code's dialogs say.

* `controller_logout_race`: `logout` decides once whether the caller owns the
  connection (VpnController.cpp:148) and holds no lock from there to the removal
  of the session: a `connect` of the same user in between stays up without a session.
* `service_stop_undone`: `autoStartService_` is read when a call is queued
  (RpcClient.cpp:227). The tray's stop clears it, the service stops, and the call
  that was queued before starts the service again.

More was found on the way, each reproduced by changing one line of a configuration or of a property:

* `SessionOnlyByLogin` with `saveSettings` and `logout` of one user on two workers:
  `saveSettings` writes back the session a `logout` has removed since
  (VpnController.cpp:359). `OnlyLoginSignsIn` shows that this meeting is the only way to it.
* `OwnerTracksTunnel` with `crash` among the faults: a crash after the tunnel service is up and
  before the owner is on disk leaves a tunnel that nobody owns (VpnController.cpp:282).
* `RestartKeepsOwner` with `reboot`: the constructor takes a tunnel service that is
  still starting for none, and deletes its owner (VpnController.cpp:48);
  `OneEngine` with `reboot`: a connect with OpenVPN then starts beside it
  (VpnController.cpp:270). `OneEngineAtATime` shows that this is the only way to two engines.
* `SuccessMeansConnected` and `KillsItsOwn` without their `late` alternatives: the
  management thread of a process that has just died completes the startup of the next
  one, or terminates it (OpenVpnTunnel.cpp:119, 214).

And some that no property is about: a settings reply after a sign-out may still connect
automatically, which the service refuses for want of a session (MainWindow.cpp:1064-1068);
when an engine appears, the dependency page
gives way to the home page while the navigation may still stand on Locations
(MainWindow.cpp:815); the filter ends a kept block at a closing tag in any case,
OpenVPN only at the case of the opening one (OpenVpnConfig.cpp:89, 84), so that
`ProfileIsFiltered` is about tags in lower case; quick connect picks any server of
the list, one without a WireGuard key included, and then fails
(VpnController.cpp:253); a transfer cut off after its status line is reported as a
failed verification, not as a network failure (NordApiClient.cpp:83).

## The plan

The order was: the controller and its engines, the pipe, then the files, the
window, the commands with the calls, and the preparation of a configuration. All
of these are modelled, and their safety is proved. What a next step would model:
`Controller` over `AtomicStore` and `Engine` instead of its own variables for them, so
that their faults compose. What it would prove: that composition, from the two
refinements there are, and the tunnel's properties with a crash among the faults,
restricted to the states in which they still hold.

## Not modelled, and why

DPAPI, ACLs, impersonation and signatures: calls of Windows and OpenSSL whose result
is success or failure here. The length prefix of a frame (`Protocol.cpp`):
arithmetic on one buffer that both sides do alike. Painting, layout, theme, icons,
search and the account page: no state the system depends on. `Logging`: output.
Build, installer, scripts and tests: no part of the running system. Time: every time
limit is a step that may happen whenever what it waits for has not.
