--------------------------- MODULE WireGuardTunnel ---------------------------
(***************************************************************************)
(* WireGuardTunnel: connect and disconnect, which the operation lock of     *)
(* VpnController keeps apart, the tunnel service that wireguard.exe installs *)
(* and removes, and the configuration with the private key, a private file. *)
(* The workers of SecureStore run beside it.                                *)
(*                                                                         *)
(* WireGuard's part: an install creates the service, which then starts, or  *)
(* fails or is cut off with the service there or not; it refuses a tunnel   *)
(* that exists; a removal ends the service or fails.                        *)
(***************************************************************************)
EXTENDS PrivateFiles

CONSTANTS
    Tunnel,         \* the thread that holds the operation lock
    Session,        \* a path of SecureStore
    Config,         \* configPath_
    MaxOps,         \* calls of connect and disconnect
    TunnelFaults    \* "install", "remove", "start", "scm", "missing"

ASSUME TunnelAssumption ==
    /\ Tunnel \in Threads /\ Session # Config /\ {Session, Config} \subseteq Paths
    /\ MaxOps \in Nat

VARIABLES
    service,    \* the tunnel service: its state and the keys it has
    tunnel,     \* where connect or disconnect is
    blind,      \* a check has missed the service that is there
    ops         \* calls so far, for the bound

vars == <<files, service, tunnel, blind, ops>>

Absent == [state |-> "absent", keys |-> None]
Present == service.state # "absent"

\* keys is what connect was given, kept once it is up; cause is why disconnect
\* runs; result is how the last call ended.
Rest == [at |-> "idle", keys |-> None, cause |-> "user", result |-> "none"]

\* A session may be there from an earlier run.
Init ==
    /\ InitFiles
    /\ \E v \in Values \cup {None} : file = [p \in Paths |-> IF p = Session THEN v ELSE None]
    /\ service = Absent /\ tunnel = Rest /\ blind = FALSE /\ ops = 0

In(at) == tunnel.at = at
Step(at) == tunnel' = [tunnel EXCEPT !.at = at]
Down(cause) == tunnel' = [tunnel EXCEPT !.at = "down", !.cause = cause]
Result(result) == tunnel' = [Rest EXCEPT !.result = result,
                                         !.keys = IF result = "up" THEN tunnel.keys ELSE None]

-----------------------------------------------------------------------------
(* connect *)

Connect(keys) ==
    /\ In("idle") /\ ops < MaxOps /\ ops' = ops + 1
    /\ tunnel' = [Rest EXCEPT !.at = "ready", !.keys = keys]
    /\ UNCHANGED <<files, service, blind>>

\* wireguard.exe is there and buildWireGuardConfig accepts the server.
ConnectReady ==
    /\ In("ready")
    /\ \/ Step("exists")
       \/ "missing" \in TunnelFaults /\ Result("refused")
    /\ UNCHANGED <<files, service, blind, ops>>

\* serviceExists(): a manager that does not open counts as no service.
SeesService == Present
Overlooks == Present /\ "scm" \in TunnelFaults

ConnectExists ==
    /\ In("exists")
    /\ \/ SeesService /\ Down("replace") /\ UNCHANGED blind
       \/ ~SeesService /\ Step("write") /\ UNCHANGED blind
       \/ Overlooks /\ Step("write") /\ blind' = TRUE
    /\ UNCHANGED <<files, service, ops>>

\* mkpath and writePrivateFile
ConnectWrite ==
    /\ \/ /\ In("write") /\ Save(Tunnel, Config, tunnel.keys) /\ Step("writing")
          /\ UNCHANGED calls
       \/ /\ In("writing") /\ At(Tunnel, "idle")
          /\ IF call[Tunnel].ok THEN Step("install") ELSE Result("failed")
          /\ UNCHANGED files
    /\ UNCHANGED <<service, blind, ops>>

\* Mutant: the exit code of wireguard.exe does not matter
InstallAnyway == Step("poll")

InstallFails == Down("rollback")

Starting == [state |-> "starting", keys |-> file[Config]]

\* wireguard.exe /installtunnelservice, 20 seconds
ConnectInstall ==
    /\ In("install")
    /\ \/ ~Present /\ Step("poll") /\ service' = Starting
       \/ /\ Present \/ "install" \in TunnelFaults
          /\ InstallFails
          /\ service' \in {service} \cup IF Present THEN {} ELSE {Starting}
    /\ UNCHANGED <<files, blind, ops>>

\* 12 seconds of connected()
ConnectPoll ==
    /\ In("poll")
    /\ \/ service.state = "running" /\ Result("up")
       \/ (service.state # "running" \/ "scm" \in TunnelFaults) /\ Down("rollback")
    /\ UNCHANGED <<files, service, blind, ops>>

-----------------------------------------------------------------------------
(* disconnect *)

Disconnect ==
    /\ In("idle") /\ ops < MaxOps /\ ops' = ops + 1
    /\ tunnel' = [Rest EXCEPT !.at = "down"]
    /\ UNCHANGED <<files, service, blind>>

Ends(ok) ==
    CASE tunnel.cause = "user" -> Result(IF ok THEN "down" ELSE "stuck")
      [] tunnel.cause = "rollback" -> Result(IF ok THEN "rolledBack" ELSE "stuck")
      [] tunnel.cause = "replace" /\ ok -> Step("write")
      [] OTHER -> Result("stuck")

\* ready() and serviceExists(): without either nothing is uninstalled.
DisconnectExists ==
    /\ In("down")
    /\ \/ SeesService /\ Step("uninstall") /\ UNCHANGED blind
       \/ ~SeesService /\ Step("remove") /\ UNCHANGED blind
       \/ /\ Overlooks \/ (Present /\ "missing" \in TunnelFaults)
          /\ Step("remove") /\ blind' = TRUE
    /\ UNCHANGED <<files, service, ops>>

\* Mutant: the service is gone whatever the removal says
RemovedAnyway == Step("remove")

\* wireguard.exe failed; if the service is still seen, so does disconnect.
RemovalFails == Ends(FALSE)

DisconnectUninstall ==
    /\ In("uninstall")
    /\ \/ service' = Absent /\ blind' = FALSE /\ Step("remove")
       \/ /\ "remove" \in TunnelFaults /\ RemovalFails
          /\ UNCHANGED <<service, blind>>
       \/ /\ "remove" \in TunnelFaults /\ Overlooks /\ Step("remove") /\ blind' = TRUE
          /\ UNCHANGED service
    /\ UNCHANGED <<files, ops>>

DisconnectRemove ==
    /\ \/ /\ In("remove") /\ Remove(Tunnel, Config) /\ Step("removing")
          /\ UNCHANGED calls
       \/ /\ In("removing") /\ At(Tunnel, "idle") /\ Ends(call[Tunnel].ok)
          /\ UNCHANGED files
    /\ UNCHANGED <<service, blind, ops>>

-----------------------------------------------------------------------------
(* The tunnel service, and the end of the process and of the machine *)

ServiceRuns ==
    /\ \/ service.state = "starting" /\ service' = [service EXCEPT !.state = "running"]
       \/ /\ "start" \in TunnelFaults /\ service.state \in {"starting", "running"}
          /\ service' = [service EXCEPT !.state = "stopped"]
    /\ UNCHANGED <<files, tunnel, blind, ops>>

Crash == /\ CrashFiles /\ Result("lost") /\ UNCHANGED <<service, blind, ops>>

\* The service starts with the machine, from the configuration's path.
PowerLoss ==
    /\ PowerLost /\ Result("lost") /\ UNCHANGED <<blind, ops>>
    /\ service' = IF Present THEN [Starting EXCEPT !.keys = file'[Config]] ELSE service

TunnelStep ==
    \/ \E keys \in Values : Connect(keys)
    \/ ConnectReady \/ ConnectExists \/ ConnectWrite \/ ConnectInstall \/ ConnectPoll
    \/ Disconnect \/ DisconnectExists \/ DisconnectUninstall \/ DisconnectRemove

Next ==
    \/ TunnelStep
    \/ ServiceRuns \/ Crash \/ PowerLoss
    \/ \E t \in Threads : FileStep(t) /\ UNCHANGED <<service, tunnel, blind, ops>>
    \/ \E t \in Threads \ {Tunnel} :
          Request(t, Session) /\ UNCHANGED <<service, tunnel, blind, ops>>

Spec == Init /\ [][Next]_vars

-----------------------------------------------------------------------------
(* The properties *)

TypeOK ==
    /\ FilesTypeOK
    /\ service \in [state : {"absent", "starting", "running", "stopped"}, keys : Values \cup {None, Torn}]
    /\ blind \in BOOLEAN /\ ops \in 0..MaxOps
    /\ tunnel \in [keys : Values \cup {None}, cause : {"user", "replace", "rollback"},
          result : {"none", "up", "down", "rolledBack", "failed", "refused", "stuck", "lost"},
          at : {"idle", "ready", "exists", "write", "writing", "install", "poll",
                "down", "uninstall", "remove", "removing"}]

\* How a call ended is true of what is there: a disconnect that succeeds, and a
\* connect that failed and was rolled back, leave neither the tunnel service nor
\* the private key on the disk, unless a check could not see the service
\* (disconnect's early way past it); and a tunnel that connect brought up has
\* its keys, not those of a tunnel that was there before.
ResultIsTrue ==
    In("idle") =>
        /\ tunnel.result \in {"down", "rolledBack"} /\ ~blind
              => service = Absent /\ file[Config] = None
        /\ tunnel.result = "up" => service.keys = tunnel.keys

\* The tunnel service's file holds the keys the service was installed with,
\* so that it comes back as what it was when the machine restarts, whatever
\* operation was cut off (the order of disconnect and connect).
ServiceHasItsFile ==
    Present /\ ~blind => file[Config] = service.keys /\ service.keys \in Values

\* The mapping to AtomicStore: a save has taken effect once it has renamed, a
\* load once it has opened; a removal takes effect as it returns.
Took(t) == call[t].at \in {"renamed", "read"}
Abstract(t) ==
    [op |-> call[t].op, arg |-> call[t].arg, took |-> Took(t), ok |-> call[t].ok,
     got |-> IF At(t, "read") THEN file[Path(t)] ELSE call[t].got]

Workers == Threads \ {Tunnel}
Sessions == INSTANCE AtomicStore WITH
    Threads <- Workers, value <- file[Session], call <- [t \in Workers |-> Abstract(t)]

\* The sessions of SecureStore are atomic: no order of saves, loads and
\* removals by several workers, and no failure in the middle of one, lets a
\* load see anything but the value of one moment.
StoreIsAtomic == Sessions!Spec
=============================================================================
