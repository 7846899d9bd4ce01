------------------------------- MODULE Engine --------------------------------
(***************************************************************************)
(* What VpnController may count on of a tunnel engine, seen through        *)
(* running() and connected(): a tunnel is connected only after it has been *)
(* seen running since its launch, or while the one before it still fades;  *)
(* and one that could not be stopped never becomes connected again without *)
(* a launch.                                                               *)
(***************************************************************************)
VARIABLE engine     \* "fading": its end has not been noticed yet

Init == engine = "absent"

Launch == \/ engine = "absent" /\ engine' = "running"
          \/ engine = "fading" /\ engine' \in {"running", "connected"}
Connects == engine = "running" /\ engine' = "connected"
Loses == engine = "connected" /\ engine' = "running"
Ends == engine \notin {"absent", "fading"} /\ engine' \in {"absent", "fading"}
Reports == engine = "absent" /\ engine' = "fading"      \* of its past
Fades == engine = "fading" /\ engine' = "absent"
StopFails == engine \in {"running", "connected"} /\ engine' = "unmanaged"

Next == Launch \/ Connects \/ Loses \/ Ends \/ Reports \/ Fades \/ StopFails

Spec == Init /\ [][Next]_engine
=============================================================================
