----------------------------- MODULE WireGuardMC -----------------------------
(* WireGuardTunnel and SecureStore with model values *)
EXTENDS WireGuardTunnel, TLC
Symmetric == Permutations(Threads \ {Tunnel}) \cup Permutations(Values)
=============================================================================
