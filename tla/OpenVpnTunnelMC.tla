--------------------------- MODULE OpenVpnTunnelMC ---------------------------
(* OpenVpnTunnel with a bounded number of launches *)
EXTENDS OpenVpnTunnel
=============================================================================
