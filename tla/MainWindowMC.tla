----------------------------- MODULE MainWindowMC -----------------------------
(* MainWindow with a bounded number of actions of the user and the world *)
EXTENDS MainWindow

\* Signed out, signed in to connect automatically, and signed in to an engine
\* that has yet to be installed
StartSessions ==
    {None, [technology |-> "nordlynx", autoConnect |-> TRUE],
     [technology |-> "openvpn", autoConnect |-> TRUE]}
=============================================================================
