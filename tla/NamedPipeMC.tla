----------------------------- MODULE NamedPipeMC -----------------------------
(* NamedPipeServer with model values for the clients and the instances *)
EXTENDS NamedPipeServer
=============================================================================
