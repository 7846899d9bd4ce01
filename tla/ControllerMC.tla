---------------------------- MODULE ControllerMC ----------------------------
(* Instances of Controller for TLC. *)
EXTENDS Controller, TLC

Symmetric == Permutations(Users) \cup Permutations(Workers)
=============================================================================
