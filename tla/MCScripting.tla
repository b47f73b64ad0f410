----------------------------- MODULE MCScripting -----------------------------
(* Scripting for TLC: the constants are given in the configurations. *)
EXTENDS Scripting
=============================================================================
