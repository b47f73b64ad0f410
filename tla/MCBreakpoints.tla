---------------------------- MODULE MCBreakpoints ----------------------------
(* Breakpoints with few flows and pauses, for TLC. *)
EXTENDS Breakpoints
=============================================================================
