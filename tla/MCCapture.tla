------------------------------ MODULE MCCapture ------------------------------
(* The capture pipeline over a small store, for TLC. *)
EXTENDS Capture, TLC

Symmetric == Permutations(FlowIDs)
=============================================================================
