------------------------------ MODULE Algorithms ------------------------------
(***************************************************************************)
(* The pure functions of the program, each asked its own queries.          *)
(***************************************************************************)
EXTENDS Patterns, Diff, Frames, ProtoWire, Throttle, Filter

AlgInit ==
  \/ PatInit \/ DiffInit \/ FramesInit \/ WireInit \/ PaceInit \/ FilterInit

AlgNext ==
  \/ PatNext \/ DiffNext \/ FramesNext \/ WireNext \/ PaceNext \/ FilterNext

AlgSpec == AlgInit /\ [][AlgNext]_queryVars
=============================================================================
