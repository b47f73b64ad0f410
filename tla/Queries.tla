------------------------------- MODULE Queries -------------------------------
(***************************************************************************)
(* The frame for the program's pure functions: a behaviour is asked one    *)
(* query, which the initial states enumerate, and gives its answer in one  *)
(* step.  A module of functions says which queries it is asked (Ask) and   *)
(* what it answers (Answer); Algorithms puts them together.                *)
(***************************************************************************)
EXTENDS Sequences

VARIABLES
  kind,    \* the function asked
  query,   \* its arguments
  answer   \* << >>, then <<result>>

queryVars == <<kind, query, answer>>

Ask(k, queries) == kind = k /\ query \in queries /\ answer = << >>

Answer(k, result) ==
  /\ kind = k /\ answer = << >>
  /\ answer' = <<result>>
  /\ UNCHANGED <<kind, query>>

Answered(k) == kind = k /\ answer # << >>

Result == answer[1]
=============================================================================
