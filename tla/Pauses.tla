-------------------------------- MODULE Pauses --------------------------------
(***************************************************************************)
(* What breakpoints promise, without channels and locks: a flow that       *)
(* pauses is open until somebody answers it, alone or together with all    *)
(* that are open; the answer stands from then on, and the flow goes on     *)
(* only with it.  Breakpoints implements this (Breakpoints!ImplementsPauses). *)
(***************************************************************************)
EXTENDS Integers

CONSTANTS
  Flows,
  Answers,   \* answers that somebody chose for one flow
  Skipped    \* the answer all open pauses get together

VARIABLES
  phase,     \* flow -> going, open or answered
  answerOf   \* flow -> the answer of its pause, Unanswered while it has none

psVars == <<phase, answerOf>>

Unanswered == -1

PsInit ==
  /\ phase = [f \in Flows |-> "going"]
  /\ answerOf = [f \in Flows |-> Unanswered]

Block(f) ==
  /\ phase[f] = "going"
  /\ phase' = [phase EXCEPT ![f] = "open"]
  /\ UNCHANGED answerOf

AnswerOne(f, a) ==
  /\ phase[f] = "open"
  /\ phase' = [phase EXCEPT ![f] = "answered"]
  /\ answerOf' = [answerOf EXCEPT ![f] = a]

AnswerAll ==
  /\ phase' = [f \in Flows |-> IF phase[f] = "open" THEN "answered" ELSE phase[f]]
  /\ answerOf' = [f \in Flows |-> IF phase[f] = "open" THEN Skipped ELSE answerOf[f]]

GoOn(f) ==
  /\ phase[f] = "answered"
  /\ phase' = [phase EXCEPT ![f] = "going"]
  /\ answerOf' = [answerOf EXCEPT ![f] = Unanswered]

PsNext ==
  \/ \E f \in Flows : Block(f) \/ GoOn(f) \/ \E a \in Answers : AnswerOne(f, a)
  \/ AnswerAll

PsSpec == PsInit /\ [][PsNext]_psVars
=============================================================================
