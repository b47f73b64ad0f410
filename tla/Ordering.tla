------------------------------- MODULE Ordering -------------------------------
(***************************************************************************)
(* Sequences made from finite sets: filtering a list keeps some of its     *)
(* positions, sorting puts the members of a set in order.  An element's    *)
(* place is the number of those before it, so that what these definitions  *)
(* yield can be reasoned about without recursion.                          *)
(***************************************************************************)
EXTENDS Integers, Sequences, FiniteSets

\* The members of S that come before x: R is a set of pairs <<earlier, later>>.
Before(S, R, x) == {y \in S : <<y, x>> \in R}

\* The members of S, each after those before it.
InOrder(S, R) == [i \in 1 .. Cardinality(S) |->
                    CHOOSE x \in S : Cardinality(Before(S, R, x)) = i - 1]

\* The members of a set of numbers that are smaller than one of them.
Smaller(P, p) == {q \in P : q < p}

\* What is left of the list s when the positions P are kept, in the list's order.
Kept(s, P) == [i \in 1 .. Cardinality(P) |->
                 s[CHOOSE p \in P : Cardinality(Smaller(P, p)) = i - 1]]
=============================================================================
