------------------------------ MODULE Positions ------------------------------
(***************************************************************************)
(* What a library leaves of a sequence when it removes or selects elements *)
(* by a condition: those at some of its positions, in order.               *)
(***************************************************************************)
EXTENDS Naturals, Sequences, FiniteSets

\* The k-th element that is left is at the position up to which k of them are.
picked(s, positions) ==
  [k \in 1..Cardinality(positions) |->
     s[CHOOSE i \in positions : Cardinality(positions \cap 1..i) = k]]
===============================================================================
