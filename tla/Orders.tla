------------------------------- MODULE Orders -------------------------------
(* Finite sets in an order. *)
EXTENDS Naturals, FiniteSets

(* The elements of S, each after those that R puts before it. *)
InOrder(S, R) ==
  [k \in 1 .. Cardinality(S) |->
     CHOOSE x \in S : Cardinality({y \in S : <<y, x>> \in R}) = k - 1]
=============================================================================
