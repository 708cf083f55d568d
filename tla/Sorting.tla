------------------------------- MODULE Sorting -------------------------------
(* Sorting as it is used all over the program, by what it does: a member's *)
(* position is the number of those before it.                              *)
EXTENDS Naturals, FiniteSets

(* The members of S, a finite set that Before orders totally.              *)
Sorted(S, Before(_, _)) ==
  [n \in 1..Cardinality(S) |->
     CHOOSE x \in S : Cardinality({y \in S \ {x} : Before(y, x)}) = n - 1]
=============================================================================
