------------------------------ MODULE Positions ------------------------------
(* Parts of a sequence by their positions: what a loop with a condition, or a *)
(* comprehension with an if, gathers in order.                                *)
EXTENDS Naturals, FiniteSets

(* The k-th smallest of a set of positions. *)
Nth(S, k) == CHOOSE i \in S : Cardinality({j \in S : j <= i}) = k

(* What is at these positions, in order. *)
Selected(s, S) == [k \in 1..Cardinality(S) |-> s[Nth(S, k)]]
=============================================================================
