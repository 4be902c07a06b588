------------------------------- MODULE Lists -------------------------------
(***************************************************************************)
(* Lists from which elements are taken, and the numbers that those of a    *)
(* kind get when they are counted.                                         *)
(***************************************************************************)
EXTENDS Integers, Sequences, FiniteSets

(* k is the n-th of the positions S.                                       *)
Rank(S, k) == Cardinality({m \in S : m <= k})
Nth(S, n) == CHOOSE k \in S : Rank(S, k) = n

(* What is at the positions S, in its order.                               *)
Pick(s, S) == [n \in 1..Cardinality(S) |-> s[Nth(S, n)]]
=============================================================================
