----------------------------- MODULE Positions ------------------------------
(* Positions in a signal, and what stands there.                           *)
EXTENDS Integers, Sequences, FiniteSets

(* The numbers of a finite set, from the least on.                         *)
InOrder(S) ==
    [i \in 1..Cardinality(S) |-> CHOOSE x \in S : Cardinality({y \in S : y < x}) = i - 1]

(* What s has at the positions in S.                                       *)
Part(s, S) ==
    LET at == InOrder(S) IN [i \in DOMAIN at |-> s[at[i]]]
=============================================================================
