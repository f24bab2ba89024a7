------------------------------- MODULE Ordering -------------------------------
(***************************************************************************)
(* Sequences made of chosen elements: those of a sort, of a filter.        *)
(***************************************************************************)
EXTENDS Integers, Sequences, FiniteSets

\* A set in the order of a relation that orders it.
InOrder(S, before) ==
    CHOOSE order \in [1..Cardinality(S) -> S] :
        \A k, m \in 1..Cardinality(S) : k < m => <<order[k], order[m]>> \in before
Picked(order, cands) == [k \in DOMAIN order |-> cands[order[k]]]

\* The elements at some of the positions of a sequence, in their order.
Kept(seq, S) == Picked(InOrder(S, {e \in S \X S : e[1] < e[2]}), seq)
=============================================================================
