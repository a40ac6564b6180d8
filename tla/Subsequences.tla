---------------------------- MODULE Subsequences ----------------------------
(***************************************************************************)
(* The elements of a sequence that are in a set, in their order: what a    *)
(* loop over a slice that appends some of its elements to another leaves;  *)
(* and a set in the order of a relation, which SetToSortSeq takes as an    *)
(* operator.                                                               *)
(***************************************************************************)
EXTENDS Naturals, Sequences, FiniteSets

Kept(q, K) ==
    LET kept[n \in 0 .. Len(q)] ==
            IF n = 0 THEN <<>>
            ELSE IF q[n] \in K THEN Append(kept[n - 1], q[n]) ELSE kept[n - 1]
    IN kept[Len(q)]

Rises(q, R) == \A i, j \in DOMAIN q : i < j => <<q[i], q[j]>> \in R

Sorted(S, R) == CHOOSE q \in [1 .. Cardinality(S) -> S] : Rises(q, R)

=============================================================================
