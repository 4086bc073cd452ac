----------------------------- MODULE Subsequences -----------------------------
(***************************************************************************)
(* The subsequence of a sequence at a set of positions.  Unlike SelectSeq, *)
(* it is defined by what the n-th selected position is, which the proof    *)
(* system can reason about.                                                *)
(***************************************************************************)
EXTENDS Integers, Sequences, FiniteSets

\* How many of the positions are up to i; the position of which there are n.
Rank(keep, i) == Cardinality({j \in keep : j <= i})
Place(keep, n) == CHOOSE i \in keep : Rank(keep, i) = n

Selected(s, keep) == [n \in 1..Cardinality(keep) |-> s[Place(keep, n)]]

\* The consecutive parts of a sequence, each from one of the positions on.
PartEnd(s, starts, n) ==
    IF n = Cardinality(starts) THEN Len(s) ELSE Place(starts, n + 1) - 1
Parts(s, starts) ==
    [n \in 1..Cardinality(starts) |-> SubSeq(s, Place(starts, n), PartEnd(s, starts, n))]
=============================================================================
