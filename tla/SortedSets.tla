---------------------------- MODULE SortedSets ----------------------------
(* Sequences of numbers in ascending order, and the one that lists a finite set. *)
EXTENDS Integers, Sequences, FiniteSets

Ascending(s) == \A i, j \in 1 .. Len(s) : i < j => s[i] < s[j]

Elements(s) == {s[i] : i \in 1 .. Len(s)}

\* The i-th element is the one that has i - 1 smaller ones.
Sorted(S) ==
    [i \in 1 .. Cardinality(S) |->
        CHOOSE x \in S : Cardinality({y \in S : y < x}) = i - 1]

Newest(S, n) == {x \in S : Cardinality({y \in S : y > x}) < n}

Oldest(S, n) == {x \in S : Cardinality({y \in S : y < x}) < n}
=============================================================================
