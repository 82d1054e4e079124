------------------------------ MODULE Selections -----------------------------
(* Selections from a list, in the order of the list, as comprehensions and       *)
(* loops with a condition make them.  A selection is known by the positions it    *)
(* takes; Ascending is SetToSortSeq told by rank in place of a sort, so that it   *)
(* can be reasoned about.                                                        *)
EXTENDS Integers, FiniteSets

\* The k-th of some numbers is the one that k of them do not exceed.
Ascending(numbers) ==
    [k \in 1 .. Cardinality(numbers) |->
        CHOOSE n \in numbers : Cardinality({m \in numbers : m <= n}) = k]

\* The elements of a list at these positions.
Selected(list, positions) ==
    [k \in 1 .. Cardinality(positions) |-> list[Ascending(positions)[k]]]

\* Where a list has its elements for the first time.
Firsts(list) == {n \in DOMAIN list : \A m \in 1 .. n - 1 : list[m] # list[n]}
=============================================================================
