------------------------------- MODULE Places -------------------------------
(***************************************************************************)
(* Sets of places in a sequence, taken in order: what an iterator over     *)
(* those of a slice that meet a condition yields.                          *)
(***************************************************************************)
EXTENDS Naturals, FiniteSets, Sequences

\* The members of a set of places, in order.
Ordered(places) ==
    [k \in 1..Cardinality(places) |->
        CHOOSE i \in places : Cardinality({j \in places : j < i}) = k - 1]

\* The items of a sequence at some places.
ItemsAt(items, places) == LET at == Ordered(places) IN [k \in 1..Len(at) |-> items[at[k]]]

=============================================================================
