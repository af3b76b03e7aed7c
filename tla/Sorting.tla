------------------------------ MODULE Sorting ------------------------------
(***************************************************************************)
(* The order in which the engines keep and return rows: that of the keys   *)
(* of a column family and that of MemoryEngine's sorts, both of them by    *)
(* fields.  What decides a row's place is its rank, a sequence of numbers; *)
(* names stand for numbers.                                                *)
(***************************************************************************)
EXTENDS Integers, Sequences, FiniteSets

\* Field by field; a rank that ends comes before those that go on.
Before(a, b) ==
    \E i \in DOMAIN b :
        /\ \A j \in 1..(i - 1) : j \in DOMAIN a /\ a[j] = b[j]
        /\ i \in DOMAIN a => a[i] < b[i]

\* The members of the domain in the order of their ranks, no two of which are the same:
\* the i-th is the one that i - 1 come before.
Sorted(rank) ==
    LET before(d) == {c \in DOMAIN rank : Before(rank[c], rank[d])}
    IN  [i \in 1..Cardinality(DOMAIN rank) |->
            CHOOSE d \in DOMAIN rank : Cardinality(before(d)) = i - 1]

\* A scan with a limit.
FirstOf(rank, limit) ==
    LET sorted == Sorted(rank)
    IN  SubSeq(sorted, 1, IF limit < Len(sorted) THEN limit ELSE Len(sorted))
=============================================================================
