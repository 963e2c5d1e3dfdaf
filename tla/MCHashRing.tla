----------------------------- MODULE MCHashRing -----------------------------
EXTENDS HashRing, TLC
CONSTANTS n1, n2, n3

\* The element with i - 1 smaller ones comes i-th.
SortByRank(S) ==
    [i \in 1..Cardinality(S) |-> CHOOSE x \in S : Cardinality({y \in S : y < x}) = i - 1]

\* Nine points among eleven hashes: neighbours of one node and of two, and
\* keys before, between, at and after the points.
PointsOfThree ==
    (n1 :> <<1, 6, 9>>) @@ (n2 :> <<3, 4, 8>>) @@ (n3 :> <<7, 2, 5>>)
PointsFromZero == [n \in Nodes |-> [i \in 0..2 |-> PointsOfThree[n][i + 1]]]
=============================================================================
