---------------------------- MODULE MCReplication ----------------------------
EXTENDS Replication, TLC
CONSTANTS n1, n2, n3, n4
RingOfFour == <<n1, n2, n3, n4>>
\* Two of the four nodes share a zone.
ThreeZones == [n \in Nodes |-> CASE n \in {n1, n2} -> "east"
                                 [] n = n3 -> "west"
                                 [] OTHER -> "south"]
=============================================================================
