------------------------------ MODULE HashRing ------------------------------
(***************************************************************************)
(* The consistent hash ring.  A lookup is taken apart into the steps of    *)
(* its binary search and of its walk around the ring; nodes come and go    *)
(* only between lookups, since the code does not await anything.           *)
(***************************************************************************)
EXTENDS Integers, FiniteSets, SequencesExt

CONSTANTS
    Nodes,
    Hashes,          \* the values of SHA-256, as numbers
    PointOf,         \* PointOf[n][i]: the hash of virtual node i of n
    MaxVirtual,      \* bound: virtual nodes that a node has at most
    DefaultVirtual,  \* virtualNodesPerPhysical
    MaxCount,        \* bound: how many nodes a lookup asks for
    Sort(_)          \* Array.sort: the elements of a set in ascending order

Sorted(s, S) ==
    /\ s \in Seq(S)
    /\ Len(s) = Cardinality(S)
    /\ S = {s[i] : i \in DOMAIN s}
    /\ \A i, j \in DOMAIN s : i < j => s[i] < s[j]

ASSUME RingAssumption ==
    /\ Hashes \subseteq Nat /\ IsFiniteSet(Hashes)
    /\ MaxVirtual \in Nat /\ DefaultVirtual \in 1..MaxVirtual /\ MaxCount \in Nat
    /\ PointOf \in [Nodes -> [0..(MaxVirtual - 1) -> Hashes]]
ASSUME PointsDiffer ==
    \A m, n \in Nodes, i, j \in 0..(MaxVirtual - 1) :
        PointOf[m][i] = PointOf[n][j] => m = n /\ i = j
ASSUME SortAssumption == \A S \in SUBSET Hashes : Sorted(Sort(S), S)

VARIABLES
    physicalNodes,
    ring,            \* ring[h]: the node of the virtual node with hash h
    sortedHashes,
    lookup           \* the lookup that is going on, or was the last

vars == <<physicalNodes, ring, sortedHashes, lookup>>
nodeVars == <<physicalNodes, ring, sortedHashes>>

Idle == [at |-> "idle"]
Size == Len(sortedHashes)

\* The code counts from 0.
HashAt(i) == sortedHashes[i + 1]

TypeOK ==
    /\ physicalNodes \subseteq Nodes
    /\ DOMAIN ring \subseteq Hashes
    /\ \A h \in DOMAIN ring : ring[h] \in Nodes
    /\ sortedHashes = Sort(DOMAIN ring)
    /\ \/ lookup = Idle
       \/ lookup \in [at : {"search"}, key : Hashes, count : 0..MaxCount, left : Nat, right : Nat]
       \/ lookup \in [at : {"walk"}, key : Hashes, count : 0..MaxCount, index : Nat,
                      attempts : 0..Size, selected : Seq(Nodes)]
       \/ lookup \in [at : {"done"}, key : Hashes, count : 0..MaxCount, selected : Seq(Nodes)]

Init ==
    /\ physicalNodes = {}
    /\ ring = << >>
    /\ sortedHashes = << >>
    /\ lookup = Idle

-----------------------------------------------------------------------------
(* Nodes come and go *)

Quiet == lookup.at \in {"idle", "done"}

PointsOf(n, count) == {PointOf[n][i] : i \in 0..(count - 1)}

\* The map changes, and the sorted keys with it.
SetRing(new) ==
    /\ ring' = new
    /\ sortedHashes' = Sort(DOMAIN new)
    /\ lookup' = Idle

\* No count, or zero, means the default.  Points that n has are kept.
AddNode(n, virtualNodeCount) ==
    LET count == IF virtualNodeCount = 0 THEN DefaultVirtual ELSE virtualNodeCount
        points == PointsOf(n, count)
    IN  /\ Quiet
        /\ physicalNodes' = physicalNodes \cup {n}
        /\ SetRing([h \in DOMAIN ring \cup points |-> IF h \in points THEN n ELSE ring[h]])

\* Mutant of Removed: all points from the first of n to its last.
RemovedSpan(n) ==
    {h \in DOMAIN ring : \E i, j \in DOMAIN ring : ring[i] = n /\ ring[j] = n /\ i <= h /\ h <= j}

Removed(n) == {h \in DOMAIN ring : ring[h] = n}

RemoveNode(n) ==
    /\ Quiet
    /\ physicalNodes' = physicalNodes \ {n}
    /\ SetRing([h \in DOMAIN ring \ Removed(n) |-> ring[h]])

Clear ==
    /\ Quiet
    /\ physicalNodes' = {}
    /\ SetRing(<< >>)

-----------------------------------------------------------------------------
(* getNodes *)

Done(key, count, selected) ==
    lookup' = [at |-> "done", key |-> key, count |-> count, selected |-> selected]

\* Without nodes there is nothing to find; count is cut to their number.
GetNodes(key, asked) ==
    LET nodes == Cardinality(physicalNodes)
        count == IF asked > nodes THEN nodes ELSE asked
    IN  /\ Quiet
        /\ IF nodes = 0
           THEN Done(key, 0, << >>)
           ELSE lookup' = [at |-> "search", key |-> key, count |-> count,
                           left |-> 0, right |-> IF Size = 0 THEN 0 ELSE Size - 1]
        /\ UNCHANGED nodeVars

\* Mutant of Before: equal hashes are passed.
BeforeOrAt(hash, key) == hash <= key

Before(hash, key) == hash < key

\* One turn of the loop of findStartIndex
SearchStep ==
    /\ lookup.at = "search"
    /\ lookup.left < lookup.right
    /\ LET mid == (lookup.left + lookup.right) \div 2 IN
       lookup' = IF Before(HashAt(mid), lookup.key)
                 THEN [lookup EXCEPT !.left = mid + 1]
                 ELSE [lookup EXCEPT !.right = mid]
    /\ UNCHANGED nodeVars

\* The search ends; past the last hash the ring begins again.
SearchEnd ==
    /\ lookup.at = "search"
    /\ lookup.left >= lookup.right
    /\ lookup' = [at |-> "walk", key |-> lookup.key, count |-> lookup.count,
                  index |-> IF HashAt(lookup.left) < lookup.key THEN 0 ELSE lookup.left,
                  attempts |-> 0, selected |-> << >>]
    /\ UNCHANGED nodeVars

Selected == {lookup.selected[i] : i \in DOMAIN lookup.selected}

\* Mutant of IsNew: a node may be selected twice.
IsAny(n) == TRUE

IsNew(n) == n \notin Selected

Walking == Len(lookup.selected) < lookup.count /\ lookup.attempts < Size

WalkStep ==
    /\ lookup.at = "walk"
    /\ Walking
    /\ LET n == ring[HashAt(lookup.index)] IN
       lookup' = [lookup EXCEPT !.selected = IF IsNew(n) THEN Append(@, n) ELSE @,
                                !.index = (@ + 1) % Size,
                                !.attempts = @ + 1]
    /\ UNCHANGED nodeVars

WalkEnd ==
    /\ lookup.at = "walk"
    /\ ~ Walking
    /\ Done(lookup.key, lookup.count, lookup.selected)
    /\ UNCHANGED nodeVars

Next ==
    \/ \E n \in Nodes, count \in 0..MaxVirtual : AddNode(n, count)
    \/ \E n \in Nodes : RemoveNode(n)
    \/ Clear
    \/ \E key \in Hashes, count \in 0..MaxCount : GetNodes(key, count)
    \/ SearchStep \/ SearchEnd \/ WalkStep \/ WalkEnd

Spec == Init /\ [][Next]_vars

-----------------------------------------------------------------------------
(* Properties *)

\* h comes no later than k on the way clockwise from key.
NoLater(key, h, k) ==
    \/ key <= h /\ (h <= k \/ k < key)
    \/ h <= k /\ k < key

\* Among the nodes of the ring, m is met before n.
HasPoint(n) == \E h \in DOMAIN ring : ring[h] = n
Precedes(key, m, n) ==
    \E h \in DOMAIN ring :
        ring[h] = m /\ \A k \in DOMAIN ring : ring[k] = n => NoLater(key, h, k) /\ h # k

\* The nodes on the ring, in the order in which they are met from key on.
Preference(key) ==
    LET found == {ring[h] : h \in DOMAIN ring}
        rank(n) == 1 + Cardinality({m \in found \ {n} : Precedes(key, m, n)})
    IN  [i \in 1..Cardinality(found) |-> CHOOSE n \in found : rank(n) = i]

\* The search finds the first hash that is not before the key, or the first
\* of all if there is none: what a linear search would find.
SearchFinds ==
    lookup.at = "walk" /\ lookup.attempts = 0 =>
        /\ lookup.index < Size
        /\ \/ /\ HashAt(lookup.index) >= lookup.key
              /\ \A i \in 0..(lookup.index - 1) : HashAt(i) < lookup.key
           \/ /\ lookup.index = 0
              /\ \A i \in 0..(Size - 1) : HashAt(i) < lookup.key

\* A lookup returns the nodes that are met first, each once, and as many as
\* are asked for as far as there are nodes.
LookupRight ==
    lookup.at = "done" =>
        /\ lookup.count <= Cardinality(physicalNodes)
        /\ lookup.selected = SubSeq(Preference(lookup.key), 1, lookup.count)

\* A node that comes or goes changes nothing in the order of the others, so
\* chunks move to it or from it only.
\* (The sets of one element let TLC compute each preference once.)
MinimalMovement ==
    [][\A n \in Nodes :
           RemoveNode(n) \/ (\E count \in 0..MaxVirtual : AddNode(n, count)) =>
               \A key \in Hashes :
                   \A before \in {Preference(key)}, after \in {Preference(key)'} :
                       RemoveFirst(after, n) = RemoveFirst(before, n)]_vars
=============================================================================
