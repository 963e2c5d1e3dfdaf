--------------------------- MODULE HashRingProofs ---------------------------
(***************************************************************************)
(* Proofs about HashRing, for any nodes, points of the nodes and numbers   *)
(* of virtual nodes, and any sort that sorts.                              *)
(***************************************************************************)
EXTENDS HashRing, FiniteSetTheorems, SequenceTheorems, WellFoundedInduction, TLAPS

\* Every hash on the ring is a point of its node, and every node has one.
RingSound(theRing, nodes) ==
    /\ DOMAIN theRing \subseteq Hashes
    /\ \A h \in DOMAIN theRing : theRing[h] \in Nodes
    /\ \A h \in DOMAIN theRing : \E i \in 0..(MaxVirtual - 1) : h = PointOf[theRing[h]][i]
    /\ \A n \in nodes : \E h \in DOMAIN theRing : theRing[h] = n

RingInv ==
    /\ physicalNodes \subseteq Nodes /\ IsFiniteSet(physicalNodes)
    /\ RingSound(ring, physicalNodes)
    /\ sortedHashes = Sort(DOMAIN ring)

\* What is left of the key has been passed, what is right of it has not.
SearchInv ==
    lookup.at = "search" =>
        /\ lookup \in [at : {"search"}, key : Hashes, count : 0..MaxCount, left : Nat, right : Nat]
        /\ lookup.left <= lookup.right /\ lookup.right < Size
        /\ \A i \in 0..(lookup.left - 1) : HashAt(i) < lookup.key
        /\ lookup.right < Size - 1 => HashAt(lookup.right) >= lookup.key

\* No node is selected twice.
Once(s) == \A i, j \in 1..Len(s) : s[i] = s[j] => i = j

WalkInv ==
    lookup.at = "walk" =>
        /\ lookup \in [at : {"walk"}, key : Hashes, count : 0..MaxCount, index : Nat,
                       attempts : 0..Size, selected : Seq(Nodes)]
        /\ lookup.index < Size
        /\ Once(lookup.selected)
        /\ Len(lookup.selected) <= lookup.count

DoneInv ==
    lookup.at = "done" =>
        /\ lookup \in [at : {"done"}, key : Hashes, count : 0..MaxCount, selected : Seq(Nodes)]
        /\ Once(lookup.selected)
        /\ Len(lookup.selected) <= lookup.count

IInv ==
    /\ RingInv
    /\ lookup = Idle \/ lookup.at \in {"search", "walk", "done"}
    /\ SearchInv
    /\ WalkInv
    /\ DoneInv
    /\ SearchFinds

\* A lookup returns no node twice, and no more nodes than it was asked for.
SelectedOnce ==
    lookup.at = "done" => Once(lookup.selected) /\ Len(lookup.selected) <= lookup.count

-----------------------------------------------------------------------------
(* The sorted hashes *)

\* The array is as long as the ring has points, and ascending.
LEMMA SortedRing ==
    ASSUME RingInv
    PROVE  /\ Size \in Nat
           /\ \A i \in 0..(Size - 1) : HashAt(i) \in DOMAIN ring /\ HashAt(i) \in Nat
           /\ \A i, j \in 0..(Size - 1) : i < j => HashAt(i) < HashAt(j)
           /\ physicalNodes # {} => Size > 0
  <1> DEFINE H == DOMAIN ring
  <1>1. H \subseteq Hashes /\ Hashes \subseteq Nat
    BY RingAssumption DEF RingInv, RingSound
  <1>2. Sorted(sortedHashes, H)
    BY <1>1, SortAssumption DEF RingInv
  <1>3. /\ sortedHashes \in Seq(H)
        /\ H = {sortedHashes[i] : i \in DOMAIN sortedHashes}
        /\ \A i, j \in DOMAIN sortedHashes : i < j => sortedHashes[i] < sortedHashes[j]
    BY <1>2 DEF Sorted
  <1>4. Size \in Nat /\ DOMAIN sortedHashes = 1..Size
    BY <1>3 DEF Size
  <1>5. ASSUME NEW i \in 0..(Size - 1)
        PROVE  HashAt(i) \in H /\ HashAt(i) \in Nat /\ i + 1 \in DOMAIN sortedHashes
    <2>1. i + 1 \in 1..Size
      BY <1>4
    <2>2. QED
      BY <1>1, <1>3, <1>4, <2>1 DEF HashAt
  <1>6. ASSUME NEW i \in 0..(Size - 1), NEW j \in 0..(Size - 1), i < j
        PROVE  HashAt(i) < HashAt(j)
    <2>1. i + 1 < j + 1
      BY <1>4, <1>6
    <2>2. QED
      BY <1>3, <1>5, <2>1 DEF HashAt
  <1>7. physicalNodes # {} => Size > 0
    <2> SUFFICES ASSUME NEW n \in physicalNodes PROVE Size > 0
      OBVIOUS
    <2>1. PICK h \in H : ring[h] = n
      BY DEF RingInv, RingSound
    <2>2. PICK i \in 1..Size : h = sortedHashes[i]
      BY <1>3, <1>4
    <2>3. QED
      BY <1>4, <2>2
  <1>8. QED
    BY <1>4, <1>5, <1>6, <1>7

-----------------------------------------------------------------------------
(* Nodes come and go *)

\* The rest of the invariant is about a lookup that is going on.
LEMMA NewRing ==
    ASSUME NEW new, NEW nodes, SetRing(new), physicalNodes' = nodes,
           nodes \subseteq Nodes, IsFiniteSet(nodes), RingSound(new, nodes)
    PROVE  IInv'
  <1>1. RingInv'
    BY DEF SetRing, RingInv
  <1>2. lookup' = Idle /\ lookup'.at = "idle"
    BY DEF SetRing, Idle
  <1>3. QED
    BY <1>1, <1>2 DEF IInv, SearchInv, WalkInv, DoneInv, SearchFinds

LEMMA AddNodeInv ==
    ASSUME RingInv, NEW n \in Nodes, NEW virtual \in 0..MaxVirtual, AddNode(n, virtual)
    PROVE  IInv'
  <1> DEFINE count == IF virtual = 0 THEN DefaultVirtual ELSE virtual
             points == PointsOf(n, count)
             new == [h \in DOMAIN ring \cup points |-> IF h \in points THEN n ELSE ring[h]]
             nodes == physicalNodes \cup {n}
  <1>1. physicalNodes' = nodes /\ SetRing(new)
    BY DEF AddNode
  <1>2. count \in 1..MaxVirtual /\ MaxVirtual \in Nat
    BY RingAssumption
  <1>3. /\ \A h \in points : h \in Hashes /\ \E i \in 0..(MaxVirtual - 1) : h = PointOf[n][i]
        /\ PointOf[n][0] \in points
    <2>1. 0..(count - 1) \subseteq 0..(MaxVirtual - 1) /\ 0 \in 0..(count - 1)
      BY <1>2
    <2>2. \A i \in 0..(MaxVirtual - 1) : PointOf[n][i] \in Hashes
      BY RingAssumption
    <2>3. QED
      BY <2>1, <2>2 DEF PointsOf
  <1>4. RingSound(new, nodes)
    <2> HIDE DEF points
    <2>1. DOMAIN new \subseteq Hashes
      BY <1>3 DEF RingInv, RingSound
    <2>2. \A h \in DOMAIN new : new[h] \in Nodes
      BY DEF RingInv, RingSound
    <2>3. \A h \in DOMAIN new : \E i \in 0..(MaxVirtual - 1) : h = PointOf[new[h]][i]
      BY <1>3 DEF RingInv, RingSound
    <2>4. ASSUME NEW m \in nodes PROVE \E h \in DOMAIN new : new[h] = m
      <3>1. CASE m = n
        BY <1>3, <3>1
      <3>2. CASE m # n
        <4>1. PICK h \in DOMAIN ring : ring[h] = m
          BY <3>2 DEF RingInv, RingSound
        <4>2. PICK i \in 0..(MaxVirtual - 1) : h = PointOf[m][i]
          BY <4>1 DEF RingInv, RingSound
        <4>3. m \in Nodes
          BY <3>2 DEF RingInv
        <4>4. h \notin points
          <5> SUFFICES ASSUME h \in points PROVE FALSE
            OBVIOUS
          <5>1. PICK j \in 0..(MaxVirtual - 1) : h = PointOf[n][j]
            BY <1>3
          <5>2. QED
            BY <3>2, <4>2, <4>3, <5>1, PointsDiffer
        <4>5. QED
          BY <4>1, <4>4
      <3>3. QED
        BY <3>1, <3>2
    <2>5. QED
      BY <2>1, <2>2, <2>3, <2>4 DEF RingSound
  <1>5. nodes \subseteq Nodes /\ IsFiniteSet(nodes)
    BY FS_AddElement DEF RingInv
  <1>6. QED
    BY <1>1, <1>4, <1>5, NewRing

LEMMA RemoveNodeInv ==
    ASSUME RingInv, NEW n \in Nodes, RemoveNode(n)
    PROVE  IInv'
  <1> DEFINE new == [h \in DOMAIN ring \ Removed(n) |-> ring[h]]
             nodes == physicalNodes \ {n}
  <1>1. physicalNodes' = nodes /\ SetRing(new)
    BY DEF RemoveNode
  <1>2. RingSound(new, nodes)
    BY DEF RingSound, RingInv, Removed
  <1>3. nodes \subseteq Nodes /\ IsFiniteSet(nodes)
    BY FS_RemoveElement DEF RingInv
  <1>4. QED
    BY <1>1, <1>2, <1>3, NewRing

LEMMA ClearInv ==
    ASSUME Clear
    PROVE  IInv'
  <1>1. RingSound(<< >>, {})
    BY DEF RingSound
  <1>2. QED
    BY <1>1, FS_EmptySet, NewRing DEF Clear

-----------------------------------------------------------------------------
(* Lookups *)

LEMMA GetNodesInv ==
    ASSUME IInv, NEW key \in Hashes, NEW asked \in 0..MaxCount, GetNodes(key, asked)
    PROVE  IInv'
  <1> DEFINE nodes == Cardinality(physicalNodes)
             count == IF asked > nodes THEN nodes ELSE asked
  <1>1. RingInv /\ RingInv' /\ UNCHANGED nodeVars
    BY DEF IInv, RingInv, RingSound, GetNodes, nodeVars
  <1>2. CASE nodes = 0
    <2>1. lookup' = [at |-> "done", key |-> key, count |-> 0, selected |-> << >>]
      BY <1>2 DEF GetNodes, Done
    <2>2. 0 \in 0..MaxCount
      BY RingAssumption
    <2>3. lookup'.at = "done" /\ lookup'.selected = << >> /\ lookup'.count = 0
      BY <2>1
    <2>4. DoneInv'
      BY <2>1, <2>2, <2>3 DEF DoneInv, Once
    <2>5. QED
      BY <1>1, <2>3, <2>4 DEF IInv, SearchInv, WalkInv, SearchFinds
  <1>3. CASE nodes # 0
    <2>1. physicalNodes # {}
      BY <1>3, FS_EmptySet
    <2>2. /\ Size \in Nat /\ Size > 0
          /\ \A i \in 0..(Size - 1) : HashAt(i) \in Nat
      BY <1>1, <2>1, SortedRing
    <2>3. lookup' = [at |-> "search", key |-> key, count |-> count,
                     left |-> 0, right |-> Size - 1]
      BY <1>3, <2>2 DEF GetNodes
    <2>4. Size' = Size
      BY <1>1 DEF Size, nodeVars
    <2>5. count \in 0..MaxCount
      <3>1. nodes \in Nat
        BY <1>1, FS_CardinalityType DEF RingInv
      <3>2. QED
        BY <3>1, RingAssumption
    <2>6. QED
      BY <1>1, <2>2, <2>3, <2>4, <2>5 DEF IInv, SearchInv, WalkInv, DoneInv, SearchFinds, HashAt
  <1>4. QED
    BY <1>2, <1>3

\* Half of what was not decided is decided by each turn.
LEMMA SearchStepInv ==
    ASSUME IInv, SearchStep
    PROVE  IInv'
  <1> DEFINE l == lookup.left
             r == lookup.right
             mid == (l + r) \div 2
  <1>1. RingInv /\ RingInv' /\ UNCHANGED nodeVars
    BY DEF IInv, RingInv, RingSound, SearchStep, nodeVars
  <1>2. /\ Size' = Size
        /\ \A i : HashAt(i)' = HashAt(i)
    BY <1>1 DEF Size, HashAt, nodeVars
  <1>3. /\ Size \in Nat
        /\ \A i \in 0..(Size - 1) : HashAt(i) \in Nat
        /\ \A i, j \in 0..(Size - 1) : i < j => HashAt(i) < HashAt(j)
    BY <1>1, SortedRing
  <1>4. /\ lookup.at = "search"
        /\ lookup \in [at : {"search"}, key : Hashes, count : 0..MaxCount, left : Nat, right : Nat]
        /\ l < r /\ r < Size
        /\ \A i \in 0..(l - 1) : HashAt(i) < lookup.key
        /\ r < Size - 1 => HashAt(r) >= lookup.key
    BY DEF SearchStep, IInv, SearchInv
  <1>5. l \in Nat /\ r \in Nat /\ lookup.key \in Nat
    BY <1>4, RingAssumption
  <1>6. mid \in Nat /\ l <= mid /\ mid < r
    BY <1>4, <1>5
  <1>7. SearchInv' /\ lookup'.at = "search"
    <2>1. CASE HashAt(mid) < lookup.key
      <3>1. lookup' = [at |-> "search", key |-> lookup.key, count |-> lookup.count,
                       left |-> mid + 1, right |-> r]
        <4>1. lookup' = [lookup EXCEPT !.left = mid + 1]
          BY <2>1 DEF SearchStep, Before
        <4> DEFINE next == mid + 1
        <4> HIDE DEF next
        <4>2. lookup' = [lookup EXCEPT !.left = next]
          BY <4>1 DEF next
        <4>3. lookup' = [at |-> "search", key |-> lookup.key, count |-> lookup.count,
                         left |-> next, right |-> r]
          BY <1>4, <4>2
        <4>4. QED
          BY <4>3 DEF next
      <3>2. \A i \in 0..mid : HashAt(i) < lookup.key
        BY <1>3, <1>4, <1>5, <1>6, <2>1
      <3>3. QED
        BY <1>2, <1>4, <1>5, <1>6, <3>1, <3>2 DEF SearchInv
    <2>2. CASE ~ (HashAt(mid) < lookup.key)
      <3>1. lookup' = [at |-> "search", key |-> lookup.key, count |-> lookup.count,
                       left |-> l, right |-> mid]
        <4> HIDE DEF mid
        <4>1. lookup' = [lookup EXCEPT !.right = mid]
          BY <2>2 DEF SearchStep, Before, mid
        <4>2. QED
          BY <1>4, <4>1
      <3>2. /\ HashAt(mid) >= lookup.key
            /\ \A i \in 0..(l - 1) : HashAt(i) < lookup.key
        BY <1>3, <1>4, <1>5, <1>6, <2>2
      <3>3. sortedHashes' = sortedHashes
        BY <1>1 DEF nodeVars
      <3> HIDE DEF mid
      <3>4. /\ lookup'.at = "search" /\ lookup'.left = l /\ lookup'.right = mid
            /\ lookup'.key = lookup.key
            /\ lookup' \in [at : {"search"}, key : Hashes, count : 0..MaxCount,
                            left : Nat, right : Nat]
        BY <1>4, <1>6, <3>1
      <3>5. mid < Size /\ l <= mid
        BY <1>3, <1>4, <1>5, <1>6
      <3>6. /\ sortedHashes'[lookup'.right + 1] >= lookup'.key
            /\ \A i \in 0..(lookup'.left - 1) : sortedHashes'[i + 1] < lookup'.key
        BY <3>2, <3>3, <3>4 DEF HashAt
      <3>7. QED
        BY <1>2, <3>4, <3>5, <3>6 DEF SearchInv, HashAt
    <2>3. QED
      BY <2>1, <2>2
  <1>8. QED
    BY <1>1, <1>7 DEF IInv, WalkInv, DoneInv, SearchFinds

\* With one position left, it is the right one, or all hashes are before the
\* key and the ring begins again.
LEMMA SearchEndInv ==
    ASSUME IInv, SearchEnd
    PROVE  IInv'
  <1> DEFINE l == lookup.left
             start == IF HashAt(l) < lookup.key THEN 0 ELSE l
  <1>1. RingInv /\ RingInv' /\ UNCHANGED nodeVars
    BY DEF IInv, RingInv, RingSound, SearchEnd, nodeVars
  <1>2. /\ Size' = Size
        /\ \A i : HashAt(i)' = HashAt(i)
    BY <1>1 DEF Size, HashAt, nodeVars
  <1>3. /\ Size \in Nat
        /\ \A i \in 0..(Size - 1) : HashAt(i) \in Nat
        /\ \A i, j \in 0..(Size - 1) : i < j => HashAt(i) < HashAt(j)
    BY <1>1, SortedRing
  <1>4. /\ lookup.at = "search"
        /\ lookup \in [at : {"search"}, key : Hashes, count : 0..MaxCount, left : Nat, right : Nat]
        /\ l = lookup.right /\ l < Size
        /\ \A i \in 0..(l - 1) : HashAt(i) < lookup.key
        /\ l < Size - 1 => HashAt(l) >= lookup.key
    BY DEF SearchEnd, IInv, SearchInv
  <1>5. l \in Nat /\ lookup.key \in Nat
    BY <1>4, RingAssumption
  <1>6. lookup' = [at |-> "walk", key |-> lookup.key, count |-> lookup.count,
                   index |-> start, attempts |-> 0, selected |-> << >>]
    BY DEF SearchEnd
  <1>7. SearchFinds'
    <2>1. CASE HashAt(l) < lookup.key
      <3>1. l = Size - 1
        BY <1>3, <1>4, <1>5, <2>1
      <3>2. \A i \in 0..(Size - 1) : HashAt(i) < lookup.key
        BY <1>3, <1>4, <1>5, <2>1, <3>1
      <3>3. lookup'.index = 0 /\ lookup'.key = lookup.key
        BY <1>6, <2>1
      <3>4. QED
        BY <1>2, <1>3, <1>4, <1>5, <3>2, <3>3 DEF SearchFinds
    <2>2. CASE ~ (HashAt(l) < lookup.key)
      <3>1. lookup'.index = l /\ lookup'.key = lookup.key
        BY <1>6, <2>2
      <3>2. HashAt(l) >= lookup.key
        BY <1>3, <1>4, <1>5, <2>2
      <3>3. QED
        BY <1>2, <1>4, <3>1, <3>2 DEF SearchFinds
    <2>3. QED
      BY <2>1, <2>2
  <1>8. WalkInv'
    <2>1. start \in Nat /\ start < Size
      BY <1>3, <1>4, <1>5
    <2>2. << >> \in Seq(Nodes) /\ Len(<< >>) = 0 /\ Once(<< >>)
      BY DEF Once
    <2>3. QED
      BY <1>2, <1>3, <1>4, <1>6, <2>1, <2>2, RingAssumption DEF WalkInv
  <1>9. QED
    BY <1>1, <1>6, <1>7, <1>8 DEF IInv, SearchInv, DoneInv

LEMMA WalkStepInv ==
    ASSUME IInv, WalkStep
    PROVE  IInv'
  <1> DEFINE s == lookup.selected
             n == ring[HashAt(lookup.index)]
             t == IF IsNew(n) THEN Append(s, n) ELSE s
  <1>1. RingInv /\ RingInv' /\ UNCHANGED nodeVars
    BY DEF IInv, RingInv, RingSound, WalkStep, nodeVars
  <1>2. Size' = Size
    BY <1>1 DEF Size, nodeVars
  <1>3. Size \in Nat /\ \A i \in 0..(Size - 1) : HashAt(i) \in DOMAIN ring
    BY <1>1, SortedRing
  <1>4. /\ lookup.at = "walk"
        /\ lookup \in [at : {"walk"}, key : Hashes, count : 0..MaxCount, index : Nat,
                       attempts : 0..Size, selected : Seq(Nodes)]
        /\ lookup.index < Size /\ Once(s) /\ Len(s) < lookup.count /\ lookup.attempts < Size
    BY DEF WalkStep, Walking, IInv, WalkInv
  <1>5. lookup' = [lookup EXCEPT !.selected = t, !.index = (@ + 1) % Size, !.attempts = @ + 1]
    BY DEF WalkStep
  <1>6. s \in Seq(Nodes) /\ n \in Nodes
    BY <1>1, <1>3, <1>4 DEF RingInv, RingSound
  <1>7. t \in Seq(Nodes) /\ Once(t) /\ Len(t) <= lookup.count
    <2>1. CASE IsNew(n)
      <3>1. \A i \in 1..Len(s) : s[i] # n
        BY <1>6, <2>1 DEF IsNew, Selected
      <3>2. /\ Len(Append(s, n)) = Len(s) + 1 /\ Len(s) \in Nat
            /\ \A i \in 1..Len(s) : Append(s, n)[i] = s[i]
            /\ Append(s, n)[Len(s) + 1] = n
            /\ Append(s, n) \in Seq(Nodes)
        BY <1>6
      <3>3. Once(Append(s, n))
        BY <1>4, <3>1, <3>2 DEF Once
      <3>4. lookup.count \in Nat
        BY <1>4
      <3>5. QED
        BY <1>4, <2>1, <3>2, <3>3, <3>4
    <2>2. CASE ~ IsNew(n)
      <3>1. t = s
        BY <2>2
      <3>2. QED
        BY <1>4, <1>6, <3>1
    <2>3. QED
      BY <2>1, <2>2
  <1>8. (lookup.index + 1) % Size \in Nat /\ (lookup.index + 1) % Size < Size
    BY <1>3, <1>4
  <1>9. lookup.attempts + 1 \in 0..Size /\ lookup.attempts + 1 # 0
    BY <1>3, <1>4
  <1> HIDE DEF t
  <1>10. lookup' = [at |-> "walk", key |-> lookup.key, count |-> lookup.count,
                    index |-> (lookup.index + 1) % Size, attempts |-> lookup.attempts + 1,
                    selected |-> t]
    BY <1>4, <1>5
  <1>11. WalkInv'
    BY <1>2, <1>4, <1>7, <1>8, <1>9, <1>10 DEF WalkInv
  <1>12. SearchFinds'
    BY <1>9, <1>10 DEF SearchFinds
  <1>13. QED
    BY <1>1, <1>10, <1>11, <1>12 DEF IInv, SearchInv, DoneInv

LEMMA WalkEndInv ==
    ASSUME IInv, WalkEnd
    PROVE  IInv'
  <1>1. RingInv /\ RingInv'
    BY DEF IInv, RingInv, RingSound, WalkEnd, nodeVars
  <1>2. /\ lookup \in [at : {"walk"}, key : Hashes, count : 0..MaxCount, index : Nat,
                       attempts : 0..Size, selected : Seq(Nodes)]
        /\ Once(lookup.selected) /\ Len(lookup.selected) <= lookup.count
        /\ lookup' = [at |-> "done", key |-> lookup.key, count |-> lookup.count,
                      selected |-> lookup.selected]
    BY DEF WalkEnd, Done, IInv, WalkInv
  <1>3. DoneInv'
    BY <1>2 DEF DoneInv
  <1>4. QED
    BY <1>1, <1>2, <1>3 DEF IInv, SearchInv, WalkInv, SearchFinds

-----------------------------------------------------------------------------

LEMMA Invariance == Spec => []IInv
  <1>1. Init => IInv
    <2> SUFFICES ASSUME Init PROVE IInv
      OBVIOUS
    <2>1. lookup = Idle /\ lookup.at = "idle"
      BY DEF Init, Idle
    <2>2. /\ DOMAIN ring = {} /\ sortedHashes = << >>
          /\ physicalNodes = {} /\ IsFiniteSet({})
      BY FS_EmptySet DEF Init
    <2>3. Sort({}) = << >>
      <3>1. {} \in SUBSET Hashes /\ Sorted(Sort({}), {})
        BY SortAssumption
      <3>2. Sort({}) \in Seq({}) /\ Len(Sort({})) = 0
        BY <3>1, FS_EmptySet DEF Sorted
      <3>3. QED
        BY <3>2
    <2>4. RingInv
      BY <2>2, <2>3 DEF RingInv, RingSound
    <2>5. QED
      BY <2>1, <2>4 DEF IInv, SearchInv, WalkInv, DoneInv, SearchFinds
  <1>2. IInv /\ [Next]_vars => IInv'
    <2> SUFFICES ASSUME IInv, [Next]_vars PROVE IInv'
      OBVIOUS
    <2>1. RingInv
      BY DEF IInv
    <2>2. CASE \E n \in Nodes, count \in 0..MaxVirtual : AddNode(n, count)
      BY <2>1, <2>2, AddNodeInv
    <2>3. CASE \E n \in Nodes : RemoveNode(n)
      BY <2>1, <2>3, RemoveNodeInv
    <2>4. CASE Clear
      BY <2>4, ClearInv
    <2>5. CASE \E key \in Hashes, count \in 0..MaxCount : GetNodes(key, count)
      BY <2>5, GetNodesInv
    <2>6. CASE UNCHANGED vars
      <3>1. UNCHANGED <<physicalNodes, ring, sortedHashes, lookup>>
        BY <2>6 DEF vars
      <3>2. QED
        BY <3>1 DEF IInv, RingInv, RingSound, SearchInv, WalkInv, DoneInv, SearchFinds, Size, HashAt
    <2>7. QED
      BY <2>2, <2>3, <2>4, <2>5, <2>6, SearchStepInv, SearchEndInv, WalkStepInv, WalkEndInv
         DEF Next
  <1>3. QED
    BY <1>1, <1>2, PTL DEF Spec

\* The state of the ring is well typed, and the sorted hashes are those of the
\* map, for any nodes, whatever comes and goes.
THEOREM RingTypeCorrect == Spec => []TypeOK
  <1>1. IInv => TypeOK
    BY DEF IInv, RingInv, RingSound, SearchInv, WalkInv, DoneInv, TypeOK
  <1>2. QED
    BY <1>1, Invariance, PTL

\* The binary search of findStartIndex, with its wrap-around, finds what a
\* linear search would find, for a ring of any size and any key.
THEOREM SearchIsRight == Spec => []SearchFinds
  <1>1. IInv => SearchFinds
    BY DEF IInv
  <1>2. QED
    BY <1>1, Invariance, PTL

\* The walk around the ring returns no node twice.
THEOREM ReplicasDiffer == Spec => []SelectedOnce
  <1>1. IInv => SelectedOnce
    BY DEF IInv, DoneInv, SelectedOnce
  <1>2. QED
    BY <1>1, Invariance, PTL
-----------------------------------------------------------------------------
(* The order in which nodes are met *)

\* The i-th position of the walk that begins at start, and the node there.
Position(start, i) == IF start + i < Size THEN start + i ELSE start + i - Size
Met(start, i) == ring[HashAt(Position(start, i))]

\* Where a linear search for the first hash that is not before key ends.
IsStart(key, start) ==
    /\ start \in 0..(Size - 1)
    /\ \/ /\ HashAt(start) >= key
          /\ \A i \in 0..(start - 1) : HashAt(i) < key
       \/ /\ start = 0
          /\ \A i \in 0..(Size - 1) : HashAt(i) < key

\* After n steps from start, s has every node that was met, and each node was
\* selected where all nodes met until then were those before it in s.
Walked(start, n, s) ==
    /\ \A i \in 0..(n - 1) : \E b \in 1..Len(s) : s[b] = Met(start, i)
    /\ \A a \in 1..Len(s) : \E i \in 0..(n - 1) :
           /\ Met(start, i) = s[a]
           /\ \A j \in 0..(i - 1) : \E b \in 1..(a - 1) : s[b] = Met(start, j)

\* No more nodes are looked for than there are.
SearchCut == lookup.at = "search" => lookup.count <= Cardinality(physicalNodes)

WalkOrder ==
    lookup.at = "walk" =>
        /\ lookup.count <= Cardinality(physicalNodes)
        /\ \E start \in 0..(Size - 1) :
               /\ IsStart(lookup.key, start)
               /\ lookup.index = Position(start, lookup.attempts)
               /\ Walked(start, lookup.attempts, lookup.selected)

DoneOrder ==
    lookup.at = "done" =>
        /\ lookup.count <= Cardinality(physicalNodes)
        /\ Len(lookup.selected) = lookup.count
        /\ lookup.count > 0 =>
               \E start \in 0..(Size - 1), n \in 0..Size :
                   IsStart(lookup.key, start) /\ Walked(start, n, lookup.selected)

\* What the walk has selected so far is the beginning of the order of preference.
LookupInv == SearchCut /\ WalkOrder /\ DoneOrder

\* Every point of the ring has its position in the array.
LEMMA PointsHavePositions ==
    ASSUME RingInv, NEW h \in DOMAIN ring
    PROVE  \E i \in 0..(Size - 1) : h = HashAt(i)
  <1>1. DOMAIN ring \in SUBSET Hashes
    BY DEF RingInv, RingSound
  <1>2. Sorted(sortedHashes, DOMAIN ring)
    BY <1>1, SortAssumption DEF RingInv
  <1>3. PICK k \in DOMAIN sortedHashes : h = sortedHashes[k]
    BY <1>2 DEF Sorted
  <1>4. k \in 1..Size /\ Size \in Nat
    BY <1>2, <1>3 DEF Sorted, Size
  <1>5. k - 1 \in 0..(Size - 1) /\ (k - 1) + 1 = k
    BY <1>4
  <1>6. QED
    BY <1>3, <1>5 DEF HashAt

\* The walk passes every position once, and in Size steps all of them.
LEMMA PositionsOfWalk ==
    ASSUME Size \in Nat, NEW start \in 0..(Size - 1)
    PROVE  /\ \A i \in 0..(Size - 1) : Position(start, i) \in 0..(Size - 1)
           /\ \A p \in 0..(Size - 1) : \E i \in 0..(Size - 1) : p = Position(start, i)
  <1>1. ASSUME NEW p \in 0..(Size - 1)
        PROVE  \E i \in 0..(Size - 1) : p = Position(start, i)
    <2>1. CASE p >= start
      <3>1. p - start \in 0..(Size - 1) /\ p = Position(start, p - start)
        BY <2>1 DEF Position
      <3>2. QED
        BY <3>1
    <2>2. CASE p < start
      <3>1. p + Size - start \in 0..(Size - 1) /\ p = Position(start, p + Size - start)
        BY <2>2 DEF Position
      <3>2. QED
        BY <3>1
    <2>3. QED
      BY <2>1, <2>2
  <1>2. QED
    BY <1>1 DEF Position

\* Going on from the last position, the walk is at the first one.
LEMMA NextPosition ==
    ASSUME Size \in Nat, NEW start \in 0..(Size - 1), NEW i \in 0..(Size - 1)
    PROVE  (Position(start, i) + 1) % Size = Position(start, i + 1)
  <1> DEFINE p == Position(start, i)
  <1>1. p \in 0..(Size - 1)
    BY PositionsOfWalk
  <1>2. CASE p = Size - 1
    <2>1. (p + 1) % Size = 0
      BY <1>2
    <2>2. QED
      BY <1>2, <2>1 DEF Position
  <1>3. CASE p < Size - 1
    <2>1. (p + 1) % Size = p + 1
      BY <1>1, <1>3
    <2>2. QED
      BY <1>3, <2>1 DEF Position
  <1>4. QED
    BY <1>1, <1>2, <1>3

\* From the start of a lookup, later steps of the walk meet later hashes.
LEMMA WalkIsClockwise ==
    ASSUME RingInv, NEW key \in Hashes, NEW start, IsStart(key, start),
           NEW i \in 0..(Size - 1), NEW j \in 0..(Size - 1)
    PROVE  LET h == HashAt(Position(start, i))
               k == HashAt(Position(start, j))
           IN  (NoLater(key, h, k) /\ h # k) <=> i < j
  <1> DEFINE p == Position(start, i)
             q == Position(start, j)
             h == HashAt(p)
             k == HashAt(q)
  <1>1. /\ Size \in Nat /\ start \in 0..(Size - 1) /\ key \in Nat
        /\ \A m \in 0..(Size - 1) : HashAt(m) \in Nat
        /\ \A m, n \in 0..(Size - 1) : m < n => HashAt(m) < HashAt(n)
    BY SortedRing, RingAssumption DEF IsStart
  <1>2. p \in 0..(Size - 1) /\ q \in 0..(Size - 1)
    BY <1>1, PositionsOfWalk
  <1>3. /\ h \in Nat /\ k \in Nat
        /\ p < q => h < k
        /\ q < p => k < h
        /\ p = q => h = k
    BY <1>1, <1>2
  \* The hashes from start to the end of the array are not before key, those
  \* ahead of start are; unless all are before key, and start is the first.
  <1>4. \/ /\ p >= start <=> h >= key
           /\ q >= start <=> k >= key
        \/ start = 0 /\ h < key /\ k < key
    <2>1. CASE HashAt(start) >= key /\ \A m \in 0..(start - 1) : HashAt(m) < key
      <3>1. \A m \in 0..(Size - 1) : m >= start => HashAt(m) >= key
        <4> SUFFICES ASSUME NEW m \in 0..(Size - 1), m >= start PROVE HashAt(m) >= key
          OBVIOUS
        <4>1. HashAt(m) >= HashAt(start)
          BY <1>1
        <4>2. HashAt(m) \in Nat /\ HashAt(start) \in Nat
          BY <1>1
        <4>3. QED
          BY <1>1, <2>1, <4>1, <4>2
      <3>2. \A m \in 0..(Size - 1) : m < start => HashAt(m) < key
        BY <1>1, <2>1
      <3> HIDE DEF p, q
      <3>3. (p >= start => h >= key) /\ (p < start => h < key)
        BY <1>2, <3>1, <3>2
      <3>4. (q >= start => k >= key) /\ (q < start => k < key)
        BY <1>2, <3>1, <3>2
      <3> HIDE DEF h, k
      <3>5. QED
        BY <1>1, <1>2, <1>3, <3>3, <3>4
    <2>2. CASE start = 0 /\ \A m \in 0..(Size - 1) : HashAt(m) < key
      BY <1>2, <2>2
    <2>3. QED
      BY <2>1, <2>2 DEF IsStart
  <1>5. /\ i < j => \/ p < q /\ (p >= start \/ q < start)
                    \/ p >= start /\ q < start
        /\ i = j => p = q
        /\ j < i => \/ q < p /\ (q >= start \/ p < start)
                    \/ q >= start /\ p < start
    BY <1>1 DEF Position
  <1> HIDE DEF h, k, p, q
  <1>6. (NoLater(key, h, k) /\ h # k) <=> i < j
    <2>1. i \in Nat /\ j \in Nat
      BY <1>1
    <2>2. CASE i < j
      BY <1>1, <1>2, <1>3, <1>4, <1>5, <2>1, <2>2 DEF NoLater
    <2>3. CASE i = j
      BY <1>1, <1>2, <1>3, <1>4, <1>5, <2>1, <2>3 DEF NoLater
    <2>4. CASE j < i
      BY <1>1, <1>2, <1>3, <1>4, <1>5, <2>1, <2>4 DEF NoLater
    <2>5. QED
      BY <2>1, <2>2, <2>3, <2>4
  <1>7. QED
    BY <1>6 DEF h, k, p, q

\* One node precedes another if the walk meets it before every point of the other.
LEMMA PrecedesInWalk ==
    ASSUME RingInv, NEW key \in Hashes, NEW start, IsStart(key, start), NEW m, NEW n
    PROVE  Precedes(key, m, n) <=>
               \E i \in 0..(Size - 1) :
                   Met(start, i) = m /\ \A j \in 0..(Size - 1) : Met(start, j) = n => i < j
  <1> DEFINE w(i) == HashAt(Position(start, i))
             Steps == 0..(Size - 1)
  <1>1. Size \in Nat /\ start \in Steps
    BY SortedRing DEF IsStart
  <1>2. \A i \in Steps : w(i) \in DOMAIN ring /\ Met(start, i) = ring[w(i)]
    BY <1>1, SortedRing, PositionsOfWalk DEF Met
  <1>3. \A h \in DOMAIN ring : \E i \in Steps : h = w(i)
    BY <1>1, PointsHavePositions, PositionsOfWalk
  <1>4. \A i, j \in Steps : (NoLater(key, w(i), w(j)) /\ w(i) # w(j)) <=> i < j
    BY WalkIsClockwise
  <1> HIDE DEF w, Steps
  <1>5. ASSUME Precedes(key, m, n)
        PROVE  \E i \in Steps : Met(start, i) = m /\ \A j \in Steps : Met(start, j) = n => i < j
    <2>1. PICK h \in DOMAIN ring :
              ring[h] = m /\ \A k \in DOMAIN ring : ring[k] = n => NoLater(key, h, k) /\ h # k
      BY <1>5 DEF Precedes
    <2>2. PICK i \in Steps : h = w(i)
      BY <1>3
    <2>3. QED
      BY <1>2, <1>4, <2>1, <2>2
  <1>6. ASSUME NEW i \in Steps, Met(start, i) = m,
               \A j \in Steps : Met(start, j) = n => i < j
        PROVE  Precedes(key, m, n)
    <2>1. ring[w(i)] = m /\ w(i) \in DOMAIN ring
      BY <1>2, <1>6
    <2>2. ASSUME NEW k \in DOMAIN ring, ring[k] = n
          PROVE  NoLater(key, w(i), k) /\ w(i) # k
      <3>1. PICK j \in Steps : k = w(j)
        BY <1>3
      <3>2. i < j
        BY <1>2, <1>6, <2>2, <3>1
      <3>3. QED
        BY <1>4, <3>1, <3>2
    <2>3. QED
      BY <2>1, <2>2 DEF Precedes
  <1>7. QED
    BY <1>5, <1>6 DEF Steps

-----------------------------------------------------------------------------
(* What is selected is what is preferred *)

\* The ring has finitely many nodes, those that a lookup can find.
Found == {ring[h] : h \in DOMAIN ring}

LEMMA FoundNodes ==
    ASSUME RingInv
    PROVE  /\ IsFiniteSet(Found) /\ Cardinality(Found) \in Nat
           /\ Cardinality(physicalNodes) <= Cardinality(Found)
           /\ \A start \in 0..(Size - 1) :
                  /\ \A i \in 0..(Size - 1) : Met(start, i) \in Found
                  /\ \A n \in Found : \E i \in 0..(Size - 1) : Met(start, i) = n
  <1>1. IsFiniteSet(DOMAIN ring)
    BY RingAssumption, FS_Subset DEF RingInv, RingSound
  <1>2. IsFiniteSet(Found)
    <2> DEFINE f == [h \in DOMAIN ring |-> ring[h]]
    <2>1. f \in Surjection(DOMAIN ring, Found)
      BY DEF Surjection, Found
    <2>2. QED
      BY <1>1, <2>1, FS_Surjection
  <1>3. physicalNodes \subseteq Found
    BY DEF RingInv, RingSound, Found
  <1>4. Cardinality(Found) \in Nat /\ Cardinality(physicalNodes) <= Cardinality(Found)
    BY <1>2, <1>3, FS_CardinalityType, FS_Subset
  <1>5. ASSUME NEW start \in 0..(Size - 1)
        PROVE  /\ \A i \in 0..(Size - 1) : Met(start, i) \in Found
               /\ \A n \in Found : \E i \in 0..(Size - 1) : Met(start, i) = n
    <2>1. /\ \A i \in 0..(Size - 1) : Position(start, i) \in 0..(Size - 1)
          /\ \A p \in 0..(Size - 1) : \E i \in 0..(Size - 1) : p = Position(start, i)
      BY SortedRing, PositionsOfWalk
    <2>2. \A p \in 0..(Size - 1) : HashAt(p) \in DOMAIN ring
      BY SortedRing
    <2>3. \A h \in DOMAIN ring : \E p \in 0..(Size - 1) : h = HashAt(p)
      BY PointsHavePositions
    <2>4. QED
      BY <2>1, <2>2, <2>3 DEF Met, Found
  <1>6. QED
    BY <1>2, <1>4, <1>5

\* The first k nodes of a sequence without repetition are k nodes.
LEMMA FirstNodes ==
    ASSUME NEW s \in Seq(Nodes), Once(s), NEW k \in 0..Len(s)
    PROVE  /\ IsFiniteSet({s[b] : b \in 1..k})
           /\ Cardinality({s[b] : b \in 1..k}) = k
  <1> DEFINE S == {s[b] : b \in 1..k}
             f == [b \in 1..k |-> s[b]]
  <1>1. \A b \in 1..k : b \in 1..Len(s)
    OBVIOUS
  <1>2. f \in Bijection(1..k, S)
    BY <1>1 DEF Bijection, Injection, Surjection, IsInjective, Once
  <1>3. IsFiniteSet(1..k) /\ Cardinality(1..k) = k
    BY FS_Interval
  <1>4. QED
    BY <1>2, <1>3, FS_Bijection, FS_Surjection DEF ExistsBijection, Bijection

\* The nodes met before the a-th that was selected are the a - 1 selected before it.
LEMMA BeforeSelected ==
    ASSUME RingInv, NEW key \in Hashes, NEW start, IsStart(key, start),
           NEW n \in 0..Size, NEW s \in Seq(Nodes), Once(s), Walked(start, n, s),
           NEW a \in 1..Len(s)
    PROVE  {m \in Found \ {s[a]} : Precedes(key, m, s[a])} = {s[b] : b \in 1..(a - 1)}
  <1> DEFINE Steps == 0..(Size - 1)
             First == {s[b] : b \in 1..(a - 1)}
  <1>1. /\ Size \in Nat /\ start \in Steps /\ Len(s) \in Nat
        /\ \A i \in 0..(n - 1) : i \in Steps
    BY SortedRing DEF IsStart
  <1>2. /\ \A i \in Steps : Met(start, i) \in Found
        /\ \A m \in Found : \E i \in Steps : Met(start, i) = m
    BY <1>1, FoundNodes
  \* Where the b-th node was met first
  <1>3. \A b \in 1..Len(s) : \E i \in Steps :
            /\ Met(start, i) = s[b]
            /\ \A j \in 0..(i - 1) : \E c \in 1..(b - 1) : s[c] = Met(start, j)
    BY <1>1 DEF Walked
  <1>4. ASSUME NEW m \in Found, Precedes(key, m, s[a])
        PROVE  m \in First
    <2>1. PICK i \in Steps :
              Met(start, i) = m /\ \A j \in Steps : Met(start, j) = s[a] => i < j
      BY <1>4, PrecedesInWalk
    <2>2. PICK j \in Steps :
              /\ Met(start, j) = s[a]
              /\ \A l \in 0..(j - 1) : \E c \in 1..(a - 1) : s[c] = Met(start, l)
      BY <1>3
    <2>3. i \in 0..(j - 1)
      BY <2>1, <2>2
    <2>4. QED
      BY <2>1, <2>2, <2>3
  <1>5. ASSUME NEW b \in 1..(a - 1)
        PROVE  s[b] \in Found \ {s[a]} /\ Precedes(key, s[b], s[a])
    <2>1. b \in 1..Len(s) /\ b < a /\ a \in Nat
      BY <1>1
    <2>2. PICK i \in Steps :
              /\ Met(start, i) = s[b]
              /\ \A j \in 0..(i - 1) : \E c \in 1..(b - 1) : s[c] = Met(start, j)
      BY <1>3, <2>1
    <2>3. s[b] # s[a]
      BY <2>1 DEF Once
    <2>4. ASSUME NEW j \in Steps, Met(start, j) = s[a]
          PROVE  i < j
      <3>1. j # i
        BY <2>2, <2>3, <2>4
      <3>2. CASE j < i
        <4>1. j \in 0..(i - 1)
          BY <3>2
        <4>2. PICK c \in 1..(b - 1) : s[c] = s[a]
          BY <2>2, <2>4, <4>1
        <4>3. c \in 1..Len(s) /\ c # a
          BY <2>1
        <4>4. QED
          BY <4>2, <4>3 DEF Once
      <3>3. QED
        BY <1>1, <3>1, <3>2
    <2>5. Precedes(key, s[b], s[a])
      BY <2>2, <2>4, PrecedesInWalk
    <2>6. QED
      BY <1>2, <2>2, <2>3, <2>5
  <1>6. QED
    BY <1>4, <1>5

\* A node that was not selected is preceded by all that were.
LEMMA BeforeOthers ==
    ASSUME RingInv, NEW key \in Hashes, NEW start, IsStart(key, start),
           NEW n \in 0..Size, NEW s \in Seq(Nodes), Once(s), Walked(start, n, s),
           NEW m \in Found, \A b \in 1..Len(s) : s[b] # m
    PROVE  Cardinality({x \in Found \ {m} : Precedes(key, x, m)}) >= Len(s)
  <1> DEFINE Steps == 0..(Size - 1)
             All == {s[b] : b \in 1..Len(s)}
             Ahead == {x \in Found \ {m} : Precedes(key, x, m)}
  <1>1. /\ Size \in Nat /\ start \in Steps /\ Len(s) \in Nat
        /\ \A i \in 0..(n - 1) : i \in Steps
    BY SortedRing DEF IsStart
  <1>2. \A i \in Steps : Met(start, i) \in Found
    BY <1>1, FoundNodes
  <1>3. ASSUME NEW b \in 1..Len(s)
        PROVE  s[b] \in Ahead
    <2>1. PICK i \in 0..(n - 1) : Met(start, i) = s[b]
      BY DEF Walked
    <2>2. ASSUME NEW j \in Steps, Met(start, j) = m
          PROVE  i < j
      <3>1. j \notin 0..(n - 1)
        BY <2>2 DEF Walked
      <3>2. QED
        BY <1>1, <3>1
    <2>3. Precedes(key, s[b], m)
      BY <1>1, <2>1, <2>2, PrecedesInWalk
    <2>4. QED
      BY <1>1, <1>2, <2>1, <2>3
  <1>4. All \subseteq Ahead
    BY <1>3
  <1>5. IsFiniteSet(Ahead) /\ Cardinality(All) = Len(s)
    <2>1. IsFiniteSet(Ahead)
      BY FoundNodes, FS_Subset
    <2>2. Len(s) \in 0..Len(s)
      BY <1>1
    <2>3. Cardinality(All) = Len(s)
      BY <2>2, FirstNodes
    <2>4. QED
      BY <2>1, <2>3
  <1>6. Cardinality(All) <= Cardinality(Ahead)
    BY <1>4, <1>5, FS_Subset
  <1>7. QED
    BY <1>5, <1>6

\* So the nodes that were selected are the first in the order of preference.
LEMMA SelectedIsPreferred ==
    ASSUME RingInv, NEW key \in Hashes, NEW start, IsStart(key, start),
           NEW n \in 0..Size, NEW s \in Seq(Nodes), Once(s), Walked(start, n, s),
           Len(s) <= Cardinality(Found)
    PROVE  \A a \in 1..Len(s) : a \in 1..Cardinality(Found) /\ Preference(key)[a] = s[a]
  <1> SUFFICES ASSUME NEW a \in 1..Len(s)
               PROVE  a \in 1..Cardinality(Found) /\ Preference(key)[a] = s[a]
    OBVIOUS
  <1> DEFINE Ahead(m) == {x \in Found \ {m} : Precedes(key, x, m)}
             rank(m) == 1 + Cardinality(Ahead(m))
  <1>1. a \in 1..Cardinality(Found) /\ Len(s) \in Nat
    BY FoundNodes
  <1>2. \A b \in 1..Len(s) : s[b] \in Found /\ rank(s[b]) = b
    <2> SUFFICES ASSUME NEW b \in 1..Len(s) PROVE s[b] \in Found /\ rank(s[b]) = b
      OBVIOUS
    <2>1. Ahead(s[b]) = {s[c] : c \in 1..(b - 1)}
      BY BeforeSelected
    <2>2. Cardinality({s[c] : c \in 1..(b - 1)}) = b - 1
      <3>1. b - 1 \in 0..Len(s)
        OBVIOUS
      <3>2. QED
        BY <3>1, FirstNodes
    <2>3. s[b] \in Found
      <3>1. PICK i \in 0..(n - 1) : Met(start, i) = s[b]
        BY DEF Walked
      <3>2. i \in 0..(Size - 1) /\ start \in 0..(Size - 1)
        BY SortedRing DEF IsStart
      <3>3. QED
        BY <3>1, <3>2, FoundNodes
    <2> HIDE DEF Ahead
    <2>4. QED
      BY <2>1, <2>2, <2>3
  <1>3. \A m \in Found : (\A b \in 1..Len(s) : s[b] # m) => rank(m) # a
    <2> SUFFICES ASSUME NEW m \in Found, \A b \in 1..Len(s) : s[b] # m PROVE rank(m) # a
      OBVIOUS
    <2>1. Cardinality(Ahead(m)) >= Len(s)
      BY BeforeOthers
    <2>2. Cardinality(Ahead(m)) \in Nat
      BY FoundNodes, FS_Subset, FS_CardinalityType
    <2> HIDE DEF Ahead
    <2>3. QED
      BY <1>1, <2>1, <2>2
  <1>4. Preference(key) = [i \in 1..Cardinality(Found) |-> CHOOSE m \in Found : rank(m) = i]
    BY DEF Preference, Found
  <1>5. Preference(key)[a] = CHOOSE m \in Found : rank(m) = a
    BY <1>1, <1>4
  <1> HIDE DEF rank
  <1>6. \A m \in Found : rank(m) = a => m = s[a]
    BY <1>2, <1>3
  <1>7. QED
    BY <1>1, <1>2, <1>5, <1>6

-----------------------------------------------------------------------------
(* The steps of a lookup keep the order *)

\* Steps that leave the nodes alone leave the walk as it is.
LEMMA SameWalk ==
    ASSUME UNCHANGED nodeVars
    PROVE  /\ Size' = Size /\ Cardinality(physicalNodes)' = Cardinality(physicalNodes)
           /\ \A i : HashAt(i)' = HashAt(i)
           /\ \A start, i : Position(start, i)' = Position(start, i)
           /\ \A start, i : Met(start, i)' = Met(start, i)
           /\ \A key, start : IsStart(key, start)' <=> IsStart(key, start)
           /\ \A start, n, s : Walked(start, n, s)' <=> Walked(start, n, s)
  <1>1. physicalNodes' = physicalNodes /\ ring' = ring /\ sortedHashes' = sortedHashes
    BY DEF nodeVars
  <1>2. Size' = Size /\ \A i : HashAt(i)' = HashAt(i)
    BY <1>1 DEF Size, HashAt
  <1>3. \A start, i : Position(start, i)' = Position(start, i)
    BY <1>2 DEF Position
  <1>4. \A start, i : Met(start, i)' = Met(start, i)
    BY <1>1 DEF Met, HashAt, Position, Size
  <1>5. \A key, start : IsStart(key, start)' <=> IsStart(key, start)
    BY <1>1 DEF IsStart, HashAt, Size
  <1>6. \A start, n, s : Walked(start, n, s)' <=> Walked(start, n, s)
    BY <1>1 DEF Walked, Met, HashAt, Position, Size
  <1>7. QED
    BY <1>1, <1>2, <1>3, <1>4, <1>5, <1>6

LEMMA GetNodesOrder ==
    ASSUME IInv, NEW key \in Hashes, NEW asked \in 0..MaxCount, GetNodes(key, asked)
    PROVE  LookupInv'
  <1> DEFINE nodes == Cardinality(physicalNodes)
             count == IF asked > nodes THEN nodes ELSE asked
  <1>1. nodes \in Nat
    BY FS_CardinalityType DEF IInv, RingInv
  <1>2. Cardinality(physicalNodes)' = nodes
    BY DEF GetNodes, nodeVars
  <1>3. CASE nodes = 0
    <2>1. lookup' = [at |-> "done", key |-> key, count |-> 0, selected |-> << >>]
      BY <1>3 DEF GetNodes, Done
    <2>2. QED
      BY <1>2, <1>3, <2>1 DEF LookupInv, SearchCut, WalkOrder, DoneOrder
  <1>4. CASE nodes # 0
    <2>1. lookup'.at = "search" /\ lookup'.count = count
      BY <1>4 DEF GetNodes
    <2>2. count <= nodes
      BY <1>1
    <2>3. QED
      BY <1>2, <2>1, <2>2 DEF LookupInv, SearchCut, WalkOrder, DoneOrder
  <1>5. QED
    BY <1>3, <1>4

LEMMA SearchStepOrder ==
    ASSUME IInv, LookupInv, SearchStep
    PROVE  LookupInv'
  <1>1. /\ lookup.at = "search"
        /\ lookup \in [at : {"search"}, key : Hashes, count : 0..MaxCount, left : Nat, right : Nat]
        /\ lookup.count <= Cardinality(physicalNodes)
    BY DEF SearchStep, IInv, SearchInv, LookupInv, SearchCut
  <1>2. Cardinality(physicalNodes)' = Cardinality(physicalNodes)
    BY DEF SearchStep, nodeVars
  <1>3. lookup'.at = "search" /\ lookup'.count = lookup.count
    BY <1>1 DEF SearchStep
  <1>4. QED
    BY <1>1, <1>2, <1>3 DEF LookupInv, SearchCut, WalkOrder, DoneOrder

\* The walk begins where SearchFinds says, and nothing has been met.
LEMMA SearchEndOrder ==
    ASSUME IInv, IInv', LookupInv, SearchEnd
    PROVE  LookupInv'
  <1>1. lookup.at = "search" /\ lookup.count <= Cardinality(physicalNodes)
    BY DEF SearchEnd, LookupInv, SearchCut
  <1>2. PICK key, count, start :
            lookup' = [at |-> "walk", key |-> key, count |-> count, index |-> start,
                       attempts |-> 0, selected |-> << >>] /\ count = lookup.count
    BY DEF SearchEnd
  <1>3. /\ lookup'.at = "walk" /\ lookup'.key = key /\ lookup'.count = count
        /\ lookup'.index = start /\ lookup'.attempts = 0 /\ lookup'.selected = << >>
    BY <1>2
  <1>4. UNCHANGED nodeVars /\ Cardinality(physicalNodes)' = Cardinality(physicalNodes)
    BY DEF SearchEnd, nodeVars
  <1>5. Size \in Nat /\ Size' = Size
    BY <1>4, SortedRing, SameWalk DEF IInv
  <1>6. start \in Nat /\ start < Size
    BY <1>3, <1>5 DEF IInv, WalkInv
  <1>7. IsStart(key, start)'
    BY <1>3, <1>5, <1>6 DEF IInv, SearchFinds, IsStart
  <1>8. start = Position(start, 0)'
    BY <1>5, <1>6 DEF Position
  <1>9. Walked(start, 0, << >>)'
    BY DEF Walked
  <1>10. start \in 0..(Size' - 1)
    BY <1>5, <1>6
  <1>11. WalkOrder'
    BY <1>1, <1>2, <1>3, <1>4, <1>7, <1>8, <1>9, <1>10 DEF WalkOrder
  <1>12. QED
    BY <1>3, <1>11 DEF LookupInv, SearchCut, DoneOrder

\* One more node is met, and appended unless it was met before.
LEMMA WalkOn ==
    ASSUME NEW start, NEW k \in Nat, NEW s \in Seq(Nodes), Walked(start, k, s),
           Met(start, k) \in Nodes,
           NEW t, t = IF \E b \in 1..Len(s) : s[b] = Met(start, k)
                      THEN s ELSE Append(s, Met(start, k))
    PROVE  Walked(start, k + 1, t)
  <1> DEFINE n == Met(start, k)
  <1>1. /\ \A i \in 0..(k - 1) : \E b \in 1..Len(s) : s[b] = Met(start, i)
        /\ \A a \in 1..Len(s) : \E i \in 0..(k - 1) :
               /\ Met(start, i) = s[a]
               /\ \A j \in 0..(i - 1) : \E b \in 1..(a - 1) : s[b] = Met(start, j)
    BY DEF Walked
  <1>2. /\ Len(s) \in Nat
        /\ \A i \in 0..k : i \in 0..(k - 1) \/ i = k
        /\ \A i \in 0..(k - 1) : i \in 0..k
        /\ k \in 0..k
    OBVIOUS
  <1>3. CASE \E b \in 1..Len(s) : s[b] = n
    <2>1. t = s
      BY <1>3
    <2>2. Walked(start, k + 1, s)
      <3>1. \A i \in 0..k : \E b \in 1..Len(s) : s[b] = Met(start, i)
        BY <1>1, <1>2, <1>3
      <3>2. \A a \in 1..Len(s) : \E i \in 0..k :
               /\ Met(start, i) = s[a]
               /\ \A j \in 0..(i - 1) : \E b \in 1..(a - 1) : s[b] = Met(start, j)
        BY <1>1, <1>2
      <3>3. (k + 1) - 1 = k
        OBVIOUS
      <3>4. QED
        BY <3>1, <3>2, <3>3 DEF Walked
    <2>3. QED
      BY <2>1, <2>2
  <1>4. CASE ~ \E b \in 1..Len(s) : s[b] = n
    <2>1. t = Append(s, n)
      BY <1>4
    <2>2. /\ Len(t) = Len(s) + 1
          /\ \A b \in 1..Len(s) : t[b] = s[b] /\ b \in 1..Len(t)
          /\ t[Len(s) + 1] = n /\ Len(s) + 1 \in 1..Len(t)
          /\ \A b \in 1..Len(t) : b \in 1..Len(s) \/ b = Len(s) + 1
      BY <1>2, <2>1
    <2>3. \A i \in 0..k : \E b \in 1..Len(t) : t[b] = Met(start, i)
      BY <1>1, <1>2, <2>2
    <2>4. ASSUME NEW a \in 1..Len(t)
          PROVE  \E i \in 0..k :
                     /\ Met(start, i) = t[a]
                     /\ \A j \in 0..(i - 1) : \E b \in 1..(a - 1) : t[b] = Met(start, j)
      <3>1. CASE a \in 1..Len(s)
        <4>1. PICK i \in 0..(k - 1) :
                  /\ Met(start, i) = s[a]
                  /\ \A j \in 0..(i - 1) : \E b \in 1..(a - 1) : s[b] = Met(start, j)
          BY <1>1, <3>1
        <4>2. \A b \in 1..(a - 1) : b \in 1..Len(s)
          BY <1>2, <3>1
        <4>3. QED
          BY <1>2, <2>2, <3>1, <4>1, <4>2
      <3>2. CASE a = Len(s) + 1
        <4>1. a - 1 = Len(s)
          BY <1>2, <3>2
        <4>2. \A j \in 0..(k - 1) : \E b \in 1..(a - 1) : t[b] = Met(start, j)
          BY <1>1, <2>2, <4>1
        <4>3. Met(start, k) = t[a]
          BY <2>2, <3>2
        <4>4. QED
          BY <1>2, <4>2, <4>3
      <3>3. QED
        BY <2>2, <3>1, <3>2
    <2>5. (k + 1) - 1 = k
      OBVIOUS
    <2>6. QED
      BY <2>3, <2>4, <2>5 DEF Walked
  <1>5. QED
    BY <1>3, <1>4

LEMMA WalkStepOrder ==
    ASSUME IInv, LookupInv, WalkStep
    PROVE  LookupInv'
  <1>1. /\ lookup.at = "walk"
        /\ lookup \in [at : {"walk"}, key : Hashes, count : 0..MaxCount, index : Nat,
                       attempts : 0..Size, selected : Seq(Nodes)]
        /\ lookup.attempts < Size /\ lookup.count <= Cardinality(physicalNodes)
    BY DEF WalkStep, Walking, IInv, WalkInv, LookupInv, WalkOrder
  <1>2. PICK s, k, n, t, next :
            /\ s = lookup.selected /\ k = lookup.attempts /\ n = ring[HashAt(lookup.index)]
            /\ t = IF IsNew(n) THEN Append(s, n) ELSE s
            /\ next = (lookup.index + 1) % Size
    OBVIOUS
  <1>3. PICK start \in 0..(Size - 1) :
            /\ IsStart(lookup.key, start)
            /\ lookup.index = Position(start, k)
            /\ Walked(start, k, s)
    BY <1>1, <1>2 DEF LookupInv, WalkOrder
  <1>4. UNCHANGED nodeVars
    BY DEF WalkStep
  <1>5. Size \in Nat /\ k \in 0..(Size - 1) /\ k \in Nat
    BY <1>1, <1>2, SortedRing DEF IInv
  <1>6. lookup' = [lookup EXCEPT !.selected = t, !.index = next, !.attempts = k + 1]
    BY <1>2 DEF WalkStep
  <1>7. /\ lookup'.at = "walk" /\ lookup'.key = lookup.key /\ lookup'.count = lookup.count
        /\ lookup'.index = next /\ lookup'.attempts = k + 1 /\ lookup'.selected = t
    BY <1>1, <1>6
  <1>8. n = Met(start, k) /\ n \in Nodes
    <2>1. n = Met(start, k)
      BY <1>2, <1>3 DEF Met
    <2>2. HashAt(Position(start, k)) \in DOMAIN ring
      BY <1>5, PositionsOfWalk, SortedRing DEF IInv
    <2>3. QED
      BY <2>1, <2>2 DEF Met, IInv, RingInv, RingSound
  <1>9. Walked(start, k + 1, t)
    <2>1. s \in Seq(Nodes)
      BY <1>1, <1>2
    <2>2. IsNew(n) <=> ~ \E b \in 1..Len(s) : s[b] = n
      BY <1>2, <2>1 DEF IsNew, Selected
    <2>3. t = IF \E b \in 1..Len(s) : s[b] = Met(start, k) THEN s ELSE Append(s, Met(start, k))
      BY <1>2, <1>8, <2>2
    <2>4. QED
      BY <1>3, <1>5, <1>8, <2>1, <2>3, WalkOn
  <1>10. next = Position(start, k + 1)
    BY <1>2, <1>3, <1>5, NextPosition
  <1>11. WalkOrder'
    <2>1. PICK key : key = lookup.key
      OBVIOUS
    <2>2. /\ Size' = Size /\ Cardinality(physicalNodes)' = Cardinality(physicalNodes)
          /\ Position(start, k + 1)' = Position(start, k + 1)
          /\ IsStart(key, start)'
          /\ Walked(start, k + 1, t)'
      BY <1>3, <1>4, <1>9, <2>1, SameWalk
    <2>3. QED
      BY <1>1, <1>7, <1>10, <2>1, <2>2 DEF WalkOrder
  <1>12. QED
    BY <1>7, <1>11 DEF LookupInv, SearchCut, DoneOrder

\* The walk ends with as many nodes as were asked for: in all of the ring there
\* are as many as there are physical nodes.
LEMMA WalkEndOrder ==
    ASSUME IInv, LookupInv, WalkEnd
    PROVE  LookupInv'
  <1>1. /\ lookup.at = "walk"
        /\ lookup \in [at : {"walk"}, key : Hashes, count : 0..MaxCount, index : Nat,
                       attempts : 0..Size, selected : Seq(Nodes)]
        /\ Once(lookup.selected) /\ Len(lookup.selected) <= lookup.count
        /\ lookup.count <= Cardinality(physicalNodes)
    BY DEF WalkEnd, IInv, WalkInv, LookupInv, WalkOrder
  <1>2. PICK key, s, k :
            s = lookup.selected /\ k = lookup.attempts /\ key = lookup.key
    OBVIOUS
  <1>3. PICK start \in 0..(Size - 1) : IsStart(key, start) /\ Walked(start, k, s)
    BY <1>1, <1>2 DEF LookupInv, WalkOrder
  <1>4. UNCHANGED nodeVars
    BY DEF WalkEnd
  <1>5. /\ lookup'.at = "done" /\ lookup'.key = key /\ lookup'.count = lookup.count
        /\ lookup'.selected = s
    BY <1>2 DEF WalkEnd, Done
  <1>6. Len(s) = lookup.count
    <2>1. s \in Seq(Nodes) /\ Once(s) /\ Len(s) \in Nat /\ lookup.count \in Nat
      BY <1>1, <1>2
    <2>2. CASE Len(s) < lookup.count
      <3>1. k = Size
        <4>1. k \in 0..Size /\ ~ (k < Size)
          BY <1>1, <1>2, <2>2 DEF WalkEnd, Walking
        <4>2. QED
          BY <4>1, SortedRing DEF IInv
      <3>2. Found \subseteq {s[b] : b \in 1..Len(s)}
        <4> SUFFICES ASSUME NEW n \in Found PROVE n \in {s[b] : b \in 1..Len(s)}
          OBVIOUS
        <4>1. PICK i \in 0..(Size - 1) : Met(start, i) = n
          BY FoundNodes DEF IInv
        <4>2. QED
          BY <1>3, <3>1, <4>1 DEF Walked
      <3>3. Len(s) \in 0..Len(s)
        BY <2>1
      <3>4. /\ IsFiniteSet({s[b] : b \in 1..Len(s)})
            /\ Cardinality({s[b] : b \in 1..Len(s)}) = Len(s)
        BY <2>1, <3>3, FirstNodes
      <3>5. Cardinality(Found) <= Len(s)
        BY <3>2, <3>4, FS_Subset
      <3>6. /\ Cardinality(physicalNodes) <= Cardinality(Found)
            /\ Cardinality(Found) \in Nat /\ Cardinality(physicalNodes) \in Nat
        BY FoundNodes, FS_CardinalityType DEF IInv, RingInv
      <3>7. QED
        BY <1>1, <2>1, <2>2, <3>5, <3>6
    <2>3. QED
      BY <1>1, <1>2, <2>1, <2>2
  <1>7. DoneOrder'
    <2>1. k \in 0..Size
      BY <1>1, <1>2
    <2>2. /\ Size' = Size /\ Cardinality(physicalNodes)' = Cardinality(physicalNodes)
          /\ IsStart(key, start)' /\ Walked(start, k, s)'
      BY <1>3, <1>4, SameWalk
    <2>3. QED
      BY <1>1, <1>5, <1>6, <2>1, <2>2 DEF DoneOrder
  <1>8. QED
    BY <1>5, <1>7 DEF LookupInv, SearchCut, WalkOrder

\* As nodes come and go there is no lookup.
LEMMA NewRingOrder ==
    ASSUME NEW new, SetRing(new)
    PROVE  LookupInv'
  <1>1. lookup'.at = "idle"
    BY DEF SetRing, Idle
  <1>2. QED
    BY <1>1 DEF LookupInv, SearchCut, WalkOrder, DoneOrder

LEMMA LookupInvariance == Spec => []LookupInv
  <1>1. Init => LookupInv
    <2> SUFFICES ASSUME Init PROVE LookupInv
      OBVIOUS
    <2>1. lookup.at = "idle"
      BY DEF Init, Idle
    <2>2. QED
      BY <2>1 DEF LookupInv, SearchCut, WalkOrder, DoneOrder
  <1>2. IInv /\ IInv' /\ LookupInv /\ [Next]_vars => LookupInv'
    <2> SUFFICES ASSUME IInv, IInv', LookupInv, [Next]_vars PROVE LookupInv'
      OBVIOUS
    <2>1. CASE \E n \in Nodes, count \in 0..MaxVirtual : AddNode(n, count)
      BY <2>1, NewRingOrder DEF AddNode
    <2>2. CASE \E n \in Nodes : RemoveNode(n)
      BY <2>2, NewRingOrder DEF RemoveNode
    <2>3. CASE Clear
      BY <2>3, NewRingOrder DEF Clear
    <2>4. CASE \E key \in Hashes, count \in 0..MaxCount : GetNodes(key, count)
      BY <2>4, GetNodesOrder
    <2>5. CASE UNCHANGED vars
      <3>1. UNCHANGED <<physicalNodes, ring, sortedHashes, lookup>>
        BY <2>5 DEF vars
      <3>2. QED
        BY <3>1 DEF LookupInv, SearchCut, WalkOrder, DoneOrder, Walked, IsStart, Met, Position,
                    HashAt, Size
    <2>6. QED
      BY <2>1, <2>2, <2>3, <2>4, <2>5, SearchStepOrder, SearchEndOrder, WalkStepOrder, WalkEndOrder
         DEF Next
  <1>3. QED
    BY <1>1, <1>2, Invariance, PTL DEF Spec

\* A lookup returns as many nodes as are asked for, as far as there are nodes,
\* and they are the first that a walk clockwise from the key meets: what the
\* binary search and the walk of getNodes find is the order of preference that
\* the ring defines, for any nodes, points and keys.
THEOREM LookupReturnsPreferred == Spec => []LookupRight
  <1>1. IInv /\ LookupInv => LookupRight
    <2> SUFFICES ASSUME IInv, LookupInv, lookup.at = "done"
                 PROVE  /\ lookup.count <= Cardinality(physicalNodes)
                        /\ lookup.selected = SubSeq(Preference(lookup.key), 1, lookup.count)
      BY DEF LookupRight
    <2> DEFINE s == lookup.selected
               key == lookup.key
               p == Preference(key)
    <2>1. /\ lookup.count <= Cardinality(physicalNodes) /\ Len(s) = lookup.count
          /\ key \in Hashes /\ s \in Seq(Nodes) /\ Once(s) /\ lookup.count \in Nat
      BY DEF LookupInv, DoneOrder, IInv, DoneInv
    <2>2. /\ Cardinality(Found) \in Nat /\ Cardinality(physicalNodes) \in Nat
          /\ Cardinality(physicalNodes) <= Cardinality(Found)
      BY FoundNodes, FS_CardinalityType DEF IInv, RingInv
    <2>3. CASE lookup.count = 0
      <3>1. s = << >>
        BY <2>1, <2>3
      <3>2. SubSeq(p, 1, 0) = << >>
        BY SubSeqEmpty
      <3>3. QED
        BY <2>1, <2>3, <3>1, <3>2
    <2>4. CASE lookup.count > 0
      <3>1. PICK start \in 0..(Size - 1), n \in 0..Size : IsStart(key, start) /\ Walked(start, n, s)
        BY <2>4 DEF LookupInv, DoneOrder
      <3>2. \A a \in 1..Len(s) : p[a] = s[a]
        BY <2>1, <2>2, <3>1, SelectedIsPreferred DEF IInv
      <3>3. SubSeq(p, 1, lookup.count) = [a \in 1..lookup.count |-> p[a]]
        BY <2>1
      <3>4. s = [a \in 1..lookup.count |-> p[a]]
        BY <2>1, <3>2
      <3>5. QED
        BY <2>1, <3>3, <3>4
    <2>5. QED
      BY <2>1, <2>3, <2>4
  <1>2. QED
    BY <1>1, Invariance, LookupInvariance, PTL

-----------------------------------------------------------------------------
(* What a node that comes or goes leaves alone *)

Changes(n) == RemoveNode(n) \/ \E count \in 0..MaxVirtual : AddNode(n, count)

\* As n comes or goes the others stay on the ring, in the order in which they
\* are met from any key on.
OrderOfOthers(n) ==
    \A key \in Hashes, m, k \in Nodes \ {n} :
        /\ HasPoint(m)' <=> HasPoint(m)
        /\ Precedes(key, m, k)' <=> Precedes(key, m, k)

\* No point of another node is taken away, overwritten or added.
LEMMA PointsOfOthers ==
    ASSUME RingInv, NEW n \in Nodes, Changes(n), NEW m \in Nodes \ {n}, NEW h
    PROVE  (h \in DOMAIN ring' /\ ring'[h] = m) <=> (h \in DOMAIN ring /\ ring[h] = m)
  <1>1. CASE RemoveNode(n)
    <2>1. ring' = [g \in DOMAIN ring \ Removed(n) |-> ring[g]]
      BY <1>1 DEF RemoveNode, SetRing
    <2>2. QED
      BY <2>1 DEF Removed
  <1>2. CASE \E virtual \in 0..MaxVirtual : AddNode(n, virtual)
    <2>1. PICK virtual \in 0..MaxVirtual : AddNode(n, virtual)
      BY <1>2
    <2> DEFINE count == IF virtual = 0 THEN DefaultVirtual ELSE virtual
               points == PointsOf(n, count)
    <2>2. ring' = [g \in DOMAIN ring \cup points |-> IF g \in points THEN n ELSE ring[g]]
      BY <2>1 DEF AddNode, SetRing
    <2>3. count \in 1..MaxVirtual /\ MaxVirtual \in Nat
      BY RingAssumption
    <2>4. ASSUME h \in points PROVE ~ (h \in DOMAIN ring /\ ring[h] = m)
      <3>1. PICK i \in 0..(MaxVirtual - 1) : h = PointOf[n][i]
        BY <2>3, <2>4 DEF PointsOf
      <3>2. SUFFICES ASSUME h \in DOMAIN ring, ring[h] = m PROVE FALSE
        OBVIOUS
      <3>3. PICK j \in 0..(MaxVirtual - 1) : h = PointOf[m][j]
        BY <3>2 DEF RingInv, RingSound
      <3>4. QED
        BY <3>1, <3>3, PointsDiffer
    <2> HIDE DEF points
    <2>5. QED
      BY <2>2, <2>4
  <1>3. QED
    BY <1>1, <1>2 DEF Changes

\* A node that comes or goes changes nothing in the order of the others, so a
\* chunk moves to it or from it and never between two others: what consistent
\* hashing is for, whatever the numbers of virtual nodes.
THEOREM OthersStayInOrder == Spec => [][\A n \in Nodes : Changes(n) => OrderOfOthers(n)]_vars
  <1>1. IInv => ([Next]_vars => [\A n \in Nodes : Changes(n) => OrderOfOthers(n)]_vars)
    <2> SUFFICES ASSUME RingInv, NEW n \in Nodes, Changes(n),
                        NEW key \in Hashes, NEW m \in Nodes \ {n}, NEW k \in Nodes \ {n}
                 PROVE  /\ HasPoint(m)' <=> HasPoint(m)
                        /\ Precedes(key, m, k)' <=> Precedes(key, m, k)
      BY DEF IInv, OrderOfOthers
    <2>1. \A h : (h \in DOMAIN ring' /\ ring'[h] = m) <=> (h \in DOMAIN ring /\ ring[h] = m)
      BY PointsOfOthers
    <2>2. \A h : (h \in DOMAIN ring' /\ ring'[h] = k) <=> (h \in DOMAIN ring /\ ring[h] = k)
      BY PointsOfOthers
    <2>3. HasPoint(m)' <=> HasPoint(m)
      BY <2>1 DEF HasPoint
    <2>4. Precedes(key, m, k)' <=> Precedes(key, m, k)
      BY <2>1, <2>2 DEF Precedes
    <2>5. QED
      BY <2>3, <2>4
  <1>2. QED
    BY <1>1, Invariance, PTL DEF Spec

-----------------------------------------------------------------------------
(* The preference lists the nodes of the ring in the order of the walk *)

\* A set of numbers has a least one.
LEMMA LeastOf ==
    ASSUME NEW T, T \subseteq Nat, T # {}
    PROVE  \E i \in T : \A j \in T : i <= j
  <1>1. PICK i \in T : \A j \in T : ~ (<<j, i>> \in OpToRel(<, Nat))
    BY NatLessThanWellFounded, WFMin
  <1>2. \A j \in T : ~ (j < i)
    BY <1>1 DEF OpToRel
  <1>3. QED
    BY <1>2

\* On a ring that is not empty every walk begins somewhere.
LEMMA WalksBegin ==
    ASSUME RingInv, NEW key \in Hashes, Size > 0
    PROVE  \E start : IsStart(key, start)
  <1> DEFINE T == {i \in 0..(Size - 1) : HashAt(i) >= key}
  <1>1. /\ Size \in Nat /\ key \in Nat
        /\ \A m \in 0..(Size - 1) : HashAt(m) \in Nat
    BY SortedRing, RingAssumption
  <1>2. CASE T = {}
    <2>1. \A i \in 0..(Size - 1) : HashAt(i) < key
      BY <1>1, <1>2
    <2>2. IsStart(key, 0)
      BY <1>1, <2>1 DEF IsStart
    <2>3. QED
      BY <2>2
  <1>3. CASE T # {}
    <2>1. T \subseteq Nat
      OBVIOUS
    <2>2. PICK start \in T : \A j \in T : start <= j
      BY <1>3, <2>1, LeastOf
    <2>3. ASSUME NEW i \in 0..(start - 1) PROVE HashAt(i) < key
      <3>1. i \in 0..(Size - 1) /\ ~ (start <= i)
        BY <1>1, <2>2
      <3>2. ~ (HashAt(i) >= key) /\ HashAt(i) \in Nat
        BY <1>1, <2>2, <3>1
      <3>3. QED
        BY <1>1, <3>2
    <2>4. IsStart(key, start)
      BY <2>2, <2>3 DEF IsStart
    <2>5. QED
      BY <2>4
  <1>4. QED
    BY <1>2, <1>3

\* m is met for the first time in step f[m], and precedes the nodes that are
\* met for the first time later.
LEMMA FirstMet ==
    ASSUME RingInv, NEW key \in Hashes
    PROVE  \E f \in Injection(Found, Nat) :
               \A m, n \in Found : Precedes(key, m, n) <=> f[m] < f[n]
  <1>1. CASE Found = {}
    <2> DEFINE f == [m \in Found |-> 0]
    <2>1. f \in Injection(Found, Nat)
      BY <1>1 DEF Injection, IsInjective
    <2>2. QED
      BY <1>1, <2>1
  <1>2. CASE Found # {}
    <2> DEFINE Steps == 0..(Size - 1)
    <2>1. Size \in Nat
      BY SortedRing
    <2>2. Size > 0
      <3>1. PICK h \in DOMAIN ring : TRUE
        BY <1>2 DEF Found
      <3>2. PICK i \in Steps : h = HashAt(i)
        BY PointsHavePositions
      <3>3. QED
        BY <2>1, <3>2
    <2>3. PICK start : IsStart(key, start)
      BY <2>2, WalksBegin
    <2>4. start \in Steps
      BY <2>3 DEF IsStart
    <2>5. \A n \in Found : \E i \in Steps : Met(start, i) = n
      BY <2>4, FoundNodes
    <2>6. \A m, n : Precedes(key, m, n) <=>
              \E i \in Steps : Met(start, i) = m /\ \A j \in Steps : Met(start, j) = n => i < j
      BY <2>3, PrecedesInWalk
    <2>7. ASSUME NEW m \in Found
          PROVE  \E i \in Steps : Met(start, i) = m /\ \A j \in Steps : Met(start, j) = m => i <= j
      <3> DEFINE T == {i \in Steps : Met(start, i) = m}
      <3>1. T \subseteq Nat /\ T # {}
        BY <2>1, <2>5
      <3>2. PICK i \in T : \A j \in T : i <= j
        BY <3>1, LeastOf
      <3>3. QED
        BY <3>2
    <2> DEFINE f == [m \in Found |-> CHOOSE i \in Steps :
                        Met(start, i) = m /\ \A j \in Steps : Met(start, j) = m => i <= j]
    <2>8. \A m \in Found : /\ f[m] \in Steps /\ Met(start, f[m]) = m
                           /\ \A j \in Steps : Met(start, j) = m => f[m] <= j
      BY <2>7
    <2>9. f \in [Found -> Nat]
      <3>1. Steps \subseteq Nat /\ f = [m \in Found |-> f[m]]
        BY <2>1
      <3> HIDE DEF f, Steps
      <3>2. QED
        BY <2>8, <3>1
    <2>10. Steps \subseteq Nat
      BY <2>1
    <2> HIDE DEF f, Steps
    <2>11. f \in Injection(Found, Nat)
      BY <2>8, <2>9 DEF Injection, IsInjective
    <2>12. ASSUME NEW m \in Found, NEW n \in Found
           PROVE  Precedes(key, m, n) <=> f[m] < f[n]
      <3>1. /\ f[m] \in Steps /\ Met(start, f[m]) = m
            /\ f[n] \in Steps /\ Met(start, f[n]) = n
            /\ \A j \in Steps : Met(start, j) = m => f[m] <= j
            /\ \A j \in Steps : Met(start, j) = n => f[n] <= j
        BY <2>8
      <3>2. ASSUME NEW i \in Steps, Met(start, i) = m,
                   \A j \in Steps : Met(start, j) = n => i < j
            PROVE  f[m] < f[n]
        <4>1. f[m] <= i /\ i < f[n]
          BY <3>1, <3>2
        <4>2. i \in Nat /\ f[m] \in Nat /\ f[n] \in Nat
          BY <2>9, <2>10
        <4>3. QED
          BY <4>1, <4>2
      <3>3. ASSUME f[m] < f[n], NEW j \in Steps, Met(start, j) = n
            PROVE  f[m] < j
        <4>1. f[n] <= j
          BY <3>1, <3>3
        <4>2. j \in Nat /\ f[m] \in Nat /\ f[n] \in Nat
          BY <2>9, <2>10
        <4>3. QED
          BY <3>3, <4>1, <4>2
      <3>4. QED
        BY <2>6, <3>1, <3>2, <3>3
    <2>13. QED
      BY <2>11, <2>12
  <1>3. QED
    BY <1>1, <1>2

\* The elements of a finite set are numbered by how many are smaller.
LEMMA Ranks ==
    ASSUME NEW F, IsFiniteSet(F), NEW f \in Injection(F, Nat),
           NEW r, r = [n \in F |-> 1 + Cardinality({m \in F \ {n} : f[m] < f[n]})]
    PROVE  /\ r \in Bijection(F, 1..Cardinality(F))
           /\ \A m, n \in F : r[m] < r[n] <=> f[m] < f[n]
  <1> DEFINE A(n) == {m \in F \ {n} : f[m] < f[n]}
  <1>1. /\ f \in [F -> Nat] /\ \A m, n \in F : f[m] = f[n] => m = n
    BY DEF Injection, IsInjective
  <1>2. PICK N : N = Cardinality(F)
    OBVIOUS
  <1>3. N \in Nat
    BY <1>2, FS_CardinalityType
  <1>4. \A n \in F : IsFiniteSet(A(n)) /\ Cardinality(A(n)) \in Nat
    BY FS_Subset, FS_CardinalityType
  <1>5. \A n \in F : r[n] = 1 + Cardinality(A(n))
    OBVIOUS
  <1>6. ASSUME NEW n \in F PROVE r[n] \in 1..N
    <2>1. A(n) \subseteq F \ {n}
      OBVIOUS
    <2>2. IsFiniteSet(F \ {n}) /\ Cardinality(F \ {n}) = N - 1
      BY <1>2, FS_RemoveElement
    <2>3. PICK B : B = A(n)
      OBVIOUS
    <2>4. Cardinality(B) <= N - 1
      BY <2>1, <2>2, <2>3, FS_Subset
    <2>5. Cardinality(B) \in Nat /\ r[n] = 1 + Cardinality(B)
      BY <1>4, <1>5, <2>3
    <2>6. QED
      BY <1>3, <2>4, <2>5
  <1>7. ASSUME NEW m \in F, NEW n \in F, f[m] < f[n]
        PROVE  r[m] < r[n]
    <2>1. A(m) \cup {m} \subseteq A(n) /\ m \notin A(m)
      <3>1. f[m] \in Nat /\ f[n] \in Nat
        BY <1>1
      <3>2. m \in A(n)
        BY <1>7, <3>1
      <3>3. ASSUME NEW l \in A(m) PROVE l \in A(n)
        <4>1. l \in F /\ f[l] < f[m] /\ f[l] \in Nat
          BY <1>1
        <4>2. f[l] < f[n]
          BY <1>7, <3>1, <4>1
        <4>3. l # n
          BY <3>1, <4>2
        <4>4. QED
          BY <4>1, <4>2, <4>3
      <3>4. QED
        BY <3>2, <3>3
    <2>2. PICK B, C : B = A(m) /\ C = A(n)
      OBVIOUS
    <2>3. /\ IsFiniteSet(B) /\ Cardinality(B) \in Nat /\ r[m] = 1 + Cardinality(B)
          /\ IsFiniteSet(C) /\ Cardinality(C) \in Nat /\ r[n] = 1 + Cardinality(C)
      BY <1>4, <1>5, <2>2
    <2>4. Cardinality(B \cup {m}) = Cardinality(B) + 1
      BY <2>1, <2>2, <2>3, FS_AddElement
    <2>5. Cardinality(B \cup {m}) <= Cardinality(C)
      BY <2>1, <2>2, <2>3, FS_Subset
    <2>6. QED
      BY <2>3, <2>4, <2>5
  <1> HIDE DEF A
  <1>8. ASSUME NEW m \in F, NEW n \in F
        PROVE  /\ r[m] < r[n] <=> f[m] < f[n]
               /\ r[m] = r[n] => m = n
    <2>1. f[m] \in Nat /\ f[n] \in Nat /\ r[m] \in Nat /\ r[n] \in Nat
      BY <1>1, <1>3, <1>6
    <2>2. /\ f[m] < f[n] => r[m] < r[n]
          /\ f[n] < f[m] => r[n] < r[m]
          /\ f[m] = f[n] => m = n
      BY <1>1, <1>7
    <2>3. QED
      BY <2>1, <2>2
  <1>9. r \in [F -> 1..N]
    BY <1>6
  <1>10. r \in Injection(F, 1..N)
    BY <1>8, <1>9 DEF Injection, IsInjective
  <1>11. IsFiniteSet(1..N) /\ Cardinality(1..N) = N
    BY <1>3, FS_Interval
  <1>12. r \in Surjection(F, 1..N)
    BY <1>2, <1>10, <1>11, FS_Injection
  <1>13. QED
    BY <1>2, <1>8, <1>10, <1>12 DEF Bijection

\* The elements of G with each at its number in the order of P.
Listing(G, P) ==
    [i \in 1..Cardinality(G) |->
        CHOOSE n \in G : 1 + Cardinality({m \in G \ {n} : <<m, n>> \in P}) = i]

\* A sequence of all elements in ascending order has each at its number.
LEMMA AscendingListing ==
    ASSUME NEW F, IsFiniteSet(F), NEW f \in Injection(F, Nat),
           NEW p, p = [i \in 1..Cardinality(F) |-> p[i]],
           \A i \in 1..Cardinality(F) : p[i] \in F,
           \A i, j \in 1..Cardinality(F) : i < j => f[p[i]] < f[p[j]],
           NEW P, \A m, n \in F : <<m, n>> \in P <=> f[m] < f[n]
    PROVE  p = Listing(F, P)
  <1>1. PICK N : N = Cardinality(F)
    OBVIOUS
  <1>2. PICK r : r = [n \in F |-> 1 + Cardinality({m \in F \ {n} : f[m] < f[n]})]
    OBVIOUS
  <1>3. r \in Bijection(F, 1..Cardinality(F))
    BY <1>2, Ranks
  <1>4. \A m, n \in F : r[m] = r[n] => m = n
    BY <1>3 DEF Bijection, Injection, IsInjective
  <1>5. f \in [F -> Nat] /\ \A m, n \in F : f[m] = f[n] => m = n
    BY DEF Injection, IsInjective
  <1>6. N \in Nat
    BY <1>1, FS_CardinalityType
  <1>7. \A i \in 1..N : p[i] \in F /\ f[p[i]] \in Nat
    BY <1>1, <1>5
  <1>8. \A i, j \in 1..N : f[p[i]] < f[p[j]] => i < j
    <2> SUFFICES ASSUME NEW i \in 1..N, NEW j \in 1..N, f[p[i]] < f[p[j]], ~ (i < j) PROVE FALSE
      OBVIOUS
    <2>1. f[p[i]] \in Nat /\ f[p[j]] \in Nat
      BY <1>7
    <2>2. j < i => f[p[j]] < f[p[i]]
      BY <1>1
    <2>3. i = j \/ j < i
      BY <1>6
    <2>4. QED
      BY <2>1, <2>2, <2>3
  <1>9. \A i, j \in 1..N : p[i] = p[j] => i = j
    <2> SUFFICES ASSUME NEW i \in 1..N, NEW j \in 1..N, p[i] = p[j], i # j PROVE FALSE
      OBVIOUS
    <2>1. f[p[i]] \in Nat
      BY <1>7
    <2>2. i < j \/ j < i
      BY <1>6
    <2>3. f[p[i]] < f[p[i]]
      BY <1>1, <2>2
    <2>4. QED
      BY <2>1, <2>3
  <1>10. \A n \in F : \E i \in 1..N : p[i] = n
    <2>1. p \in Injection(1..N, F)
      <3>1. p \in [1..N -> F]
        BY <1>1, <1>7
      <3>2. QED
        BY <1>9, <3>1 DEF Injection, IsInjective
    <2>2. IsFiniteSet(1..N) /\ Cardinality(1..N) = N
      BY <1>6, FS_Interval
    <2>3. p \in Surjection(1..N, F)
      BY <1>1, <2>1, <2>2, FS_Injection
    <2>4. QED
      BY <2>3 DEF Surjection
  <1>11. ASSUME NEW i \in 1..N
         PROVE  r[p[i]] = i
    <2> DEFINE B == {m \in F \ {p[i]} : f[m] < f[p[i]]}
               g == [j \in 1..(i - 1) |-> p[j]]
    <2>1. B = {p[j] : j \in 1..(i - 1)}
      <3>1. ASSUME NEW m \in B PROVE \E j \in 1..(i - 1) : m = p[j]
        <4>1. PICK j \in 1..N : p[j] = m
          BY <1>10
        <4>2. j < i
          BY <1>8, <4>1
        <4> HIDE DEF g
        <4>3. i \in Nat /\ j \in Nat /\ 1 <= j
          BY <1>6
        <4>4. j \in 1..(i - 1)
          BY <4>2, <4>3
        <4>5. QED
          BY <4>1, <4>4
      <3>2. ASSUME NEW j \in 1..(i - 1) PROVE p[j] \in B
        <4>1. j \in 1..N /\ j < i /\ j # i
          BY <1>6
        <4>2. p[j] \in F /\ p[j] # p[i]
          BY <1>7, <1>9, <4>1
        <4>3. QED
          BY <1>1, <4>1, <4>2
      <3> HIDE DEF B
      <3>3. QED
        BY <3>1, <3>2
    <2> HIDE DEF B
    <2>2. g \in Bijection(1..(i - 1), B)
      <3>1. \A j \in 1..(i - 1) : j \in 1..N /\ p[j] \in B
        BY <1>6, <2>1
      <3>2. \A m \in B : \E j \in 1..(i - 1) : p[j] = m
        BY <2>1
      <3>3. QED
        BY <1>9, <3>1, <3>2 DEF Bijection, Injection, Surjection, IsInjective
    <2> HIDE DEF g
    <2>3. IsFiniteSet(1..(i - 1)) /\ Cardinality(1..(i - 1)) = i - 1
      <3>1. i \in Nat /\ 1 <= i
        BY <1>6
      <3>2. PICK z, w : z = i - 1 /\ w = 1
        OBVIOUS
      <3>3. z \in Int /\ w \in Int
        BY <3>1, <3>2
      <3>4. IsFiniteSet(w..z) /\ Cardinality(w..z) = IF w > z THEN 0 ELSE z - w + 1
        BY <3>3, FS_Interval
      <3>5. QED
        BY <3>1, <3>2, <3>4
    <2>4. Cardinality(B) = i - 1
      BY <2>2, <2>3, FS_Bijection DEF ExistsBijection
    <2>5. r[p[i]] = 1 + Cardinality(B)
      BY <1>2, <1>7 DEF B
    <2>6. QED
      BY <2>4, <2>5
  <1> DEFINE rank(n) == 1 + Cardinality({m \in F \ {n} : <<m, n>> \in P})
  <1>12. \A n \in F : rank(n) = r[n]
    <2> SUFFICES ASSUME NEW n \in F PROVE rank(n) = r[n]
      OBVIOUS
    <2>1. {m \in F \ {n} : <<m, n>> \in P} = {m \in F \ {n} : f[m] < f[n]}
      OBVIOUS
    <2>2. QED
      BY <1>2, <2>1
  <1> HIDE DEF rank
  <1>13. \A i \in 1..N : p[i] = CHOOSE n \in F : rank(n) = i
    BY <1>4, <1>7, <1>11, <1>12
  <1>14. p = [i \in 1..N |-> CHOOSE n \in F : rank(n) = i]
    BY <1>1, <1>13
  <1>15. QED
    BY <1>1, <1>14 DEF rank, Listing

\* RemoveFirst moves the elements behind the only n ahead by one.
LEMMA RemoveOnly ==
    ASSUME NEW S, NEW p \in Seq(S), NEW a \in 1..Len(p), NEW n, n = p[a],
           \A i \in 1..Len(p) : p[i] = n => i = a
    PROVE  /\ RemoveFirst(p, n) \in Seq(S) /\ Len(RemoveFirst(p, n)) = Len(p) - 1
           /\ \A i \in 1..(Len(p) - 1) :
                  RemoveFirst(p, n)[i] = IF i < a THEN p[i] ELSE p[i + 1]
  <1>1. {i \in 1..Len(p) : p[i] = n} = {a}
    OBVIOUS
  <1>2. Min({a}) = a
    BY DEF Min
  <1>3. PICK u, v : u = SubSeq(p, 1, a - 1) /\ v = SubSeq(p, a + 1, Len(p))
    OBVIOUS
  <1>4. RemoveFirst(p, n) = u \o v
    BY <1>1, <1>2, <1>3 DEF RemoveFirst, RemoveAt, SelectInSeq
  <1>5. Len(p) \in Nat /\ a \in Nat /\ 1 <= a /\ a <= Len(p)
    OBVIOUS
  <1>6. u \in Seq(S) /\ Len(u) = a - 1 /\ \A i \in 1..(a - 1) : u[i] = p[i]
    <2>1. \A i \in 1..(a - 1) : p[i] \in S
      BY <1>5
    <2>2. /\ SubSeq(p, 1, a - 1) \in Seq(S)
          /\ Len(SubSeq(p, 1, a - 1)) = IF 1 <= a - 1 THEN (a - 1) - 1 + 1 ELSE 0
          /\ \A i \in 1..((a - 1) - 1 + 1) : SubSeq(p, 1, a - 1)[i] = p[1 + i - 1]
      <3>1. 1 \in Int /\ a - 1 \in Int
        OBVIOUS
      <3>2. QED
        BY <2>1, <3>1, SubSeqProperties
    <2>3. QED
      BY <1>3, <1>5, <2>2
  <1>7. v \in Seq(S) /\ Len(v) = Len(p) - a /\ \A i \in 1..(Len(p) - a) : v[i] = p[a + i]
    <2>1. \A i \in (a + 1)..Len(p) : p[i] \in S
      BY <1>5
    <2>2. /\ SubSeq(p, a + 1, Len(p)) \in Seq(S)
          /\ Len(SubSeq(p, a + 1, Len(p))) =
                 IF a + 1 <= Len(p) THEN Len(p) - (a + 1) + 1 ELSE 0
          /\ \A i \in 1..(Len(p) - (a + 1) + 1) :
                 SubSeq(p, a + 1, Len(p))[i] = p[a + 1 + i - 1]
      <3>1. a + 1 \in Int /\ Len(p) \in Int
        OBVIOUS
      <3>2. QED
        BY <2>1, <3>1, SubSeqProperties
    <2>3. Len(p) - (a + 1) + 1 = Len(p) - a /\ \A i \in 1..(Len(p) - a) : a + 1 + i - 1 = a + i
      BY <1>5
    <2>4. v \in Seq(S)
      BY <1>3, <2>2
    <2>5. Len(v) = Len(p) - a
      BY <1>3, <1>5, <2>2
    <2>6. ASSUME NEW i \in 1..(Len(p) - a) PROVE v[i] = p[a + i]
      <3>1. i \in 1..(Len(p) - (a + 1) + 1) /\ a + 1 + i - 1 = a + i
        BY <2>3
      <3>2. QED
        BY <1>3, <2>2, <3>1
    <2>7. QED
      BY <2>4, <2>5, <2>6
  <1>8. /\ u \o v \in Seq(S) /\ Len(u \o v) = Len(u) + Len(v)
        /\ \A i \in 1..(Len(u) + Len(v)) : (u \o v)[i] = IF i <= Len(u) THEN u[i] ELSE v[i - Len(u)]
    BY <1>6, <1>7, ConcatProperties
  <1>9. Len(u) + Len(v) = Len(p) - 1
    BY <1>5, <1>6, <1>7
  <1>10. ASSUME NEW i \in 1..(Len(p) - 1)
         PROVE  (u \o v)[i] = IF i < a THEN p[i] ELSE p[i + 1]
    <2>1. CASE i < a
      <3>1. i \in 1..(a - 1) /\ i <= Len(u)
        BY <1>5, <1>6, <2>1
      <3>2. QED
        BY <1>6, <1>8, <1>9, <2>1, <3>1
    <2>2. CASE ~ (i < a)
      <3>1. /\ ~ (i <= Len(u)) /\ i - Len(u) \in 1..(Len(p) - a) /\ a + (i - Len(u)) = i + 1
        BY <1>5, <1>6, <2>2
      <3>2. QED
        BY <1>7, <1>8, <1>9, <2>2, <3>1
    <2>3. QED
      BY <2>1, <2>2
  <1>11. QED
    BY <1>4, <1>8, <1>9, <1>10

\* How the nodes but n are met.
MeetOthers(key, n) ==
    {d \in (Found \ {n}) \X (Found \ {n}) : Precedes(key, d[1], d[2])}

\* The preference without n is that of the others.
PreferenceOfOthers ==
    \A key \in Hashes, n \in Nodes :
        RemoveFirst(Preference(key), n) = Listing(Found \ {n}, MeetOthers(key, n))

LEMMA PreferenceWithout == ASSUME RingInv PROVE PreferenceOfOthers
  <1> SUFFICES ASSUME NEW key \in Hashes, NEW n \in Nodes
               PROVE  RemoveFirst(Preference(key), n) = Listing(Found \ {n}, MeetOthers(key, n))
    BY DEF PreferenceOfOthers
  <1>1. PICK f \in Injection(Found, Nat) :
            \A x, y \in Found : Precedes(key, x, y) <=> f[x] < f[y]
    BY FirstMet
  <1>2. PICK r : r = [m \in Found |-> 1 + Cardinality({x \in Found \ {m} : f[x] < f[m]})]
    OBVIOUS
  <1>3. PICK N : N = Cardinality(Found)
    OBVIOUS
  <1>4. IsFiniteSet(Found) /\ N \in Nat
    BY <1>3, FoundNodes
  <1>5. /\ r \in Bijection(Found, 1..Cardinality(Found))
        /\ \A x, y \in Found : r[x] < r[y] <=> f[x] < f[y]
    BY <1>1, <1>2, <1>4, Ranks
  <1>6. /\ \A m \in Found : r[m] \in 1..N
        /\ \A x, y \in Found : r[x] = r[y] => x = y
        /\ \A i \in 1..N : \E m \in Found : r[m] = i
    BY <1>3, <1>5 DEF Bijection, Injection, Surjection, IsInjective
  <1> DEFINE rank(m) == 1 + Cardinality({x \in Found \ {m} : Precedes(key, x, m)})
  <1>7. \A m \in Found : rank(m) = r[m]
    <2> SUFFICES ASSUME NEW m \in Found PROVE rank(m) = r[m]
      OBVIOUS
    <2>1. {x \in Found \ {m} : Precedes(key, x, m)} = {x \in Found \ {m} : f[x] < f[m]}
      BY <1>1
    <2>2. QED
      BY <1>2, <2>1
  <1>8. PICK p : p = Preference(key)
    OBVIOUS
  <1>9. p = [i \in 1..N |-> CHOOSE m \in Found : rank(m) = i]
    BY <1>3, <1>8 DEF Preference, Found
  <1> HIDE DEF rank
  <1>10. \A i \in 1..N : p[i] = CHOOSE m \in Found : rank(m) = i
    BY <1>9
  <1>11. \A i \in 1..N : p[i] \in Found /\ r[p[i]] = i
    BY <1>6, <1>7, <1>10
  <1>12. p \in Seq(Found) /\ Len(p) = N
    BY <1>4, <1>9, <1>11
  <1>13. \A i, j \in 1..N : i < j => f[p[i]] < f[p[j]]
    BY <1>5, <1>11
  <1> DEFINE G == Found \ {n}
             w == RemoveFirst(p, n)
  <1>15. /\ w = [i \in 1..Cardinality(G) |-> w[i]]
         /\ \A i \in 1..Cardinality(G) : w[i] \in G
         /\ \A i, j \in 1..Cardinality(G) : i < j => f[w[i]] < f[w[j]]
    <2>1. CASE n \notin Found
      <3>1. G = Found
        BY <2>1
      <3>2. w = p
        BY <1>11, <1>12, <2>1 DEF RemoveFirst
      <3>3. p = [i \in 1..N |-> p[i]]
        BY <1>12
      <3> HIDE DEF w, G
      <3>4. QED
        BY <1>3, <1>11, <1>13, <3>1, <3>2, <3>3
    <2>2. CASE n \in Found
      <3>1. PICK a : a = r[n]
        OBVIOUS
      <3>2. a \in 1..Len(p) /\ n = p[a] /\ \A i \in 1..Len(p) : p[i] = n => i = a
        BY <1>6, <1>11, <1>12, <2>2, <3>1
      <3>3. /\ w \in Seq(Found) /\ Len(w) = N - 1
            /\ \A i \in 1..(N - 1) : w[i] = IF i < a THEN p[i] ELSE p[i + 1]
        BY <1>12, <3>2, RemoveOnly
      <3>4. Cardinality(G) = N - 1
        BY <1>3, <1>4, <2>2, FS_RemoveElement
      <3> HIDE DEF w, G
      <3>5. w = [i \in 1..(N - 1) |-> w[i]]
        BY <3>3
      <3>6. \A i \in 1..(N - 1) : i \in 1..N /\ i + 1 \in 1..N /\ a \in Nat
        BY <1>4, <1>12, <3>2
      <3>7. ASSUME NEW i \in 1..(N - 1) PROVE w[i] \in G
        <4>1. w[i] \in Found /\ w[i] # n
          BY <1>11, <1>12, <3>2, <3>3, <3>6
        <4>2. QED
          BY <4>1 DEF G
      <3>8. ASSUME NEW i \in 1..(N - 1), NEW j \in 1..(N - 1), i < j
            PROVE  f[w[i]] < f[w[j]]
        <4>1. PICK k, l : /\ k = IF i < a THEN i ELSE i + 1
                          /\ l = IF j < a THEN j ELSE j + 1
          OBVIOUS
        <4>2. w[i] = p[k] /\ w[j] = p[l]
          BY <3>3, <4>1
        <4>3. k \in 1..N /\ l \in 1..N /\ k < l
          BY <3>6, <3>8, <4>1
        <4>4. QED
          BY <1>13, <4>2, <4>3
      <3>9. QED
        BY <3>4, <3>5, <3>7, <3>8
    <2>3. QED
      BY <2>1, <2>2
  <1>16. IsFiniteSet(G)
    BY <1>4, FS_RemoveElement
  <1>17. PICK g : g = [x \in G |-> f[x]]
    OBVIOUS
  <1>18. g \in Injection(G, Nat) /\ \A x \in G : g[x] = f[x]
    BY <1>17 DEF Injection, IsInjective
  <1> HIDE DEF w
  <1> HIDE DEF G
  <1>19. w = Listing(G, MeetOthers(key, n))
    <2>1. \A i, j \in 1..Cardinality(G) : i < j => g[w[i]] < g[w[j]]
      BY <1>15, <1>18
    <2>2. w = [i \in 1..Cardinality(G) |-> w[i]] /\ \A i \in 1..Cardinality(G) : w[i] \in G
      BY <1>15
    <2>3. PICK v : v = w
      OBVIOUS
    <2>4. g \in Injection(G, Nat)
      BY <1>18
    <2>5. /\ v = [i \in 1..Cardinality(G) |-> v[i]]
          /\ \A i \in 1..Cardinality(G) : v[i] \in G
          /\ \A i, j \in 1..Cardinality(G) : i < j => g[v[i]] < g[v[j]]
      BY <2>1, <2>2, <2>3
    <2>6. PICK P : P = MeetOthers(key, n)
      OBVIOUS
    <2>7. \A x, y \in G : <<x, y>> \in P <=> g[x] < g[y]
      <3>1. P = {d \in G \X G : Precedes(key, d[1], d[2])}
        BY <2>6 DEF MeetOthers, G
      <3>2. \A x \in G : x \in Found /\ g[x] = f[x]
        BY <1>18 DEF G
      <3>3. QED
        BY <1>1, <3>1, <3>2
    <2>8. v = Listing(G, P)
      BY <1>16, <2>4, <2>5, <2>7, AscendingListing
    <2>9. QED
      BY <2>3, <2>6, <2>8
  <1>20. QED
    BY <1>8, <1>19 DEF w, G

\* A node that joins or leaves changes nothing in the order in which any key
\* prefers the others, so that only chunks of that node move.
THEOREM OnlyItsChunksMove == Spec => MinimalMovement
  <1> DEFINE Kept(n) ==
                 \A key \in Hashes :
                     \A before \in {Preference(key)}, after \in {Preference(key)'} :
                         RemoveFirst(after, n) = RemoveFirst(before, n)
  <1>1. Spec => []PreferenceOfOthers
    <2>1. IInv => PreferenceOfOthers
      BY PreferenceWithout DEF IInv
    <2>2. QED
      BY <2>1, Invariance, PTL
  <1>2. ASSUME PreferenceOfOthers, PreferenceOfOthers', NEW n \in Nodes, OrderOfOthers(n),
               Found \subseteq Nodes, Found' \subseteq Nodes
        PROVE  Kept(n)
    <2> SUFFICES ASSUME NEW key \in Hashes
                 PROVE  RemoveFirst(Preference(key)', n) = RemoveFirst(Preference(key), n)
      OBVIOUS
    <2>1. RemoveFirst(Preference(key), n) = Listing(Found \ {n}, MeetOthers(key, n))
      BY <1>2 DEF PreferenceOfOthers
    <2>2. RemoveFirst(Preference(key)', n) = Listing(Found' \ {n}, MeetOthers(key, n)')
      BY <1>2 DEF PreferenceOfOthers
    <2>3. Found' \ {n} = Found \ {n}
      <3>1. \A m \in Nodes \ {n} : m \in Found' <=> m \in Found
        BY <1>2 DEF OrderOfOthers, HasPoint, Found
      <3>2. QED
        BY <1>2, <3>1
    <2>4. MeetOthers(key, n)' = MeetOthers(key, n)
      <3>1. \A x, m \in Found \ {n} : Precedes(key, x, m)' <=> Precedes(key, x, m)
        BY <1>2 DEF OrderOfOthers
      <3>2. MeetOthers(key, n)' =
                {d \in (Found \ {n}) \X (Found \ {n}) : Precedes(key, d[1], d[2])'}
        BY <2>3 DEF MeetOthers
      <3>3. QED
        BY <3>1, <3>2 DEF MeetOthers
    <2>5. QED
      BY <2>1, <2>2, <2>3, <2>4
  <1>3. Spec => [](Found \subseteq Nodes)
    <2>1. IInv => Found \subseteq Nodes
      BY DEF IInv, RingInv, RingSound, Found
    <2>2. QED
      BY <2>1, Invariance, PTL
  <1>4. ASSUME PreferenceOfOthers, PreferenceOfOthers', Found \subseteq Nodes, (Found \subseteq Nodes)',
               [\A n \in Nodes : Changes(n) => OrderOfOthers(n)]_vars
        PROVE  [\A n \in Nodes : Changes(n) => Kept(n)]_vars
    BY <1>2, <1>4
  <1> HIDE DEF Kept
  <1>5. [\A n \in Nodes : Changes(n) => Kept(n)]_vars =>
            [\A n \in Nodes :
                 RemoveNode(n) \/ (\E count \in 0..MaxVirtual : AddNode(n, count)) =>
                     \A key \in Hashes :
                         \A before \in {Preference(key)}, after \in {Preference(key)'} :
                             RemoveFirst(after, n) = RemoveFirst(before, n)]_vars
    BY DEF Changes, Kept
  <1>6. QED
    BY <1>1, <1>3, <1>4, <1>5, OthersStayInOrder, PTL DEF MinimalMovement
=============================================================================
