-------------------------- MODULE ReplicationProofs --------------------------
(***************************************************************************)
(* Proofs about Replication, for any finite set of nodes, any ring, factor *)
(* and quorum: the types, the spread over zones, and the survival of what  *)
(* has been stored, without repair and with it.                            *)
(***************************************************************************)
EXTENDS Replication, FiniteSetTheorems, WellFoundedInduction, TLAPS

\* Files that have decayed
BadFiles == {n \in Nodes : disk[n] = "bad"}

\* The call has the fields of a replicateChunk call.
IsWrite(call) == call = [at |-> "write", left |-> call.left, written |-> call.written,
                         recorded |-> call.recorded]

\* A write counts only nodes that have a row, and a write that waits for a
\* row has a file there.
WriteSound(call, theRows, theDisk) ==
    call # Idle =>
        /\ IsWrite(call)
        /\ call.recorded \subseteq theRows
        /\ call.written \subseteq Nodes
        /\ \A n \in call.written : theDisk[n] # "none"

\* Without repair: what the writes count, and a file for every row
WritesInv ==
    /\ disk \in [Nodes -> FileStates]
    /\ rows \subseteq Nodes
    /\ decays \in Nat
    /\ writer = [w \in Writers |-> writer[w]]
    /\ \A w \in Writers : WriteSound(writer[w], rows, disk)
    /\ \A n \in rows : disk[n] # "none"
    /\ Cardinality(BadFiles) <= decays
    /\ acked => Cardinality(rows) >= Quorum

-----------------------------------------------------------------------------
(* Steps of writers *)

\* A soundness of all writes is kept by a step of one of them that removes
\* no row and no file.
LEMMA OthersStaySound ==
    ASSUME WritesInv, NEW w \in Writers, NEW new,
           writer' = [writer EXCEPT ![w] = new],
           rows \subseteq rows',
           \A n \in Nodes : disk[n] # "none" => disk'[n] # "none",
           WriteSound(new, rows', disk')
    PROVE  /\ writer' = [v \in Writers |-> writer'[v]]
           /\ \A v \in Writers : WriteSound(writer'[v], rows', disk')
  <1>1. ASSUME NEW v \in Writers PROVE WriteSound(writer'[v], rows', disk')
    <2>1. CASE v = w
      BY <2>1 DEF WritesInv
    <2>2. CASE v # w
      <3>1. writer'[v] = writer[v]
        BY <2>2 DEF WritesInv
      <3>2. WriteSound(writer[v], rows, disk)
        BY DEF WritesInv
      <3>3. QED
        BY <3>1, <3>2 DEF WriteSound
    <2>3. QED
      BY <2>1, <2>2
  <1>2. writer' = [v \in Writers |-> writer'[v]]
    BY DEF WritesInv
  <1>3. QED
    BY <1>1, <1>2

\* Subsets of the nodes are finite; a larger set has no smaller cardinality.
LEMMA NodeSets ==
    ASSUME NEW T \in SUBSET Nodes, NEW S \in SUBSET T
    PROVE  /\ Cardinality(S) <= Cardinality(T)
           /\ Cardinality(T) \in Nat /\ Cardinality(S) \in Nat
  <1>1. IsFiniteSet(T)
    BY NodesAssumption, FS_Subset
  <1>2. IsFiniteSet(S) /\ Cardinality(S) <= Cardinality(T)
    BY <1>1, FS_Subset
  <1>3. QED
    BY <1>1, <1>2, FS_CardinalityType

\* The quorum stays reached when rows are only added.
LEMMA QuorumKept ==
    ASSUME WritesInv, rows \subseteq rows', rows' \subseteq Nodes, acked' = acked
    PROVE  acked' => Cardinality(rows') >= Quorum
  <1>1. /\ Cardinality(rows) <= Cardinality(rows')
        /\ Cardinality(rows') \in Nat /\ Cardinality(rows) \in Nat
    BY NodeSets
  <1>2. QED
    BY <1>1, FactorAssumption DEF WritesInv

\* A write starts with nothing counted.
LEMMA StartWriteInv ==
    ASSUME WritesInv, NEW w \in Writers, StartWrite(w)
    PROVE  WritesInv'
  <1>1. PICK new :
           /\ new = [at |-> "write", left |-> NodesAt(SelectedNodes), written |-> {},
                     recorded |-> {}]
           /\ writer' = [writer EXCEPT ![w] = new]
    BY DEF StartWrite
  <1>2. UNCHANGED <<disk, rows, decays, acked>>
    BY DEF StartWrite, tables, world
  <1>3. WriteSound(new, rows', disk')
    BY <1>1 DEF WriteSound, IsWrite
  <1>4. /\ writer' = [v \in Writers |-> writer'[v]]
        /\ \A v \in Writers : WriteSound(writer'[v], rows', disk')
    BY <1>1, <1>2, <1>3, OthersStaySound
  <1>5. QED
    BY <1>2, <1>4 DEF WritesInv, BadFiles

\* A node is written, which mends what had decayed there, or left out.
LEMMA WriteNodeInv ==
    ASSUME WritesInv, NEW w \in Writers, NEW n \in Nodes, WriteNode(w, n)
    PROVE  WritesInv'
  <1>1. PICK new :
           /\ new = [at |-> "write", left |-> writer[w].left \ {n},
                     written |-> writer[w].written \cup (up \cap {n}),
                     recorded |-> writer[w].recorded]
           /\ writer' = [writer EXCEPT ![w] = new]
    BY DEF WriteNode
  <1>2. /\ UNCHANGED <<rows, decays, acked>>
        /\ disk' = [disk EXCEPT ![n] = IF n \in up THEN "good" ELSE disk[n]]
        /\ writer[w] # Idle
    BY DEF WriteNode, tables, world
  <1>3. /\ writer[w].recorded \subseteq rows
        /\ writer[w].written \subseteq Nodes
        /\ \A m \in writer[w].written : disk[m] # "none"
    BY <1>2 DEF WritesInv, WriteSound
  <1>4. /\ \A m \in Nodes : disk[m] # "none" => disk'[m] # "none"
        /\ disk' \in [Nodes -> FileStates]
    BY <1>2 DEF WritesInv, FileStates
  <1>5. WriteSound(new, rows', disk')
    <2>1. IsWrite(new) /\ new.recorded \subseteq rows' /\ new.written \subseteq Nodes
      BY <1>1, <1>2, <1>3 DEF IsWrite
    <2>2. ASSUME NEW m \in new.written PROVE disk'[m] # "none"
      BY <1>1, <1>2, <1>3, <1>4 DEF WritesInv
    <2>3. QED
      BY <2>1, <2>2 DEF WriteSound
  <1>6. /\ writer' = [v \in Writers |-> writer'[v]]
        /\ \A v \in Writers : WriteSound(writer'[v], rows', disk')
    BY <1>1, <1>2, <1>4, <1>5, OthersStaySound
  <1>7. Cardinality(BadFiles') <= decays'
    <2>1. BadFiles' \subseteq BadFiles /\ BadFiles \subseteq Nodes
      BY <1>2 DEF BadFiles, WritesInv
    <2>2. /\ Cardinality(BadFiles') <= Cardinality(BadFiles)
          /\ Cardinality(BadFiles') \in Nat /\ Cardinality(BadFiles) \in Nat
      BY <2>1, NodeSets
    <2>3. QED
      BY <1>2, <2>2 DEF WritesInv
  <1>8. QED
    BY <1>2, <1>4, <1>6, <1>7 DEF WritesInv

\* A row is inserted and counted, or rejected and not counted.
LEMMA RecordReplicaInv ==
    ASSUME WritesInv, NEW w \in Writers, NEW n \in Nodes, RecordReplica(w, n)
    PROVE  WritesInv'
  <1>1. PICK inserted \in {{n}, {}} :
           /\ rows' = rows \cup inserted
           /\ writer' = [writer EXCEPT ![w] =
                  [at |-> "write", left |-> writer[w].left, written |-> writer[w].written \ {n},
                   recorded |-> writer[w].recorded \cup inserted]]
    BY DEF RecordReplica
  <1>2. PICK new :
           /\ new = [at |-> "write", left |-> writer[w].left,
                     written |-> writer[w].written \ {n},
                     recorded |-> writer[w].recorded \cup inserted]
           /\ writer' = [writer EXCEPT ![w] = new]
    BY <1>1
  <1>3. /\ UNCHANGED <<disk, decays, acked>>
        /\ n \in writer[w].written
        /\ writer[w].recorded \subseteq rows
        /\ writer[w].written \subseteq Nodes
        /\ \A m \in writer[w].written : disk[m] # "none"
    BY DEF RecordReplica, WritesInv, WriteSound, world
  <1>4. WriteSound(new, rows', disk')
    BY <1>1, <1>2, <1>3 DEF WriteSound, IsWrite
  <1>5. rows \subseteq rows' /\ rows' \subseteq Nodes
    BY <1>1 DEF WritesInv
  <1>6. /\ writer' = [v \in Writers |-> writer'[v]]
        /\ \A v \in Writers : WriteSound(writer'[v], rows', disk')
    BY <1>2, <1>3, <1>4, <1>5, OthersStaySound
  <1>7. \A m \in rows' : disk'[m] # "none"
    BY <1>1, <1>3 DEF WritesInv
  <1>8. acked' => Cardinality(rows') >= Quorum
    BY <1>3, <1>5, QuorumKept
  <1>9. QED
    BY <1>3, <1>5, <1>6, <1>7, <1>8 DEF WritesInv, BadFiles

\* What a write that returns has counted are rows, so there is a quorum of them.
LEMMA FinishWriteInv ==
    ASSUME WritesInv, NEW w \in Writers, FinishWrite(w)
    PROVE  WritesInv'
  <1>1. /\ UNCHANGED <<disk, rows, decays>>
        /\ writer' = [writer EXCEPT ![w] = Idle]
        /\ acked' = (acked \/ QuorumReached(writer[w]))
        /\ writer[w].recorded \subseteq rows
    BY DEF FinishWrite, tables, world, WritesInv, WriteSound
  <1>2. WriteSound(Idle, rows', disk')
    BY DEF WriteSound
  <1>3. /\ writer' = [v \in Writers |-> writer'[v]]
        /\ \A v \in Writers : WriteSound(writer'[v], rows', disk')
    BY <1>1, <1>2, OthersStaySound
  <1>4. /\ Cardinality(writer[w].recorded) <= Cardinality(rows)
        /\ Cardinality(rows) \in Nat /\ Cardinality(writer[w].recorded) \in Nat
    BY <1>1, NodeSets DEF WritesInv
  <1>5. acked' => Cardinality(rows') >= Quorum
    <2>1. CASE QuorumReached(writer[w])
      BY <1>1, <1>4, <2>1, FactorAssumption DEF QuorumReached
    <2>2. CASE ~ QuorumReached(writer[w])
      <3>1. acked' => acked
        BY <1>1, <2>2, Zenon
      <3>2. QED
        BY <1>1, <3>1 DEF WritesInv
    <2>3. QED
      BY <2>1, <2>2
  <1>6. QED
    BY <1>1, <1>3, <1>5 DEF WritesInv, BadFiles

-----------------------------------------------------------------------------
(* Steps of the nodes *)

\* A file that decays is one more bad file, and no write loses its file.
LEMMA DecayInv ==
    ASSUME WritesInv, NEW n \in Nodes, Decay(n)
    PROVE  WritesInv'
  <1>1. /\ UNCHANGED <<rows, writer, acked>>
        /\ disk' = [disk EXCEPT ![n] = "bad"]
        /\ decays' = decays + 1
    BY DEF Decay, tables
  <1>2. BadFiles' = BadFiles \cup {n}
    BY <1>1 DEF BadFiles, WritesInv
  <1>3. IsFiniteSet(BadFiles)
    BY NodesAssumption, FS_Subset DEF BadFiles
  <1>4. /\ Cardinality(BadFiles') <= Cardinality(BadFiles) + 1
        /\ Cardinality(BadFiles) \in Nat /\ Cardinality(BadFiles') \in Nat
    <2>1. IsFiniteSet(BadFiles')
      BY <1>2, <1>3, FS_AddElement
    <2>2. Cardinality(BadFiles') \in {Cardinality(BadFiles), Cardinality(BadFiles) + 1}
      BY <1>2, <1>3, FS_AddElement
    <2>3. QED
      BY <1>3, <2>1, <2>2, FS_CardinalityType
  <1>5. Cardinality(BadFiles') <= decays' /\ decays' \in Nat
    BY <1>1, <1>4 DEF WritesInv
  <1>6. \A m \in Nodes : disk[m] # "none" => disk'[m] # "none"
    BY <1>1 DEF WritesInv
  <1>7. \A w \in Writers : WriteSound(writer'[w], rows', disk')
    BY <1>1, <1>6 DEF WritesInv, WriteSound
  <1>8. disk' \in [Nodes -> FileStates]
    BY <1>1 DEF WritesInv, FileStates
  <1>9. QED
    BY <1>1, <1>5, <1>6, <1>7, <1>8 DEF WritesInv

\* The invariant depends on files, rows, writes and decays only.
LEMMA UnchangedInv ==
    ASSUME WritesInv, UNCHANGED <<disk, rows, writer, acked, decays>>
    PROVE  WritesInv'
  BY DEF WritesInv, WriteSound, IsWrite, BadFiles

\* Of what happens on the nodes only a decay touches the invariant.
LEMMA NodeStepInv ==
    ASSUME WritesInv, NodeStep
    PROVE  WritesInv'
  <1>1. CASE ListSilent
    BY <1>1, UnchangedInv DEF ListSilent, tables, world
  <1>2. CASE \E n \in Nodes : MarkOffline(n)
    BY <1>2, UnchangedInv DEF MarkOffline, world
  <1>3. CASE \E n \in Nodes : NodeDown(n)
    BY <1>3, UnchangedInv DEF NodeDown, tables
  <1>4. CASE \E n \in Nodes : NodeUp(n)
    BY <1>4, UnchangedInv DEF NodeUp
  <1>5. CASE \E n \in Nodes : Decay(n)
    BY <1>5, DecayInv
  <1>6. QED
    BY <1>1, <1>2, <1>3, <1>4, <1>5 DEF NodeStep

-----------------------------------------------------------------------------

\* At the start there is no file, no row and no write.
LEMMA InitWritesInv ==
    ASSUME Init
    PROVE  WritesInv
  <1>1. BadFiles = {}
    BY DEF Init, BadFiles
  <1>2. Cardinality(BadFiles) = 0
    BY <1>1, FS_EmptySet
  <1>3. \A w \in Writers : WriteSound(writer[w], rows, disk)
    BY DEF Init, WriteSound
  <1>4. QED
    BY <1>2, <1>3 DEF Init, WritesInv, FileStates

\* While the rows outnumber the decayed files one of them is good.
LEMMA WritesInvSuffices ==
    ASSUME Repairers = {}, WritesInv
    PROVE  AckedSurvives
  <1> SUFFICES ASSUME acked, Threats < Quorum, GoodReplicas = {} PROVE FALSE
    BY DEF AckedSurvives
  <1>0. decays < Quorum
    BY DEF Threats
  <1>1. rows \subseteq BadFiles /\ BadFiles \subseteq Nodes
    BY DEF GoodReplicas, BadFiles, WritesInv, FileStates
  <1>2. /\ Cardinality(rows) <= Cardinality(BadFiles)
        /\ Cardinality(BadFiles) \in Nat /\ Cardinality(rows) \in Nat
    BY <1>1, NodeSets
  <1>3. QED
    BY <1>0, <1>2, FactorAssumption DEF WritesInv

\* Without repair a chunk that replicateChunk has stored has a good replica
\* until files decay on as many nodes as the quorum, whatever writes of the
\* chunk overlap, whatever rows are rejected and whatever nodes are down.
THEOREM QuorumSurvivesDecay ==
    ASSUME Repairers = {}
    PROVE  Spec => []AckedSurvives
  <1>1. Init => WritesInv
    BY InitWritesInv
  <1>2. WritesInv /\ [Next]_vars => WritesInv'
    <2> SUFFICES ASSUME WritesInv, [Next]_vars PROVE WritesInv'
      OBVIOUS
    <2>1. CASE \E w \in Writers : WriteStep(w)
      BY <2>1, StartWriteInv, WriteNodeInv, RecordReplicaInv, FinishWriteInv
         DEF WriteStep, WriteGoesOn
    <2>2. CASE NodeStep
      BY <2>2, NodeStepInv
    <2>3. CASE UNCHANGED vars
      BY <2>3, UnchangedInv DEF vars, tables, world
    <2>4. QED
      BY <2>1, <2>2, <2>3 DEF Next
  <1>3. WritesInv => AckedSurvives
    BY WritesInvSuffices
  <1>4. QED
    BY <1>1, <1>2, <1>3, PTL DEF Spec

-----------------------------------------------------------------------------
(* Types *)

\* The nodes at positions of the ring
LEMMA NodesOfRing ==
    /\ Len(Ring) \in Nat
    /\ \A i \in Positions : Ring[i] \in Nodes
    /\ \A S \in SUBSET Positions : NodesAt(S) \subseteq Nodes
  <1>1. Ring \in Seq(Nodes)
    BY RingAssumption
  <1>2. Len(Ring) \in Nat /\ \A i \in 1..Len(Ring) : Ring[i] \in Nodes
    BY <1>1
  <1>3. QED
    BY <1>2 DEF Positions, NodesAt

\* A set of positions has a first one.
LEMMA LeastPosition ==
    ASSUME NEW S \in SUBSET Positions, S # {}
    PROVE  \E i \in S : \A j \in S : i <= j
  <1>1. S \subseteq Nat
    BY NodesOfRing DEF Positions
  <1>2. PICK i \in S : \A j \in S : ~ (<<j, i>> \in OpToRel(<, Nat))
    BY <1>1, NatLessThanWellFounded, WFMin
  <1>3. \A j \in S : ~ (j < i)
    BY <1>1, <1>2 DEF OpToRel
  <1>4. \A j \in S : i <= j
    BY <1>1, <1>3
  <1>5. QED
    BY <1>4

\* The positions of a ring are finitely many.
LEMMA PositionSets ==
    ASSUME NEW S \in SUBSET Positions
    PROVE  IsFiniteSet(S) /\ Cardinality(S) \in Nat /\ S \subseteq Nat
  <1>1. IsFiniteSet(Positions) /\ Positions \subseteq Nat
    BY NodesOfRing, FS_Interval DEF Positions
  <1>2. QED
    BY <1>1, FS_Subset, FS_CardinalityType

\* Whatever nodes are selected or copied to, they are of the ring.
LEMMA SelectionOnRing ==
    /\ ActiveCandidates \subseteq Positions
    /\ SelectedNodes \subseteq ActiveCandidates
    /\ \A existing, needed :
           /\ Targets(existing, needed) \subseteq Positions
           /\ \A i \in Targets(existing, needed) : Ring[i] \notin existing
  BY DEF ActiveCandidates, SelectedNodes, Targets, FirstOf, RingNodes, FirstOfTheirZones

\* What a call of reReplicate remembers, by its phase
LEMMA RepairFields ==
    ASSUME TypeOK, NEW r \in Repairers
    PROVE  /\ repairer[r] # Idle <=> repairer[r].at # "idle"
           /\ repairer[r].at \in {"verify", "remove"} => repairer[r] \in CheckPhase
           /\ repairer[r].at = "row" => repairer[r] \in RowPhase
           /\ repairer[r].at = "read" => repairer[r] \in ReadPhase
           /\ repairer[r].at \in {"copy", "record"} => repairer[r] \in CopyPhase
  <1>1. repairer[r] \in {Idle} \cup RepairCall /\ Idle.at = "idle"
    BY DEF TypeOK, Idle
  <1>2. QED
    BY <1>1 DEF RepairCall, CheckPhase, RowPhase, ReadPhase, CopyPhase

\* What a call of replicateChunk remembers
LEMMA WriteFields ==
    ASSUME TypeOK, NEW w \in Writers, writer[w] # Idle
    PROVE  writer[w] \in WriteCall
  BY DEF TypeOK

\* Failures stay in their bound.
LEMMA FailureType == ASSUME TypeOK, Failure \/ UNCHANGED failures PROVE failures' \in 0..MaxFailures
  BY ReplicationBounds DEF TypeOK, Failure

\* The steps of replicateChunk keep the types.
LEMMA WriteStepType ==
    ASSUME TypeOK, NEW w \in Writers, WriteStep(w)
    PROVE  TypeOK'
  <1> DEFINE call == writer[w]
  <1>1. ASSUME NEW new \in {Idle} \cup WriteCall, writer' = [writer EXCEPT ![w] = new],
               disk' \in [Nodes -> FileStates], rows' \subseteq Nodes, acked' \in BOOLEAN,
               failures' \in 0..MaxFailures,
               UNCHANGED <<status, silent, repairer, up, outages, decays>>
        PROVE  TypeOK'
    BY <1>1 DEF TypeOK
  <1>2. disk \in [Nodes -> FileStates] /\ rows \subseteq Nodes /\ acked \in BOOLEAN
        /\ failures \in 0..MaxFailures
    BY DEF TypeOK
  <1>3. CASE StartWrite(w)
    <2>1. PICK new : new = [at |-> "write", left |-> NodesAt(SelectedNodes), written |-> {}, recorded |-> {}]
      OBVIOUS
    <2>2. NodesAt(SelectedNodes) \subseteq Nodes
      BY SelectionOnRing, NodesOfRing
    <2>3. new \in WriteCall
      BY <2>1, <2>2 DEF WriteCall
    <2>4. /\ writer' = [writer EXCEPT ![w] = new]
          /\ UNCHANGED <<disk, rows, status, silent, repairer, acked, up, outages, decays, failures>>
      BY <1>3, <2>1 DEF StartWrite, tables, world
    <2>5. QED
      BY <1>1, <1>2, <2>3, <2>4
  <1>4. ASSUME NEW n \in Nodes, WriteNode(w, n)
        PROVE  TypeOK'
    <2>1. PICK new : new = [at |-> "write", left |-> call.left \ {n}, written |-> call.written \cup (up \cap {n}),
                            recorded |-> call.recorded]
      OBVIOUS
    <2>2. call \in WriteCall
      BY <1>4, WriteFields DEF WriteNode
    <2>3. new \in WriteCall
      BY <2>1, <2>2 DEF WriteCall
    <2>4. /\ writer' = [writer EXCEPT ![w] = new]
          /\ disk' = [disk EXCEPT ![n] = IF n \in up THEN "good" ELSE @]
          /\ UNCHANGED <<rows, status, silent, repairer, acked, up, outages, decays, failures>>
      BY <1>4, <2>1 DEF WriteNode, tables, world
    <2>5. disk' \in [Nodes -> FileStates]
      BY <1>2, <2>4 DEF FileStates
    <2>6. QED
      BY <1>1, <1>2, <2>3, <2>4, <2>5
  <1>5. ASSUME NEW n \in Nodes, RecordReplica(w, n)
        PROVE  TypeOK'
    <2>1. call \in WriteCall
      BY <1>5, WriteFields DEF RecordReplica
    <2>2. PICK inserted \in {{n}, {}} :
             /\ IF inserted = {} THEN Failure ELSE UNCHANGED failures
             /\ rows' = rows \cup inserted
             /\ writer' = [writer EXCEPT ![w] =
                  [at |-> "write", left |-> call.left, written |-> call.written \ {n},
                   recorded |-> call.recorded \cup inserted]]
             /\ UNCHANGED <<disk, status, silent, repairer, acked, up, outages, decays>>
      BY <1>5 DEF RecordReplica
    <2>3. [at |-> "write", left |-> call.left, written |-> call.written \ {n},
           recorded |-> call.recorded \cup inserted] \in WriteCall
      BY <2>1 DEF WriteCall
    <2>4. failures' \in 0..MaxFailures
      BY <2>2, FailureType
    <2>5. rows' \subseteq Nodes
      BY <1>2, <2>2
    <2>6. QED
      BY <1>1, <1>2, <2>2, <2>3, <2>4, <2>5
  <1>6. CASE FinishWrite(w)
    <2>1. /\ writer' = [writer EXCEPT ![w] = Idle] /\ acked' \in BOOLEAN
          /\ UNCHANGED <<disk, rows, status, silent, repairer, up, outages, decays, failures>>
      BY <1>6 DEF FinishWrite, tables, world
    <2>2. QED
      BY <1>1, <1>2, <2>1
  <1>7. QED
    BY <1>3, <1>4, <1>5, <1>6 DEF WriteStep, WriteGoesOn

\* A call that waits for the row of a copy knows which copy it is.
CopyPending(r) == repairer[r].at = "record" => repairer[r].todo # {}

\* The next target of a repair is a target, the first of the ring.
LEMMA FirstPosition ==
    ASSUME NEW S \in SUBSET Positions, S # {}
    PROVE  \A call : call.todo = S => NextTarget(call) \in S
  BY LeastPosition DEF NextTarget

\* A step of a repair call keeps the types if what it remembers is of them.
LEMMA GoOnType ==
    ASSUME TypeOK, NEW r \in Repairers, NEW new \in {Idle} \cup RepairCall, GoOn(r, new),
           disk' \in [Nodes -> FileStates], rows' \subseteq Nodes, failures' \in 0..MaxFailures,
           UNCHANGED <<status, silent, writer, acked, up, outages, decays>>
    PROVE  TypeOK'
  BY DEF TypeOK, GoOn

\* The steps of reReplicate that only read keep the types.
LEMMA ReadingStepType ==
    ASSUME TypeOK, NEW r \in Repairers,
           \/ StartRepair(r) \/ ListSources(r) \/ EndRepair(r)
           \/ \E n \in Nodes : VerifyReplica(r, n) \/ ReadSource(r, n)
    PROVE  TypeOK'
  <1> DEFINE call == repairer[r]
  <1>1. /\ disk \in [Nodes -> FileStates] /\ rows \subseteq Nodes
        /\ failures \in 0..MaxFailures
    BY DEF TypeOK
  <1>2. ASSUME NEW new \in {Idle} \cup RepairCall, GoOn(r, new),
               UNCHANGED <<disk, tables, silent, writer, acked, world>>
        PROVE  TypeOK'
    <2>1. UNCHANGED <<disk, rows, status, silent, writer, acked, up, outages, decays, failures>>
      BY <1>2 DEF tables, world
    <2>2. QED
      BY <1>1, <1>2, <2>1, GoOnType
  <1>3. CASE StartRepair(r)
    <2>1. [at |-> "verify", listed |-> rows, corrupted |-> {}, left |-> rows] \in RepairCall
      BY <1>1 DEF RepairCall, CheckPhase
    <2>2. QED
      BY <1>2, <1>3, <2>1 DEF StartRepair
  <1>4. CASE ListSources(r)
    <2>1. call \in CheckPhase
      BY <1>4, RepairFields DEF ListSources
    <2>2. CASE EnoughReplicas(call)
      BY <1>2, <1>4, <2>2 DEF ListSources, Return
    <2>3. CASE ~ EnoughReplicas(call)
      <3>1. call.listed \subseteq Nodes /\ call.corrupted \subseteq Nodes
        BY <2>1 DEF CheckPhase
      <3>2. /\ Cardinality(call.listed) \in Nat /\ Cardinality(call.corrupted) \in Nat
        BY <3>1, NodesAssumption, FS_Subset, FS_CardinalityType
      <3>3. Factor - Current(call) \in Nat
        BY <2>3, <3>2, FactorAssumption DEF EnoughReplicas, Current
      <3>4. [at |-> "read", existing |-> rows, left |-> rows \ call.corrupted,
             needed |-> Factor - Current(call)] \in RepairCall
        BY <1>1, <3>3 DEF RepairCall, ReadPhase
      <3>5. QED
        BY <1>2, <1>4, <2>3, <3>4 DEF ListSources
    <2>4. QED
      BY <2>2, <2>3
  <1>5. CASE EndRepair(r)
    BY <1>2, <1>5 DEF EndRepair, Return
  <1>6. ASSUME NEW n \in Nodes, VerifyReplica(r, n)
        PROVE  TypeOK'
    <2>1. call \in CheckPhase /\ call.at = "verify"
      BY <1>6, RepairFields DEF VerifyReplica
    <2>2. PICK bad : bad = IF Verified(n) THEN call.corrupted ELSE call.corrupted \cup {n}
      OBVIOUS
    <2>3. PICK left : left = call.left \ {n}
      OBVIOUS
    <2>4. bad \subseteq Nodes /\ left \subseteq Nodes
      BY <2>1, <2>2, <2>3 DEF CheckPhase
    <2>5. /\ [at |-> "remove", listed |-> call.listed, corrupted |-> bad, left |-> bad] \in RepairCall
          /\ [call EXCEPT !.corrupted = bad, !.left = left] \in RepairCall
      BY <2>1, <2>4 DEF RepairCall, CheckPhase
    <2>6. GoOn(r, IF left = {}
                  THEN [at |-> "remove", listed |-> call.listed, corrupted |-> bad, left |-> bad]
                  ELSE [call EXCEPT !.corrupted = bad, !.left = left])
      BY <1>6, <2>2, <2>3 DEF VerifyReplica
    <2>7. QED
      BY <1>2, <1>6, <2>5, <2>6 DEF VerifyReplica
  <1>7. ASSUME NEW n \in Nodes, ReadSource(r, n)
        PROVE  TypeOK'
    <2>1. call \in ReadPhase
      BY <1>7, RepairFields DEF ReadSource
    <2>2. PICK targets : targets = Targets(call.existing, call.needed)
      OBVIOUS
    <2>3. targets \subseteq Positions
      BY <2>2, SelectionOnRing
    <2>4. /\ [at |-> "copy", data |-> disk[n], todo |-> targets] \in RepairCall
          /\ [call EXCEPT !.left = @ \ {n}] \in RepairCall
      BY <1>1, <2>1, <2>3 DEF RepairCall, ReadPhase, CopyPhase
    <2>5. QED
      BY <1>2, <1>7, <2>2, <2>4 DEF ReadSource
  <1>8. QED
    BY <1>3, <1>4, <1>5, <1>6, <1>7

\* The steps of reReplicate that write or delete keep the types.
LEMMA WritingStepType ==
    ASSUME TypeOK, NEW r \in Repairers, CopyPending(r),
           \/ RemoveRow(r) \/ CopyTo(r) \/ RecordCopy(r)
           \/ \E n \in Nodes : RemoveFile(r, n)
    PROVE  TypeOK'
  <1> DEFINE call == repairer[r]
  <1>1. /\ disk \in [Nodes -> FileStates] /\ rows \subseteq Nodes
        /\ failures \in 0..MaxFailures
    BY DEF TypeOK
  <1>2. ASSUME NEW n \in Nodes, RemoveFile(r, n)
        PROVE  TypeOK'
    <2>1. call \in CheckPhase /\ call.at = "remove"
      BY <1>2, RepairFields DEF RemoveFile
    <2>2. PICK left : left = call.left \ {n}
      OBVIOUS
    <2>3. /\ [at |-> "row", listed |-> call.listed, corrupted |-> call.corrupted,
              left |-> left, node |-> n] \in RepairCall
          /\ [call EXCEPT !.left = left] \in RepairCall
      BY <2>1, <2>2 DEF RepairCall, CheckPhase, RowPhase
    <2>4. UNCHANGED <<rows, status, silent, writer, acked, up, outages, decays, failures>>
      BY <1>2 DEF RemoveFile, tables, world
    <2>5. disk' \in [Nodes -> FileStates]
      <3>1. disk' = disk \/ disk' = [disk EXCEPT ![n] = "none"]
        BY <1>2 DEF RemoveFile
      <3>2. QED
        BY <1>1, <3>1 DEF FileStates
    <2>6. \E new \in RepairCall : GoOn(r, new)
      BY <1>2, <2>2, <2>3 DEF RemoveFile
    <2>7. QED
      BY <1>1, <2>4, <2>5, <2>6, GoOnType
  <1>3. CASE RemoveRow(r)
    <2>1. call \in RowPhase
      BY <1>3, RepairFields DEF RemoveRow
    <2>2. [at |-> "remove", listed |-> call.listed, corrupted |-> call.corrupted,
           left |-> call.left] \in RepairCall
      BY <2>1 DEF RepairCall, RowPhase, CheckPhase
    <2>3. failures' \in 0..MaxFailures
      BY <1>3, FailureType DEF RemoveRow
    <2>4. rows' \subseteq Nodes
      BY <1>1, <1>3 DEF RemoveRow
    <2>5. QED
      BY <1>1, <1>3, <2>2, <2>3, <2>4, GoOnType DEF RemoveRow
  <1>4. CASE CopyTo(r)
    <2>1. call \in CopyPhase
      BY <1>4, RepairFields DEF CopyTo
    <2>2. PICK next : next = NextTarget(call)
      OBVIOUS
    <2>3. next \in call.todo /\ call.todo \subseteq Positions
      BY <1>4, <2>1, <2>2, FirstPosition DEF CopyTo, CopyPhase
    <2>4. /\ [call EXCEPT !.at = "record"] \in RepairCall
          /\ [call EXCEPT !.todo = @ \ {next}] \in RepairCall
          /\ call.data \in FileStates
      BY <2>1, <2>3 DEF RepairCall, CopyPhase
    <2>5. UNCHANGED <<rows, status, silent, writer, acked, up, outages, decays, failures>>
      BY <1>4 DEF CopyTo, tables, world
    <2>6. disk' \in [Nodes -> FileStates]
      <3>1. disk' = disk \/ disk' = [disk EXCEPT ![Ring[next]] = call.data]
        BY <1>4, <2>2 DEF CopyTo
      <3>2. QED
        BY <1>1, <2>4, <3>1
    <2>7. \E new \in RepairCall : GoOn(r, new)
      BY <1>4, <2>2, <2>4 DEF CopyTo
    <2>8. QED
      BY <1>1, <2>5, <2>6, <2>7, GoOnType
  <1>5. CASE RecordCopy(r)
    <2>1. call \in CopyPhase
      BY <1>5, RepairFields DEF RecordCopy
    <2>2. PICK next : next = NextTarget(call)
      OBVIOUS
    <2>3. [call EXCEPT !.at = "copy", !.todo = @ \ {next}] \in RepairCall
      BY <2>1 DEF RepairCall, CopyPhase
    <2>4. failures' \in 0..MaxFailures
      BY <1>5, FailureType DEF RecordCopy
    <2>5. call.todo \in SUBSET Positions /\ call.todo # {}
      BY <1>5, <2>1 DEF RecordCopy, CopyPhase, CopyPending
    <2>6. Ring[next] \in Nodes
      BY <2>2, <2>5, FirstPosition, NodesOfRing
    <2>7. GoOn(r, [call EXCEPT !.at = "copy", !.todo = @ \ {next}])
      BY <1>5, <2>2 DEF RecordCopy
    <2>8. UNCHANGED <<disk, status, silent, writer, acked, up, outages, decays>>
      BY <1>5 DEF RecordCopy
    <2>9. rows' \subseteq Nodes
      BY <1>1, <1>5, <2>2, <2>6 DEF RecordCopy
    <2>10. QED
      BY <1>1, <2>3, <2>4, <2>7, <2>8, <2>9, GoOnType
  <1>6. QED
    BY <1>2, <1>3, <1>4, <1>5

\* A step of a repair call leaves the others where they were.
LEMMA StepGoesOn ==
    ASSUME NEW r \in Repairers, RepairStep(r)
    PROVE  \E new : GoOn(r, new)
  BY DEF RepairStep, StartRepair, VerifyReplica, RemoveFile, ReadSource, RemoveRow, ListSources,
         CopyTo, RecordCopy, EndRepair, Return

\* Whoever starts to wait for the row of a copy has just written the copy.
LEMMA RepairKeepsPending ==
    ASSUME TypeOK, NEW r \in Repairers, RepairStep(r), CopyPending(r)
    PROVE  CopyPending(r)'
  <1> DEFINE call == repairer[r]
  <1>1. ASSUME NEW new, GoOn(r, new), new.at # "record"
        PROVE  CopyPending(r)'
    BY <1>1 DEF GoOn, CopyPending, TypeOK
  <1>2. Idle.at # "record"
    BY DEF Idle
  <1>3. CASE CopyTo(r)
    <2>1. call \in CopyPhase /\ call.at = "copy" /\ call.todo # {}
      BY <1>3, RepairFields DEF CopyTo
    <2>2. PICK rest : rest = call.todo \ {NextTarget(call)}
      OBVIOUS
    <2>3. GoOn(r, [call EXCEPT !.at = "record"]) \/ GoOn(r, [call EXCEPT !.todo = rest])
      BY <1>3, <2>2 DEF CopyTo
    <2>4. [call EXCEPT !.todo = rest].at = "copy" /\ [call EXCEPT !.at = "record"].todo = call.todo
      BY <2>1 DEF CopyPhase
    <2>5. CASE GoOn(r, [call EXCEPT !.at = "record"])
      BY <2>1, <2>4, <2>5 DEF GoOn, CopyPending, TypeOK
    <2>6. CASE GoOn(r, [call EXCEPT !.todo = rest])
      BY <1>1, <2>4, <2>6
    <2>7. QED
      BY <2>3, <2>5, <2>6
  <1>4. CASE RecordCopy(r)
    <2>1. call \in CopyPhase
      BY <1>4, RepairFields DEF RecordCopy
    <2>2. PICK new : new = [call EXCEPT !.at = "copy", !.todo = @ \ {NextTarget(call)}]
      OBVIOUS
    <2>3. new.at = "copy"
      BY <2>1, <2>2 DEF CopyPhase
    <2>4. QED
      BY <1>1, <1>4, <2>2, <2>3 DEF RecordCopy
  <1>5. CASE StartRepair(r)
    BY <1>1, <1>5 DEF StartRepair
  <1>6. CASE ListSources(r)
    BY <1>1, <1>2, <1>6 DEF ListSources, Return
  <1>7. CASE EndRepair(r)
    BY <1>1, <1>2, <1>7 DEF EndRepair, Return
  <1>8. CASE RemoveRow(r)
    BY <1>1, <1>8 DEF RemoveRow
  <1>9. ASSUME NEW n \in Nodes, VerifyReplica(r, n)
        PROVE  CopyPending(r)'
    <2>1. call \in CheckPhase /\ call.at = "verify"
      BY <1>9, RepairFields DEF VerifyReplica
    <2>2. PICK bad, left :
             GoOn(r, IF left = {}
                     THEN [at |-> "remove", listed |-> call.listed, corrupted |-> bad, left |-> bad]
                     ELSE [call EXCEPT !.corrupted = bad, !.left = left])
      BY <1>9 DEF VerifyReplica
    <2>3. /\ [at |-> "remove", listed |-> call.listed, corrupted |-> bad, left |-> bad].at # "record"
          /\ [call EXCEPT !.corrupted = bad, !.left = left].at # "record"
      BY <2>1 DEF CheckPhase
    <2>4. QED
      BY <1>1, <2>2, <2>3
  <1>10. ASSUME NEW n \in Nodes, RemoveFile(r, n)
         PROVE  CopyPending(r)'
    <2>1. call \in CheckPhase /\ call.at = "remove"
      BY <1>10, RepairFields DEF RemoveFile
    <2>2. \E new : GoOn(r, new) /\ new.at # "record"
      BY <1>10, <2>1 DEF RemoveFile, CheckPhase
    <2>3. QED
      BY <1>1, <2>2
  <1>11. ASSUME NEW n \in Nodes, ReadSource(r, n)
         PROVE  CopyPending(r)'
    <2>1. call \in ReadPhase /\ call.at = "read"
      BY <1>11, RepairFields DEF ReadSource
    <2>2. \E new : GoOn(r, new) /\ new.at # "record"
      BY <1>11, <2>1 DEF ReadSource, ReadPhase
    <2>3. QED
      BY <1>1, <2>2
  <1>12. QED
    BY <1>3, <1>4, <1>5, <1>6, <1>7, <1>8, <1>9, <1>10, <1>11 DEF RepairStep

\* The types, with what keeps the next target defined
TypeInv == TypeOK /\ \A r \in Repairers : CopyPending(r)

\* A step of one repair call keeps the types, those of the other calls too.
LEMMA RepairStepType ==
    ASSUME TypeInv, NEW r \in Repairers, RepairStep(r)
    PROVE  TypeInv'
  <1>1. TypeOK /\ CopyPending(r)
    BY DEF TypeInv
  <1>2. TypeOK'
    BY <1>1, ReadingStepType, WritingStepType DEF RepairStep
  <1>3. CopyPending(r)'
    BY <1>1, RepairKeepsPending
  <1>4. ASSUME NEW s \in Repairers, s # r PROVE CopyPending(s)'
    <2>1. PICK new : GoOn(r, new)
      BY StepGoesOn
    <2>2. repairer'[s] = repairer[s]
      BY <1>1, <1>4, <2>1 DEF GoOn, TypeOK
    <2>3. QED
      BY <2>2 DEF TypeInv, CopyPending
  <1>5. QED
    BY <1>2, <1>3, <1>4 DEF TypeInv

\* Nothing that happens on the nodes disturbs the types.
LEMMA NodeStepType ==
    ASSUME TypeOK, NodeStep
    PROVE  TypeOK' /\ UNCHANGED repairer
  <1>1. CASE ListSilent
    BY <1>1 DEF ListSilent, tables, world, TypeOK
  <1>2. ASSUME NEW n \in Nodes, MarkOffline(n) PROVE TypeOK' /\ UNCHANGED repairer
    BY <1>2 DEF MarkOffline, world, TypeOK
  <1>3. ASSUME NEW n \in Nodes, NodeDown(n) PROVE TypeOK' /\ UNCHANGED repairer
    BY <1>3, ReplicationBounds DEF NodeDown, tables, TypeOK
  <1>4. ASSUME NEW n \in Nodes, NodeUp(n) PROVE TypeOK' /\ UNCHANGED repairer
    BY <1>4 DEF NodeUp, TypeOK
  <1>5. ASSUME NEW n \in Nodes, Decay(n) PROVE TypeOK' /\ UNCHANGED repairer
    BY <1>5, ReplicationBounds DEF Decay, tables, TypeOK, FileStates
  <1>6. QED
    BY <1>1, <1>2, <1>3, <1>4, <1>5 DEF NodeStep

\* A write does not touch what a repair remembers.
LEMMA WritersLeaveRepairs == ASSUME NEW w \in Writers, WriteStep(w) PROVE UNCHANGED repairer
  BY DEF WriteStep, WriteGoesOn, StartWrite, WriteNode, RecordReplica, FinishWrite

\* The initial values are of the types.
LEMMA InitTypeInv == Init => TypeInv
  <1> SUFFICES ASSUME Init PROVE TypeInv
    OBVIOUS
  <1>1. TypeOK
    <2>1. writer \in [Writers -> {Idle} \cup WriteCall] /\ repairer \in [Repairers -> {Idle} \cup RepairCall]
      BY DEF Init
    <2>2. 0 \in 0..MaxOutages /\ 0 \in 0..MaxDecays /\ 0 \in 0..MaxFailures
      BY ReplicationBounds
    <2>3. QED
      BY <2>1, <2>2 DEF Init, TypeOK, FileStates
  <1>2. \A r \in Repairers : CopyPending(r)
    BY DEF Init, CopyPending, Idle
  <1>3. QED
    BY <1>1, <1>2 DEF TypeInv

\* Every step keeps the types.
LEMMA NextTypeInv == ASSUME TypeInv, [Next]_vars PROVE TypeInv'
  <1>1. TypeOK
    BY DEF TypeInv
  <1>2. ASSUME TypeOK', UNCHANGED repairer PROVE TypeInv'
    BY <1>2 DEF TypeInv, CopyPending
  <1>3. ASSUME NEW w \in Writers, WriteStep(w) PROVE TypeInv'
    BY <1>1, <1>2, <1>3, WriteStepType, WritersLeaveRepairs
  <1>4. CASE NodeStep
    BY <1>1, <1>2, <1>4, NodeStepType
  <1>5. CASE UNCHANGED vars
    BY <1>1, <1>2, <1>5 DEF vars, TypeOK
  <1>6. QED
    BY <1>3, <1>4, <1>5, RepairStepType DEF Next

\* The types hold for every ring, any number of calls and with writes and
\* repairs that overlap.
THEOREM ReplicationTypeCorrect == Spec => []TypeOK
  <1>1. Init => TypeInv
    BY InitTypeInv
  <1>2. TypeInv /\ [Next]_vars => TypeInv'
    BY NextTypeInv
  <1>3. TypeInv => TypeOK
    BY DEF TypeInv
  <1>4. QED
    BY <1>1, <1>2, <1>3, PTL DEF Spec

-----------------------------------------------------------------------------
(* Selection of the nodes for the replicas *)

\* A map that tells the members of a finite set apart has as many values.
LEMMA AsManyValues ==
    ASSUME NEW S, IsFiniteSet(S), NEW f, \A x, y \in S : f[x] = f[y] => x = y
    PROVE  Cardinality({f[x] : x \in S}) = Cardinality(S)
  <1> DEFINE T == {f[x] : x \in S}
             g == [x \in S |-> f[x]]
  <1>1. g \in Bijection(S, T)
    BY DEF Bijection, Injection, Surjection, IsInjective
  <1>2. ExistsBijection(S, T)
    BY <1>1 DEF ExistsBijection
  <1>3. QED
    BY <1>2, FS_Bijection

\* The first k of a set of positions are k of them, or all if it is smaller.
LEMMA FirstOfSize ==
    ASSUME NEW S \in SUBSET Positions, NEW k \in Nat
    PROVE  /\ FirstOf(S, k) \subseteq S
           /\ Cardinality(S) < k => FirstOf(S, k) = S
           /\ Cardinality(S) >= k => Cardinality(FirstOf(S, k)) = k
  <1> DEFINE before(i) == {j \in S : j < i}
             size == Cardinality(S)
             F == FirstOf(S, k)
  <1>1. S \subseteq Nat /\ IsFiniteSet(S) /\ size \in Nat
    BY PositionSets
  <1>2. PICK rank : rank = [i \in S |-> Cardinality(before(i))]
    OBVIOUS
  <1>3. ASSUME NEW i \in S PROVE IsFiniteSet(before(i)) /\ rank[i] \in Nat /\ rank[i] < size
    <2>1. before(i) \in SUBSET S /\ i \notin before(i)
      BY <1>1
    <2>2. IsFiniteSet(before(i)) /\ rank[i] <= size /\ (size = rank[i] => S = before(i))
      BY <1>1, <1>2, <2>1, FS_Subset
    <2>3. rank[i] \in Nat
      BY <1>2, <2>2, FS_CardinalityType
    <2>4. size # rank[i]
      BY <2>1, <2>2
    <2>5. QED
      BY <1>1, <2>2, <2>3, <2>4
  <1>4. ASSUME NEW i \in S, NEW j \in S, rank[i] = rank[j] PROVE i = j
    <2>1. ASSUME NEW x \in S, NEW y \in S, x < y PROVE rank[x] # rank[y]
      <3>0. (\A z \in S : z < x => z < y) /\ ~ (x < x)
        BY <1>1, <2>1
      <3>1. before(x) \in SUBSET before(y) /\ x \in before(y) /\ x \notin before(x)
        BY <2>1, <3>0
      <3>2. IsFiniteSet(before(y))
        BY <1>3
      <3>3. Cardinality(before(y)) = Cardinality(before(x)) => before(x) = before(y)
        BY <3>1, <3>2, FS_Subset
      <3>4. before(x) # before(y)
        BY <3>1
      <3>5. QED
        BY <1>2, <3>3, <3>4
    <2>2. ~ (i < j) /\ ~ (j < i)
      BY <1>4, <2>1
    <2>3. i \in Nat /\ j \in Nat
      BY <1>1
    <2>4. QED
      BY <2>2, <2>3
  <1>5. F = {i \in S : rank[i] < k} /\ F \subseteq S
    BY <1>2 DEF FirstOf
  <1> HIDE DEF F
  <1>6. ASSUME size < k PROVE F = S
    <2>1. ASSUME NEW i \in S PROVE rank[i] < k
      <3>1. rank[i] \in Nat /\ rank[i] < size
        BY <1>3
      <3>2. QED
        BY <1>1, <1>6, <3>1
    <2>2. QED
      BY <1>5, <2>1
  <1>7. ASSUME size >= k PROVE Cardinality(F) = k
    <2>1. rank \in Injection(S, 0..(size - 1))
      <3>1. ASSUME NEW i \in S PROVE rank[i] \in 0..(size - 1)
        <4>1. rank[i] \in Nat /\ rank[i] < size
          BY <1>3
        <4>2. QED
          BY <1>1, <4>1
      <3>2. QED
        BY <1>2, <1>4, <3>1 DEF Injection, IsInjective
    <2>2. IsFiniteSet(0..(size - 1)) /\ Cardinality(0..(size - 1)) = size
      BY <1>1, FS_Interval
    <2>3. rank \in Surjection(S, 0..(size - 1))
      BY <2>1, <2>2, FS_Injection
    <2>4. \A x, y \in F : rank[x] = rank[y] => x = y
      BY <1>4, <1>5
    <2>5. IsFiniteSet(F)
      BY <1>1, <1>5, FS_Subset
    <2>6. Cardinality({rank[x] : x \in F}) = Cardinality(F)
      BY <2>4, <2>5, AsManyValues
    <2>7. {rank[x] : x \in F} = 0..(k - 1)
      <3>1. ASSUME NEW m \in 0..(k - 1) PROVE \E x \in F : rank[x] = m
        <4>1. m \in 0..(size - 1)
          BY <1>1, <1>7
        <4>2. PICK x \in S : rank[x] = m
          BY <2>3, <4>1 DEF Surjection
        <4>3. QED
          BY <1>5, <4>2
      <3>2. ASSUME NEW x \in F PROVE rank[x] \in 0..(k - 1)
        <4>1. x \in S /\ rank[x] < k
          BY <1>5
        <4>2. rank[x] \in Nat
          BY <1>3, <4>1
        <4>3. QED
          BY <4>1, <4>2
      <3>3. QED
        BY <3>1, <3>2
    <2>8. Cardinality(0..(k - 1)) = k
      BY FS_Interval
    <2>9. QED
      BY <2>6, <2>7, <2>8
  <1>8. QED
    BY <1>5, <1>6, <1>7 DEF F

\* The first nodes of the zones lie in all zones, each in one of its own.
LEMMA ZonesOfFirst ==
    LET zone == [i \in Positions |-> ZoneOf[Ring[i]]]
    IN  /\ FirstOfTheirZones \subseteq ActiveCandidates
        /\ ActiveCandidates \subseteq Positions
        /\ \A i, j \in FirstOfTheirZones : zone[i] = zone[j] => i = j
        /\ \A S \in SUBSET Positions : ZonesOf(S) = {zone[i] : i \in S}
        /\ ZonesOf(FirstOfTheirZones) = ZonesOf(ActiveCandidates)
  <1> DEFINE zone == [i \in Positions |-> ZoneOf[Ring[i]]]
  <1>1. /\ FirstOfTheirZones \subseteq ActiveCandidates
        /\ ActiveCandidates \subseteq Positions
    BY DEF FirstOfTheirZones, ActiveCandidates, RingNodes
  <1>2. ActiveCandidates \subseteq Nat
    BY <1>1, PositionSets
  <1>3. ASSUME NEW i \in FirstOfTheirZones, NEW j \in FirstOfTheirZones, zone[i] = zone[j]
        PROVE  i = j
    <2>1. ~ (i < j) /\ ~ (j < i)
      BY <1>1, <1>3 DEF FirstOfTheirZones
    <2>2. QED
      BY <1>1, <1>2, <2>1
  <1>4. ASSUME NEW S \in SUBSET Positions PROVE ZonesOf(S) = {zone[i] : i \in S}
    BY DEF ZonesOf, NodesAt
  <1>5. ASSUME NEW i \in ActiveCandidates
        PROVE  \E j \in FirstOfTheirZones : zone[j] = zone[i]
    <2> DEFINE same == {j \in ActiveCandidates : zone[j] = zone[i]}
    <2>1. same \in SUBSET Positions /\ i \in same
      BY <1>1
    <2>2. PICK j \in same : \A l \in same : j <= l
      BY <2>1, LeastPosition
    <2>3. ASSUME NEW l \in ActiveCandidates, l < j PROVE ZoneOf[Ring[l]] # ZoneOf[Ring[j]]
      BY <1>1, <1>2, <2>2, <2>3
    <2>4. j \in FirstOfTheirZones
      BY <2>2, <2>3 DEF FirstOfTheirZones
    <2>5. QED
      BY <2>2, <2>4
  <1>6. ZonesOf(FirstOfTheirZones) = ZonesOf(ActiveCandidates)
    <2>1. /\ ZonesOf(FirstOfTheirZones) = {zone[i] : i \in FirstOfTheirZones}
          /\ ZonesOf(ActiveCandidates) = {zone[i] : i \in ActiveCandidates}
      BY <1>1, <1>4
    <2> HIDE DEF zone
    <2>2. QED
      BY <1>1, <1>5, <2>1
  <1>7. QED
    BY <1>1, <1>3, <1>4, <1>6

\* The two passes choose from as many zones as there are, up to the factor.
LEMMA SelectionSpreads == SpreadOverZones
  <1> DEFINE firsts == FirstOf(FirstOfTheirZones, Factor)
             others == ActiveCandidates \ FirstOfTheirZones
             number == Cardinality(FirstOfTheirZones)
  <1>1. PICK zone :
          /\ FirstOfTheirZones \subseteq ActiveCandidates
          /\ ActiveCandidates \subseteq Positions
          /\ \A i, j \in FirstOfTheirZones : zone[i] = zone[j] => i = j
          /\ \A S \in SUBSET Positions : ZonesOf(S) = {zone[i] : i \in S}
          /\ ZonesOf(FirstOfTheirZones) = ZonesOf(ActiveCandidates)
    BY ZonesOfFirst
  <1>2. /\ FirstOfTheirZones \in SUBSET Positions
        /\ IsFiniteSet(FirstOfTheirZones) /\ number \in Nat
    BY <1>1, PositionSets
  <1>3. ASSUME NEW S \in SUBSET FirstOfTheirZones
        PROVE  Cardinality(ZonesOf(S)) = Cardinality(S)
    <2>1. IsFiniteSet(S) /\ S \in SUBSET Positions
      BY <1>2, FS_Subset
    <2>2. \A i, j \in S : zone[i] = zone[j] => i = j
      BY <1>1
    <2>3. Cardinality({zone[i] : i \in S}) = Cardinality(S)
      BY <2>1, <2>2, AsManyValues
    <2>4. QED
      BY <1>1, <2>1, <2>3
  <1>4. /\ firsts \subseteq FirstOfTheirZones
        /\ number < Factor => firsts = FirstOfTheirZones
        /\ number >= Factor => Cardinality(firsts) = Factor
    BY <1>2, FirstOfSize, FactorAssumption
  <1>5. Cardinality(ZonesOf(ActiveCandidates)) = number
    BY <1>1, <1>3
  <1>6. SelectedNodes = firsts \cup FirstOf(others, Factor - Cardinality(firsts))
    BY DEF SelectedNodes
  <1>7. SelectedNodes \subseteq ActiveCandidates
    BY <1>1, <1>4, <1>6 DEF FirstOf
  <1>8. CASE number < Factor
    <2>1. FirstOfTheirZones \subseteq SelectedNodes
      BY <1>4, <1>6, <1>8
    <2>2. ZonesOf(SelectedNodes) = ZonesOf(ActiveCandidates)
      <3>1. /\ ZonesOf(FirstOfTheirZones) = {zone[i] : i \in FirstOfTheirZones}
            /\ ZonesOf(SelectedNodes) = {zone[i] : i \in SelectedNodes}
            /\ ZonesOf(ActiveCandidates) = {zone[i] : i \in ActiveCandidates}
        BY <1>1, <1>7
      <3>2. {zone[i] : i \in FirstOfTheirZones} = {zone[i] : i \in ActiveCandidates}
        BY <1>1, <3>1
      <3>3. QED
        BY <1>7, <2>1, <3>1, <3>2
    <2>3. QED
      BY <1>5, <1>8, <2>2 DEF SpreadOverZones, AsManyZones
  <1>9. CASE number >= Factor
    <2>1. Cardinality(firsts) = Factor
      BY <1>4, <1>9
    <2>2. FirstOf(others, 0) = {}
      <3>1. \A i \in others : {j \in others : j < i} \in SUBSET Positions
        BY <1>1
      <3>2. \A i \in others : Cardinality({j \in others : j < i}) \in Nat
        BY <3>1, PositionSets
      <3>3. QED
        BY <3>2 DEF FirstOf
    <2>3. SelectedNodes = firsts
      BY <1>6, <2>1, <2>2, FactorAssumption
    <2>4. QED
      BY <1>2, <1>3, <1>4, <1>5, <1>9, <2>1, <2>3, FactorAssumption DEF SpreadOverZones, AsManyZones
  <1>10. QED
    BY <1>2, <1>8, <1>9, FactorAssumption

\* Whatever nodes are active, selectStorageNodes spreads the replicas of a
\* chunk over as many zones as the candidates and the factor allow.
THEOREM ReplicasSpread == Spec => []SpreadOverZones
  BY SelectionSpreads, PTL

-----------------------------------------------------------------------------
(* Survival with repair *)

\* Nodes whose file a reader would get, and get right
Whole == {n \in Nodes : disk[n] = "good" /\ n \in up}

\* The repair call is going to delete the file of the node, or its row.
IsDoomed(call, n) ==
    \/ call.at = "verify" /\ n \in call.corrupted
    \/ call.at = "remove" /\ n \in call.left
    \/ call.at = "row" /\ (n \in call.left \/ n = call.node)

\* Replicas that only an outage or a decay can cost
Safe == {n \in rows \cap Whole : \A r \in Repairers : ~ IsDoomed(repairer[r], n)}

\* Every node beyond the threats that has been written by a call in flight
\* is whole, and the nodes it counts have rows.
Lost(call) == {n \in call.written \cup call.recorded : n \notin Whole}
Covered(call) ==
    call # Idle => /\ call.recorded \subseteq rows
                   /\ Cardinality(Lost(call)) <= decays + outages

\* A repair call copies only to nodes without a row.
Apart(call) ==
    /\ call.at = "read" => call.existing = rows
    /\ call.at \in {"copy", "record"} => \A i \in call.todo : Ring[i] \notin rows

\* What each of the calls keeps true, and that writes and repairs exclude
\* each other
WritesCovered == \A w \in Writers : Covered(writer[w])
RepairsApart == \A r \in Repairers : Apart(repairer[r])
Exclusive == \/ \A w \in Writers : writer[w] = Idle
             \/ \A r \in Repairers : repairer[r] = Idle
\* The safe replicas and the threats so far add up to the quorum.
EnoughSafe == acked => Cardinality(Safe) + decays + outages >= Quorum

\* The inductive invariant of survival under repair
SurvivalInv == TypeInv /\ WritesCovered /\ RepairsApart /\ Exclusive /\ EnoughSafe

\* Replicas stay safe in every step that is no threat.
LEMMA SafeStays ==
    ASSUME TypeOK, TypeOK', EnoughSafe, Safe \subseteq Safe', UNCHANGED <<acked, decays, outages>>
    PROVE  EnoughSafe'
  <1>1. Safe' \in SUBSET Nodes /\ Safe \in SUBSET Safe'
    BY DEF Safe, Whole
  <1>2. /\ Cardinality(Safe) <= Cardinality(Safe')
        /\ Cardinality(Safe) \in Nat /\ Cardinality(Safe') \in Nat
    BY <1>1, NodeSets
  <1>3. decays \in Nat /\ outages \in Nat
    BY DEF TypeOK
  <1>4. QED
    BY <1>2, <1>3, FactorAssumption DEF EnoughSafe

\* Nothing is doomed by a call that is over or copies.
LEMMA NotDoomed ==
    ASSUME NEW call, call.at \in {"idle", "read", "copy", "record"}
    PROVE  \A n : ~ IsDoomed(call, n)
  BY DEF IsDoomed

\* A call that is over dooms nothing and owes nothing.
LEMMA IdleIs == Idle.at = "idle" /\ (\A n : ~ IsDoomed(Idle, n)) /\ Apart(Idle) /\ Covered(Idle)
  BY NotDoomed DEF Idle, Apart, Covered

-----------------------------------------------------------------------------
(* Repair steps *)

\* A repair step that dooms no safe replica, deletes none and copies over
\* none keeps the invariant.
LEMMA RepairKeeps ==
    ASSUME SurvivalInv, TypeInv', NEW r, Repairers = {r}, NEW new, GoOn(r, new),
           \A w \in Writers : writer[w] = Idle,
           UNCHANGED <<writer, acked, up, decays, outages>>,
           \A n \in rows \cap Whole : ~ IsDoomed(repairer[r], n) =>
               n \in rows' /\ disk'[n] = "good" /\ ~ IsDoomed(new, n),
           Apart(new)'
    PROVE  SurvivalInv'
  <1>1. TypeOK /\ TypeOK' /\ EnoughSafe
    BY DEF SurvivalInv, TypeInv
  <1>2. repairer'[r] = new
    BY <1>1 DEF GoOn, TypeOK
  <1>3. RepairsApart'
    BY <1>2 DEF RepairsApart
  <1>4. WritesCovered' /\ Exclusive'
    BY DEF WritesCovered, Covered, Exclusive
  <1>5. Safe \subseteq Safe'
    BY <1>2 DEF Safe, Whole
  <1>6. EnoughSafe'
    BY <1>1, <1>5, SafeStays
  <1>7. QED
    BY <1>3, <1>4, <1>6 DEF SurvivalInv

\* Each step of reReplicate keeps the invariant: what it dooms was not whole,
\* what it deletes was doomed, and what it overwrites has no row.
LEMMA RepairStepKeeps ==
    ASSUME SurvivalInv, ~ Overlap, NEW r, Repairers = {r}, RepairStep(r), TypeInv'
    PROVE  SurvivalInv'
  <1> DEFINE call == repairer[r]
  <1>1. TypeOK /\ CopyPending(r) /\ Apart(call) /\ r \in Repairers
    BY DEF SurvivalInv, TypeInv, RepairsApart
  <1>2. \A w \in Writers : writer[w] = Idle
    BY <1>1, IdleIs DEF SurvivalInv, Exclusive, RepairStep, StartRepair, VerifyReplica, RemoveFile,
       RemoveRow, ListSources, ReadSource, CopyTo, RecordCopy, EndRepair
  <1>3. UNCHANGED <<writer, acked, up, decays, outages>>
    BY DEF RepairStep, StartRepair, VerifyReplica, RemoveFile,
       RemoveRow, ListSources, ReadSource, CopyTo, RecordCopy, EndRepair, world
  <1>4. ASSUME NEW new, GoOn(r, new), new.at \in {"idle", "read", "copy", "record"},
               UNCHANGED <<disk, rows>>, Apart(new)'
        PROVE  SurvivalInv'
    <2>1. \A n : ~ IsDoomed(new, n)
      BY <1>4, NotDoomed
    <2>2. QED
      BY <1>2, <1>3, <1>4, <2>1, RepairKeeps DEF Whole
  <1>5. CASE StartRepair(r)
    <2>1. PICK new : new = [at |-> "verify", listed |-> rows, corrupted |-> {}, left |-> rows]
      OBVIOUS
    <2>2. GoOn(r, new) /\ UNCHANGED <<disk, rows>>
      BY <1>5, <2>1 DEF StartRepair, tables
    <2>3. (\A n : ~ IsDoomed(new, n)) /\ Apart(new)'
      BY <2>1 DEF IsDoomed, Apart
    <2>4. QED
      BY <1>2, <1>3, <2>2, <2>3, RepairKeeps DEF Whole
  <1>6. CASE ListSources(r)
    <2>1. UNCHANGED <<disk, rows>>
      BY <1>6 DEF ListSources, tables
    <2>2. CASE EnoughReplicas(call)
      BY <1>4, <1>6, <2>1, <2>2, IdleIs DEF ListSources, Return, Apart
    <2>3. CASE ~ EnoughReplicas(call)
      <3>1. PICK new : new = [at |-> "read", existing |-> rows, left |-> rows \ call.corrupted,
                              needed |-> Factor - Current(call)]
        OBVIOUS
      <3>2. new.at = "read" /\ new.existing = rows
        BY <3>1
      <3>3. GoOn(r, new)
        BY <1>6, <2>3, <3>1 DEF ListSources
      <3>4. QED
        BY <1>4, <2>1, <3>2, <3>3 DEF Apart
    <2>4. QED
      BY <2>2, <2>3
  <1>7. CASE EndRepair(r)
    BY <1>4, <1>7, IdleIs DEF EndRepair, Return, tables, Apart
  <1>8. ASSUME NEW n \in Nodes, VerifyReplica(r, n) PROVE SurvivalInv'
    <2>1. call \in CheckPhase /\ call.at = "verify" /\ UNCHANGED <<disk, rows>>
      BY <1>1, <1>8, RepairFields DEF VerifyReplica, tables
    <2>2. PICK bad : bad = IF Verified(n) THEN call.corrupted ELSE call.corrupted \cup {n}
      OBVIOUS
    <2>3. PICK left : left = call.left \ {n}
      OBVIOUS
    <2>4. PICK new :
            /\ GoOn(r, new)
            /\ new = IF left = {}
                     THEN [at |-> "remove", listed |-> call.listed, corrupted |-> bad, left |-> bad]
                     ELSE [call EXCEPT !.corrupted = bad, !.left = left]
      BY <1>8, <2>2, <2>3 DEF VerifyReplica
    <2>5. \/ new.at = "remove" /\ new.left = bad
          \/ new.at = "verify" /\ new.corrupted = bad
      BY <2>1, <2>4 DEF CheckPhase
    <2>6. ASSUME NEW m \in rows \cap Whole, ~ IsDoomed(call, m)
          PROVE  ~ IsDoomed(new, m)
      <3>1. m \notin call.corrupted
        BY <2>1, <2>6 DEF IsDoomed
      <3>2. m = n => Verified(n)
        BY <2>6 DEF Whole, Verified
      <3>3. m \notin bad
        BY <2>2, <3>1, <3>2
      <3>4. QED
        BY <2>5, <3>3 DEF IsDoomed
    <2>7. Apart(new)'
      BY <2>5 DEF Apart
    <2>8. QED
      BY <1>2, <1>3, <2>1, <2>4, <2>6, <2>7, RepairKeeps DEF Whole
  <1>9. ASSUME NEW n \in Nodes, RemoveFile(r, n) PROVE SurvivalInv'
    <2>1. call \in CheckPhase /\ call.at = "remove" /\ n \in call.left /\ UNCHANGED rows
      BY <1>1, <1>9, RepairFields DEF RemoveFile, tables
    <2>2. PICK left : left = call.left \ {n}
      OBVIOUS
    <2>3. disk \in [Nodes -> FileStates]
      BY <1>1 DEF TypeOK
    <2>4. CASE n \in up
      <3>1. PICK new : new = [at |-> "row", listed |-> call.listed, corrupted |-> call.corrupted,
                              left |-> left, node |-> n]
        OBVIOUS
      <3>2. GoOn(r, new) /\ disk' = [disk EXCEPT ![n] = "none"]
        BY <1>9, <2>2, <2>4, <3>1 DEF RemoveFile
      <3>3. new.at = "row" /\ new.left = left /\ new.node = n
        BY <3>1
      <3>4. ASSUME NEW m \in rows \cap Whole, ~ IsDoomed(call, m)
            PROVE  m \in rows' /\ disk'[m] = "good" /\ ~ IsDoomed(new, m)
        <4>1. m \notin call.left /\ m # n
          BY <2>1, <3>4 DEF IsDoomed
        <4>2. disk'[m] = "good"
          BY <2>3, <3>2, <3>4, <4>1 DEF Whole
        <4>3. QED
          BY <2>1, <2>2, <3>3, <4>1, <4>2 DEF IsDoomed
      <3>5. Apart(new)'
        BY <3>3 DEF Apart
      <3>6. QED
        BY <1>2, <1>3, <3>2, <3>4, <3>5, RepairKeeps
    <2>5. CASE n \notin up
      <3>1. PICK new : new = [call EXCEPT !.left = left]
        OBVIOUS
      <3>2. GoOn(r, new) /\ UNCHANGED disk
        BY <1>9, <2>2, <2>5, <3>1 DEF RemoveFile
      <3>3. new.at = "remove" /\ new.left = left
        BY <2>1, <3>1 DEF CheckPhase
      <3>4. (\A m : ~ IsDoomed(call, m) => ~ IsDoomed(new, m)) /\ Apart(new)'
        BY <2>1, <2>2, <3>3 DEF IsDoomed, Apart
      <3>5. QED
        BY <1>2, <1>3, <2>1, <3>2, <3>4, RepairKeeps DEF Whole
    <2>6. QED
      BY <2>4, <2>5
  <1>10. CASE RemoveRow(r)
    <2>1. call.at = "row" /\ UNCHANGED disk /\ (rows' = rows \/ rows' = rows \ {call.node})
      BY <1>10 DEF RemoveRow
    <2>2. PICK new : /\ new = [at |-> "remove", listed |-> call.listed,
                               corrupted |-> call.corrupted, left |-> call.left]
                     /\ GoOn(r, new)
      BY <1>10 DEF RemoveRow
    <2>3. new.at = "remove" /\ new.left = call.left
      BY <2>2
    <2>4. ASSUME NEW m \in rows \cap Whole, ~ IsDoomed(call, m)
          PROVE  m \in rows' /\ disk'[m] = "good" /\ ~ IsDoomed(new, m)
      BY <2>1, <2>3, <2>4 DEF IsDoomed, Whole
    <2>5. Apart(new)'
      BY <2>3 DEF Apart
    <2>6. QED
      BY <1>2, <1>3, <2>2, <2>4, <2>5, RepairKeeps
  <1>11. ASSUME NEW n \in Nodes, ReadSource(r, n) PROVE SurvivalInv'
    <2>1. call \in ReadPhase /\ call.at = "read" /\ UNCHANGED <<disk, rows>> /\ call.existing = rows
      BY <1>1, <1>11, RepairFields DEF ReadSource, tables, Apart
    <2>2. PICK targets : targets = Targets(call.existing, call.needed)
      OBVIOUS
    <2>3. \A i \in targets : Ring[i] \notin rows
      BY <2>1, <2>2, SelectionOnRing
    <2>4. CASE GoOn(r, [at |-> "copy", data |-> disk[n], todo |-> targets])
      <3>1. PICK new : new = [at |-> "copy", data |-> disk[n], todo |-> targets]
        OBVIOUS
      <3>2. new.at = "copy" /\ new.todo = targets /\ GoOn(r, new)
        BY <2>4, <3>1
      <3>3. QED
        BY <1>4, <2>1, <2>3, <3>2 DEF Apart
    <2>5. CASE GoOn(r, [call EXCEPT !.left = @ \ {n}])
      <3>1. PICK new : new = [call EXCEPT !.left = @ \ {n}]
        OBVIOUS
      <3>2. new.at = "read" /\ new.existing = rows /\ GoOn(r, new)
        BY <2>1, <2>5, <3>1 DEF ReadPhase
      <3>3. QED
        BY <1>4, <2>1, <3>2 DEF Apart
    <2>6. QED
      BY <1>11, <2>2, <2>4, <2>5 DEF ReadSource
  <1>12. CASE CopyTo(r)
    <2>1. /\ call \in CopyPhase /\ call.at = "copy" /\ call.todo # {} /\ UNCHANGED rows
          /\ \A i \in call.todo : Ring[i] \notin rows
      BY <1>1, <1>12, RepairFields DEF CopyTo, tables, Apart
    <2>2. PICK next : next = NextTarget(call)
      OBVIOUS
    <2>3. next \in call.todo /\ Ring[next] \notin rows
      BY <2>1, <2>2, FirstPosition DEF CopyPhase
    <2>4. disk \in [Nodes -> FileStates]
      BY <1>1 DEF TypeOK
    <2>5. PICK new :
            /\ GoOn(r, new)
            /\ new = [call EXCEPT !.at = "record"] \/ new = [call EXCEPT !.todo = @ \ {next}]
      BY <1>12, <2>2 DEF CopyTo
    <2>6. new.at \in {"copy", "record"} /\ new.todo \subseteq call.todo
      BY <2>1, <2>5 DEF CopyPhase
    <2>7. \A m \in rows : disk'[m] = disk[m]
      <3>1. disk' = disk \/ disk' = [disk EXCEPT ![Ring[next]] = call.data]
        BY <1>12, <2>2 DEF CopyTo
      <3>2. rows \subseteq Nodes
        BY <1>1 DEF TypeOK
      <3>3. QED
        BY <2>3, <2>4, <3>1, <3>2
    <2>8. Apart(new)'
      BY <2>1, <2>6 DEF Apart
    <2>9. \A m : ~ IsDoomed(new, m)
      BY <2>6, NotDoomed
    <2>10. QED
      BY <1>2, <1>3, <2>1, <2>5, <2>7, <2>8, <2>9, RepairKeeps DEF Whole
  <1>13. CASE RecordCopy(r)
    <2>1. /\ call \in CopyPhase /\ call.at = "record" /\ call.todo # {} /\ UNCHANGED disk
          /\ \A i \in call.todo : Ring[i] \notin rows
      BY <1>1, <1>13, RepairFields DEF RecordCopy, Apart, CopyPending
    <2>2. PICK next : next = NextTarget(call)
      OBVIOUS
    <2>3. next \in call.todo /\ call.todo \subseteq Positions
      BY <2>1, <2>2, FirstPosition DEF CopyPhase
    <2>4. rows' = rows \/ rows' = rows \cup {Ring[next]}
      BY <1>13, <2>2 DEF RecordCopy
    <2>5. PICK new : /\ GoOn(r, new)
                     /\ new = [call EXCEPT !.at = "copy", !.todo = @ \ {next}]
      BY <1>13, <2>2 DEF RecordCopy
    <2>6. new.at = "copy" /\ new.todo = call.todo \ {next}
      BY <2>1, <2>5 DEF CopyPhase
    <2>7. \A i \in call.todo \ {next} : Ring[i] # Ring[next]
      BY <2>3, RingAssumption DEF Positions
    <2>8. Apart(new)'
      BY <2>1, <2>4, <2>6, <2>7 DEF Apart
    <2>9. \A m : ~ IsDoomed(new, m)
      BY <2>6, NotDoomed
    <2>10. QED
      BY <1>2, <1>3, <2>1, <2>4, <2>5, <2>8, <2>9, RepairKeeps DEF Whole
  <1>14. QED
    BY <1>5, <1>6, <1>7, <1>8, <1>9, <1>10, <1>11, <1>12, <1>13 DEF RepairStep

-----------------------------------------------------------------------------
(* Steps of writers and nodes *)

\* The nodes a write has lost are finitely many.
LEMMA LostNodes ==
    ASSUME TypeOK, NEW w \in Writers, writer[w] # Idle
    PROVE  Lost(writer[w]) \in SUBSET Nodes
  BY WriteFields DEF Lost, WriteCall

\* The threats are counted, and never forgotten.
LEMMA ThreatsNat == ASSUME TypeOK PROVE decays \in Nat /\ outages \in Nat
  BY DEF TypeOK

\* A write loses no node more when no node loses its file.
LEMMA CoverStays ==
    ASSUME TypeOK, NEW w \in Writers, Covered(writer[w]), NEW new, new # Idle,
           new.recorded \subseteq rows',
           \A n \in new.written \cup new.recorded :
               n \in writer[w].written \cup writer[w].recorded \/ n \in Whole',
           Whole \subseteq Whole', writer[w] # Idle,
           UNCHANGED <<decays, outages>>
    PROVE  Covered(new)'
  <1>1. Lost(writer[w]) \in SUBSET Nodes
    BY LostNodes
  <1>2. PICK before : before = Lost(writer[w])
    OBVIOUS
  <1>3. PICK after : after = {n \in new.written \cup new.recorded : n \notin Whole'}
    OBVIOUS
  <1>4. after \in SUBSET before
    BY <1>2, <1>3 DEF Lost
  <1>5. /\ Cardinality(after) <= Cardinality(before)
        /\ Cardinality(before) \in Nat /\ Cardinality(after) \in Nat
    BY <1>1, <1>2, <1>4, NodeSets
  <1>6. Cardinality(before) <= decays + outages
    BY <1>2 DEF Covered
  <1>7. Cardinality(after) <= decays' + outages'
    BY <1>5, <1>6, ThreatsNat
  <1>8. QED
    BY <1>3, <1>7 DEF Covered, Lost

\* A step of one write that takes no row and no file away keeps the invariant,
\* apart from what it acknowledges.
LEMMA WriteKeeps ==
    ASSUME SurvivalInv, TypeInv', NEW w \in Writers, NEW new, writer' = [writer EXCEPT ![w] = new],
           \A r \in Repairers : repairer[r] = Idle,
           rows \subseteq rows', Whole \subseteq Whole',
           UNCHANGED <<repairer, decays, outages>>, Covered(new)', EnoughSafe'
    PROVE  SurvivalInv'
  <1>1. TypeOK
    BY DEF SurvivalInv, TypeInv
  <1>2. ASSUME NEW v \in Writers PROVE Covered(writer[v])'
    <2>1. PICK old : old = writer[v]
      OBVIOUS
    <2>2. CASE v = w
      <3>1. writer'[v] = new
        BY <1>1, <2>2 DEF TypeOK
      <3>2. QED
        BY <3>1 DEF Covered, Lost
    <2>3. CASE v # w
      <3>1. writer'[v] = old /\ Covered(old)
        BY <1>1, <2>1, <2>3 DEF TypeOK, SurvivalInv, WritesCovered
      <3>2. Covered(old)'
        <4>1. CASE old = Idle
          BY <4>1 DEF Covered
        <4>2. CASE old # Idle
          <5>1. old.recorded \subseteq rows'
            BY <3>1, <4>2 DEF Covered
          <5>2. QED
            BY <1>1, <2>1, <3>1, <4>2, <5>1, CoverStays
        <4>3. QED
          BY <4>1, <4>2
      <3>3. QED
        BY <3>1, <3>2 DEF Covered, Lost
    <2>4. QED
      BY <2>2, <2>3
  <1>3. RepairsApart' /\ Exclusive'
    BY IdleIs DEF RepairsApart, Apart, Exclusive
  <1>4. WritesCovered'
    BY <1>2 DEF WritesCovered
  <1>5. QED
    BY <1>3, <1>4 DEF SurvivalInv

\* Rows and files that are only added leave the safe replicas safe.
LEMMA MoreIsSafe ==
    ASSUME rows \subseteq rows', Whole \subseteq Whole', UNCHANGED repairer
    PROVE  Safe \subseteq Safe'
  BY DEF Safe

\* What a write that returns has counted is safe, apart from what it has lost.
LEMMA FinishedIsSafe ==
    ASSUME TypeOK, NEW w \in Writers, writer[w] # Idle, Covered(writer[w]),
           \A r \in Repairers : repairer[r] = Idle, QuorumReached(writer[w])
    PROVE  Cardinality(Safe) + decays + outages >= Quorum
  <1> DEFINE recorded == writer[w].recorded
             lost == Lost(writer[w])
  <1>1. lost \in SUBSET Nodes /\ recorded \subseteq Nodes /\ recorded \subseteq rows
        /\ Cardinality(lost) <= decays + outages /\ Cardinality(recorded) >= Quorum
    BY LostNodes, WriteFields DEF Covered, WriteCall, QuorumReached
  <1>2. recorded \ lost \subseteq Safe
    BY <1>1, IdleIs DEF Safe, Lost
  <1>3. /\ Cardinality(recorded \ lost) = Cardinality(recorded) - Cardinality(recorded \cap lost)
    BY <1>1, NodesAssumption, FS_Subset, FS_Difference
  <1>4. /\ Cardinality(recorded \cap lost) <= Cardinality(lost)
        /\ Cardinality(recorded \cap lost) \in Nat /\ Cardinality(lost) \in Nat
    BY <1>1, NodeSets
  <1>5. Safe \in SUBSET Nodes
    BY DEF Safe, Whole
  <1>6. /\ Cardinality(recorded \ lost) <= Cardinality(Safe)
        /\ Cardinality(recorded \ lost) \in Nat /\ Cardinality(Safe) \in Nat
    BY <1>2, <1>5, NodeSets
  <1>7. Cardinality(recorded) \in Nat
    BY <1>1, NodeSets
  <1> HIDE DEF recorded, lost
  <1>8. decays \in Nat /\ outages \in Nat
    BY ThreatsNat
  <1>9. QED
    BY <1>1, <1>3, <1>4, <1>6, <1>7, <1>8, FactorAssumption

\* Each step of replicateChunk keeps the invariant: it only adds files and rows,
\* and acknowledges a quorum of nodes that are whole or counted as threats.
LEMMA WriteStepKeeps ==
    ASSUME SurvivalInv, ~ Overlap, NEW w \in Writers, WriteStep(w), TypeInv'
    PROVE  SurvivalInv'
  <1> DEFINE call == writer[w]
  <1>1. TypeOK /\ TypeOK' /\ Covered(call) /\ EnoughSafe
    BY DEF SurvivalInv, TypeInv, WritesCovered
  <1>2. \A r \in Repairers : repairer[r] = Idle
    BY DEF SurvivalInv, Exclusive, WriteStep, WriteGoesOn, StartWrite, WriteNode,
           RecordReplica, FinishWrite
  <1>3. UNCHANGED <<repairer, up, decays, outages>>
    BY DEF WriteStep, WriteGoesOn, StartWrite, WriteNode, RecordReplica, FinishWrite, world
  <1>4. disk \in [Nodes -> FileStates]
    BY <1>1 DEF TypeOK
  <1>5. CASE StartWrite(w)
    <2>1. PICK new : new = [at |-> "write", left |-> NodesAt(SelectedNodes), written |-> {},
                            recorded |-> {}]
      OBVIOUS
    <2>2. writer' = [writer EXCEPT ![w] = new] /\ UNCHANGED <<disk, rows, acked>>
      BY <1>5, <2>1 DEF StartWrite, tables
    <2>3. PICK none : none = {n \in new.written \cup new.recorded : n \notin Whole'}
      OBVIOUS
    <2>4. new.recorded = {} /\ none = {}
      BY <2>1, <2>3
    <2>5. Cardinality(none) = 0
      BY <2>4, FS_EmptySet
    <2>6. Covered(new)'
      <3>1. Cardinality(none) <= decays' + outages'
        BY <1>1, <2>5, ThreatsNat, <1>3
      <3>2. QED
        BY <2>3, <2>4, <3>1 DEF Covered, Lost
    <2>7. Whole \subseteq Whole' /\ Safe \subseteq Safe'
      BY <1>3, <2>2 DEF Whole, Safe
    <2>8. EnoughSafe'
      BY <1>1, <1>3, <2>2, <2>7, SafeStays
    <2>9. QED
      BY <1>2, <1>3, <2>2, <2>6, <2>7, <2>8, WriteKeeps
  <1>6. ASSUME NEW n \in Nodes, WriteNode(w, n) PROVE SurvivalInv'
    <2>1. PICK new : new = [at |-> "write", left |-> call.left \ {n},
                            written |-> call.written \cup (up \cap {n}),
                            recorded |-> call.recorded]
      OBVIOUS
    <2>2. /\ call # Idle
          /\ writer' = [writer EXCEPT ![w] = new] /\ UNCHANGED <<rows, acked>>
          /\ disk' = [disk EXCEPT ![n] = IF n \in up THEN "good" ELSE @]
      BY <1>6, <2>1 DEF WriteNode, tables
    <2>3. Whole \subseteq Whole' /\ (n \in up => n \in Whole')
      BY <1>3, <1>4, <2>2 DEF Whole
    <2>4. /\ new.recorded = call.recorded /\ new # Idle
          /\ \A m \in new.written \cup new.recorded :
                 m \in call.written \cup call.recorded \/ m \in Whole'
      BY <2>1, <2>3 DEF Idle
    <2>5. new.recorded \subseteq rows'
      BY <1>1, <2>2, <2>4 DEF Covered
    <2>6. Covered(new)'
      BY <1>1, <1>3, <2>2, <2>3, <2>4, <2>5, CoverStays
    <2>7. Safe \subseteq Safe'
      BY <1>3, <2>2, <2>3, MoreIsSafe
    <2>8. EnoughSafe'
      BY <1>1, <1>3, <2>2, <2>7, SafeStays
    <2>9. QED
      BY <1>2, <1>3, <2>2, <2>3, <2>6, <2>8, WriteKeeps
  <1>7. ASSUME NEW n \in Nodes, RecordReplica(w, n) PROVE SurvivalInv'
    <2>1. PICK inserted \in {{n}, {}} :
             /\ rows' = rows \cup inserted
             /\ writer' = [writer EXCEPT ![w] =
                  [at |-> "write", left |-> call.left, written |-> call.written \ {n},
                   recorded |-> call.recorded \cup inserted]]
      BY <1>7 DEF RecordReplica
    <2>2. PICK new : new = [at |-> "write", left |-> call.left, written |-> call.written \ {n},
                            recorded |-> call.recorded \cup inserted]
      OBVIOUS
    <2>3. call # Idle /\ n \in call.written /\ UNCHANGED <<disk, acked>>
      BY <1>7 DEF RecordReplica
    <2>4. Whole \subseteq Whole' /\ rows \subseteq rows'
      BY <1>3, <2>1, <2>3 DEF Whole
    <2>5. /\ new # Idle /\ new.recorded \subseteq rows'
          /\ \A m \in new.written \cup new.recorded : m \in call.written \cup call.recorded
      BY <1>1, <2>1, <2>2, <2>3 DEF Idle, Covered
    <2>6. Covered(new)'
      BY <1>1, <1>3, <2>3, <2>4, <2>5, CoverStays
    <2>7. Safe \subseteq Safe'
      BY <1>3, <2>4, MoreIsSafe
    <2>8. EnoughSafe'
      BY <1>1, <1>3, <2>3, <2>7, SafeStays
    <2>9. writer' = [writer EXCEPT ![w] = new]
      BY <2>1, <2>2
    <2>10. QED
      BY <1>2, <1>3, <2>4, <2>6, <2>8, <2>9, WriteKeeps
  <1>8. CASE FinishWrite(w)
    <2>1. /\ call # Idle /\ writer' = [writer EXCEPT ![w] = Idle]
          /\ acked' = (acked \/ QuorumReached(call))
          /\ UNCHANGED <<disk, rows>>
      BY <1>8 DEF FinishWrite, tables
    <2>2. Whole \subseteq Whole' /\ Safe' = Safe
      BY <1>3, <2>1 DEF Whole, Safe
    <2>3. Covered(Idle)'
      BY DEF Covered
    <2>4. EnoughSafe'
      <3>1. CASE QuorumReached(call)
        <4>1. Cardinality(Safe) + decays + outages >= Quorum
          BY <1>1, <1>2, <2>1, <3>1, FinishedIsSafe
        <4>2. QED
          BY <1>3, <2>2, <4>1 DEF EnoughSafe
      <3>2. CASE ~ QuorumReached(call)
        <4>1. acked' => acked
          BY <2>1, <3>2, Zenon
        <4>2. QED
          BY <1>1, <1>3, <2>2, <4>1 DEF EnoughSafe
      <3>3. QED
        BY <3>1, <3>2
    <2>5. QED
      BY <1>2, <1>3, <2>1, <2>2, <2>3, <2>4, WriteKeeps
  <1>9. QED
    BY <1>5, <1>6, <1>7, <1>8 DEF WriteStep, WriteGoesOn

\* A node that is lost is one threat more: one replica less is safe, and a
\* write has lost one node more, at most.
LEMMA ThreatKeeps ==
    ASSUME SurvivalInv, TypeInv', NEW n \in Nodes, Whole \ {n} \subseteq Whole',
           UNCHANGED <<rows, writer, repairer, acked>>,
           \/ decays' = decays + 1 /\ outages' = outages
           \/ decays' = decays /\ outages' = outages + 1
    PROVE  SurvivalInv'
  <1>1. TypeOK /\ TypeOK' /\ decays \in Nat /\ outages \in Nat
    BY ThreatsNat DEF SurvivalInv, TypeInv
  <1>2. decays' \in Nat /\ outages' \in Nat
    BY <1>1
  <1>3. ASSUME NEW w \in Writers PROVE Covered(writer[w])'
    <2>1. PICK call : call = writer[w]
      OBVIOUS
    <2>2. CASE call = Idle
      BY <2>1, <2>2 DEF Covered
    <2>3. CASE call # Idle
      <3>1. PICK before : before = Lost(call)
        OBVIOUS
      <3>2. PICK after : after = {m \in call.written \cup call.recorded : m \notin Whole'}
        OBVIOUS
      <3>3. /\ before \in SUBSET Nodes /\ call.recorded \subseteq rows
            /\ Cardinality(before) <= decays + outages
        BY <1>1, <2>1, <2>3, <3>1, LostNodes DEF SurvivalInv, WritesCovered, Covered
      <3>4. after \in SUBSET (before \cup {n}) /\ before \cup {n} \in SUBSET Nodes
        BY <3>1, <3>2, <3>3 DEF Lost
      <3>5. /\ Cardinality(after) <= Cardinality(before \cup {n})
            /\ Cardinality(before \cup {n}) \in Nat /\ Cardinality(after) \in Nat
        BY <3>4, NodeSets
      <3>6. IsFiniteSet(before) /\ Cardinality(before) \in Nat
        BY <3>3, NodesAssumption, FS_Subset, FS_CardinalityType
      <3>7. Cardinality(before \cup {n}) \in {Cardinality(before), Cardinality(before) + 1}
        BY <3>6, FS_AddElement
      <3>8. Cardinality(after) <= decays' + outages'
        BY <1>1, <3>3, <3>5, <3>6, <3>7
      <3>9. QED
        BY <2>1, <3>2, <3>3, <3>8 DEF Covered, Lost
    <2>4. QED
      BY <2>2, <2>3
  <1>4. EnoughSafe'
    <2>1. PICK before : before = Safe
      OBVIOUS
    <2>2. PICK after : after = Safe'
      OBVIOUS
    <2>3. before \ {n} \in SUBSET after /\ after \in SUBSET Nodes /\ before \in SUBSET Nodes
      BY <2>1, <2>2 DEF Safe, Whole
    <2>4. IsFiniteSet(before) /\ Cardinality(before) \in Nat
      BY <2>3, NodesAssumption, FS_Subset, FS_CardinalityType
    <2>5. Cardinality(before \ {n}) \in {Cardinality(before), Cardinality(before) - 1}
      BY <2>4, FS_RemoveElement
    <2>6. /\ Cardinality(before \ {n}) <= Cardinality(after)
          /\ Cardinality(before \ {n}) \in Nat /\ Cardinality(after) \in Nat
      BY <2>3, NodeSets
    <2>7. ASSUME acked PROVE Cardinality(after) + decays' + outages' >= Quorum
      <3>1. Cardinality(before) + decays + outages >= Quorum
        BY <2>1, <2>7 DEF SurvivalInv, EnoughSafe
      <3>2. CASE decays' = decays + 1 /\ outages' = outages
        BY <1>1, <2>4, <2>5, <2>6, <3>1, <3>2, FactorAssumption
      <3>3. CASE decays' = decays /\ outages' = outages + 1
        BY <1>1, <2>4, <2>5, <2>6, <3>1, <3>3, FactorAssumption
      <3>4. QED
        BY <3>2, <3>3
    <2>8. QED
      BY <2>2, <2>7 DEF EnoughSafe
  <1>5. RepairsApart' /\ Exclusive'
    BY DEF SurvivalInv, RepairsApart, Apart, Exclusive
  <1>6. WritesCovered'
    BY <1>3 DEF WritesCovered
  <1>7. QED
    BY <1>4, <1>5, <1>6 DEF SurvivalInv

\* A step in which no node is lost disturbs no call.
LEMMA QuietKeeps ==
    ASSUME SurvivalInv, TypeInv', Whole \subseteq Whole',
           UNCHANGED <<rows, writer, repairer, acked, decays, outages>>
    PROVE  SurvivalInv'
  <1>1. TypeOK /\ TypeOK' /\ EnoughSafe
    BY DEF SurvivalInv, TypeInv
  <1>2. ASSUME NEW w \in Writers PROVE Covered(writer[w])'
    <2>1. PICK call : call = writer[w]
      OBVIOUS
    <2>2. Covered(call)
      BY <2>1 DEF SurvivalInv, WritesCovered
    <2>3. Covered(call)'
      <3>1. CASE call = Idle
        BY <3>1 DEF Covered
      <3>2. CASE call # Idle
        <4>1. call.recorded \subseteq rows'
          BY <2>2, <3>2 DEF Covered
        <4>2. QED
          BY <1>1, <2>1, <2>2, <3>2, <4>1, CoverStays
      <3>3. QED
        BY <3>1, <3>2
    <2>4. QED
      BY <2>1, <2>3 DEF Covered, Lost
  <1>3. EnoughSafe'
    <2>1. Safe \subseteq Safe'
      BY MoreIsSafe
    <2>2. QED
      BY <1>1, <2>1, SafeStays
  <1>4. RepairsApart' /\ Exclusive'
    BY DEF SurvivalInv, RepairsApart, Apart, Exclusive
  <1>5. WritesCovered'
    BY <1>2 DEF WritesCovered
  <1>6. QED
    BY <1>3, <1>4, <1>5 DEF SurvivalInv

\* Outages and decays are threats, and the other steps of the nodes are not.
LEMMA NodeStepKeeps ==
    ASSUME SurvivalInv, NodeStep, TypeInv'
    PROVE  SurvivalInv'
  <1>1. disk \in [Nodes -> FileStates]
    BY DEF SurvivalInv, TypeInv, TypeOK
  <1>2. CASE ListSilent
    <2>1. UNCHANGED <<disk, up, rows, writer, repairer, acked, decays, outages>>
      BY <1>2 DEF ListSilent, tables, world
    <2>2. QED
      BY <2>1, QuietKeeps DEF Whole
  <1>3. ASSUME NEW n \in Nodes, MarkOffline(n) PROVE SurvivalInv'
    <2>1. UNCHANGED <<disk, up, rows, writer, repairer, acked, decays, outages>>
      BY <1>3 DEF MarkOffline, world
    <2>2. QED
      BY <2>1, QuietKeeps DEF Whole
  <1>4. ASSUME NEW n \in Nodes, NodeUp(n) PROVE SurvivalInv'
    <2>1. UNCHANGED <<disk, rows, writer, repairer, acked, decays, outages>> /\ up' = up \cup {n}
      BY <1>4 DEF NodeUp
    <2>2. QED
      BY <2>1, QuietKeeps DEF Whole
  <1>5. ASSUME NEW n \in Nodes, NodeDown(n) PROVE SurvivalInv'
    <2>1. /\ UNCHANGED <<disk, rows, writer, repairer, acked, decays>>
          /\ up' = up \ {n} /\ outages' = outages + 1
      BY <1>5 DEF NodeDown, tables
    <2>2. Whole \ {n} \subseteq Whole'
      BY <2>1 DEF Whole
    <2>3. QED
      BY <2>1, <2>2, ThreatKeeps
  <1>6. ASSUME NEW n \in Nodes, Decay(n) PROVE SurvivalInv'
    <2>1. /\ UNCHANGED <<up, rows, writer, repairer, acked, outages>>
          /\ disk' = [disk EXCEPT ![n] = "bad"] /\ decays' = decays + 1
      BY <1>6 DEF Decay, tables
    <2>2. Whole \ {n} \subseteq Whole'
      BY <1>1, <2>1 DEF Whole
    <2>3. QED
      BY <2>1, <2>2, ThreatKeeps
  <1>7. QED
    BY <1>2, <1>3, <1>4, <1>5, <1>6 DEF NodeStep

-----------------------------------------------------------------------------

\* At the start nothing is acknowledged and no call is in flight.
LEMMA InitSurvivalInv == Init => SurvivalInv
  <1> SUFFICES ASSUME Init PROVE SurvivalInv
    OBVIOUS
  <1>1. TypeInv
    BY InitTypeInv
  <1>2. WritesCovered /\ RepairsApart /\ Exclusive /\ EnoughSafe
    BY IdleIs DEF Init, WritesCovered, RepairsApart, Exclusive, EnoughSafe, Covered
  <1>3. QED
    BY <1>1, <1>2 DEF SurvivalInv

\* While the threats are fewer than the quorum a safe replica is left, and it
\* is a good one.
LEMMA SurvivalSuffices ==
    ASSUME SurvivalInv, Repairers # {}
    PROVE  AckedSurvives
  <1> SUFFICES ASSUME acked, Threats < Quorum, GoodReplicas = {} PROVE FALSE
    BY DEF AckedSurvives
  <1>1. Safe = {}
    BY DEF Safe, Whole, GoodReplicas
  <1>2. Cardinality(Safe) = 0
    BY <1>1, FS_EmptySet
  <1>3. decays + outages < Quorum /\ decays \in Nat /\ outages \in Nat
    BY ThreatsNat DEF Threats, SurvivalInv, TypeInv
  <1>4. Cardinality(Safe) + decays + outages >= Quorum
    BY DEF SurvivalInv, EnoughSafe
  <1>5. QED
    BY <1>2, <1>3, <1>4, FactorAssumption

\* With one caller of reReplicate that does not overlap with writes, a chunk
\* that replicateChunk has stored keeps a good replica until as many files
\* have decayed and nodes have gone down as the quorum, although repair
\* deletes whatever it could not verify and copies without verifying.
THEOREM RepairLosesNothing ==
    ASSUME NEW r, Repairers = {r}, ~ Overlap
    PROVE  Spec => []AckedSurvives
  <1>1. Init => SurvivalInv
    BY InitSurvivalInv
  <1>2. SurvivalInv /\ [Next]_vars => SurvivalInv'
    <2> SUFFICES ASSUME SurvivalInv, [Next]_vars PROVE SurvivalInv'
      OBVIOUS
    <2>1. TypeInv'
      BY NextTypeInv DEF SurvivalInv
    <2>2. ASSUME NEW w \in Writers, WriteStep(w) PROVE SurvivalInv'
      BY <2>1, <2>2, WriteStepKeeps
    <2>3. CASE RepairStep(r)
      BY <2>1, <2>3, RepairStepKeeps
    <2>4. CASE NodeStep
      BY <2>1, <2>4, NodeStepKeeps
    <2>5. CASE UNCHANGED vars
      <3>1. UNCHANGED <<disk, up, rows, writer, repairer, acked, decays, outages>>
        BY <2>5 DEF vars, tables, world
      <3>2. QED
        BY <2>1, <3>1, QuietKeeps DEF Whole
    <2>6. QED
      BY <2>2, <2>3, <2>4, <2>5 DEF Next
  <1>3. SurvivalInv => AckedSurvives
    BY SurvivalSuffices
  <1>4. QED
    BY <1>1, <1>2, <1>3, PTL DEF Spec
=============================================================================
