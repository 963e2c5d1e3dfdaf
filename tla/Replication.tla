----------------------------- MODULE Replication -----------------------------
(***************************************************************************)
(* The replicas of one chunk: replicateChunk and reReplicate of the        *)
(* replication service, the files on the storage nodes and the rows of     *)
(* chunk_replicas, and the job that marks silent nodes offline.  Writes to *)
(* the nodes run in parallel, and between any two awaited calls nodes go   *)
(* down, come back, and files decay.                                       *)
(***************************************************************************)
EXTENDS Integers, Sequences, FiniteSets

CONSTANTS
    Nodes,           \* storage nodes, all of them known to the service
    ZoneOf,          \* ZoneOf[n]: the availability zone of node n
    Ring,            \* the nodes in the order of the hash ring from the chunk on
    Factor,          \* replicationFactor
    Quorum,          \* quorumWrite
    Writers,         \* callers of replicateChunk
    Repairers,       \* callers of reReplicate
    Overlap,         \* TRUE if writes and repairs of the chunk overlap
    MaxFailures,     \* bound: how many statements on chunk_replicas are rejected
    MaxOutages,      \* bound: how often nodes go down
    MaxDecays        \* bound: how often a file on a disk is corrupted

ASSUME NodesAssumption == IsFiniteSet(Nodes)
ASSUME RingAssumption ==
    /\ Ring \in Seq(Nodes)
    /\ \A i, j \in 1..Len(Ring) : Ring[i] = Ring[j] => i = j
ASSUME FactorAssumption == Factor \in Nat /\ Quorum \in Nat \ {0}
ASSUME ReplicationBounds == MaxOutages \in Nat /\ MaxDecays \in Nat /\ MaxFailures \in Nat
ASSUME ModeAssumption == Overlap \in BOOLEAN

VARIABLES
    disk,            \* disk[n]: the file of the chunk on node n
    rows,            \* nodes with a row in chunk_replicas for the chunk
    status,          \* status[n]: storage_nodes.status
    up,              \* nodes that answer
    silent,          \* active nodes whose old heartbeat the running job has seen
    writer,          \* the replicateChunk call each writer is executing
    repairer,        \* the reReplicate call each repairer is executing
    acked,           \* a replicateChunk call has returned
    outages, decays, failures  \* how many there have been

tables == <<rows, status>>
world == <<up, outages, decays, failures>>
vars == <<disk, rows, status, up, silent, writer, repairer, acked, outages, decays, failures>>

FileStates == {"none", "good", "bad"}

Idle == [at |-> "idle"]

\* `left`: nodes still to be written; `written`: nodes whose row is next;
\* `recorded`: nodes that count as a successful write.
WriteCall == [at : {"write"}, left : SUBSET Nodes, written : SUBSET Nodes,
              recorded : SUBSET Nodes]

Positions == 1..Len(Ring)
NodesAt(S) == {Ring[i] : i \in S}

\* The phases of reReplicate.  `listed`: the rows that verifyReplicas read;
\* `corrupted`: those it could not verify; `left`: the nodes that the phase
\* has still to treat; `needed`: how many copies are missing; `todo`:
\* where on the ring the nodes to copy to are; `data`: the bytes of the copies.
CheckPhase == [at : {"verify", "remove"}, listed : SUBSET Nodes, corrupted : SUBSET Nodes,
               left : SUBSET Nodes]
RowPhase == [at : {"row"}, listed : SUBSET Nodes, corrupted : SUBSET Nodes,
             left : SUBSET Nodes, node : Nodes]
ReadPhase == [at : {"read"}, existing : SUBSET Nodes, left : SUBSET Nodes, needed : Nat]
CopyPhase == [at : {"copy", "record"}, todo : SUBSET Positions, data : FileStates]
RepairCall == CheckPhase \cup RowPhase \cup ReadPhase \cup CopyPhase

TypeOK ==
    /\ disk \in [Nodes -> FileStates]
    /\ rows \subseteq Nodes
    /\ status \in [Nodes -> {"active", "offline"}]
    /\ up \subseteq Nodes
    /\ silent \subseteq Nodes
    /\ writer \in [Writers -> {Idle} \cup WriteCall]
    /\ repairer \in [Repairers -> {Idle} \cup RepairCall]
    /\ acked \in BOOLEAN
    /\ outages \in 0..MaxOutages
    /\ decays \in 0..MaxDecays
    /\ failures \in 0..MaxFailures

Init ==
    /\ disk = [n \in Nodes |-> "none"]
    /\ rows = {}
    /\ status = [n \in Nodes |-> "active"]
    /\ up = Nodes
    /\ silent = {}
    /\ writer = [w \in Writers |-> Idle]
    /\ repairer = [r \in Repairers |-> Idle]
    /\ acked = FALSE
    /\ outages = 0
    /\ decays = 0
    /\ failures = 0

\* A statement on chunk_replicas is rejected.
Failure == failures < MaxFailures /\ failures' = failures + 1

-----------------------------------------------------------------------------
(* selectStorageNodes *)

\* The first k of a set of positions, which are in the order of the ring
FirstOf(S, k) == {i \in S : Cardinality({j \in S : j < i}) < k}

\* getNodes of the hash ring: the first k distinct nodes from the chunk on.
RingNodes(k) == {i \in Positions : i <= k}

ActiveCandidates == {i \in RingNodes(2 * Factor) : status[Ring[i]] = "active"}

\* Mutant of SelectedNodes: zones are not looked at.
SelectedInRingOrder == FirstOf(ActiveCandidates, Factor)

FirstOfTheirZones ==
    {i \in ActiveCandidates :
        \A j \in ActiveCandidates : j < i => ZoneOf[Ring[j]] # ZoneOf[Ring[i]]}

\* The first pass takes the first node of every zone, the second one fills
\* up with the others.
SelectedNodes ==
    LET firstPass == FirstOf(FirstOfTheirZones, Factor)
    IN  firstPass \cup FirstOf(ActiveCandidates \ FirstOfTheirZones,
                               Factor - Cardinality(firstPass))

-----------------------------------------------------------------------------
(* replicateChunk *)

\* Without enough nodes the call throws at once.
StartWrite(w) ==
    /\ writer[w] = Idle
    /\ Overlap \/ \A r \in Repairers : repairer[r] = Idle
    /\ Cardinality(SelectedNodes) >= Factor
    /\ writer' = [writer EXCEPT ![w] =
           [at |-> "write", left |-> NodesAt(SelectedNodes), written |-> {}, recorded |-> {}]]
    /\ UNCHANGED <<disk, tables, silent, repairer, acked, world>>

\* writeChunk of one node; one that does not answer is logged and left out.
WriteNode(w, n) ==
    LET call == writer[w]
        stored == call.written \cup (up \cap {n})
    IN  /\ call # Idle
        /\ n \in call.left
        /\ disk' = [disk EXCEPT ![n] = IF n \in up THEN "good" ELSE @]
        /\ writer' = [writer EXCEPT ![w] =
               [at |-> "write", left |-> call.left \ {n}, written |-> stored,
                recorded |-> call.recorded]]
        /\ UNCHANGED <<tables, silent, repairer, acked, world>>

\* createChunkReplica, which may be rejected, and successCount++.
RecordReplica(w, n) ==
    LET call == writer[w] IN
    /\ call # Idle
    /\ n \in call.written
    /\ \E inserted \in {{n}, {}} :
           /\ IF inserted = {} THEN Failure ELSE UNCHANGED failures
           /\ rows' = rows \cup inserted
           /\ writer' = [writer EXCEPT ![w] =
                  [at |-> "write", left |-> call.left, written |-> call.written \ {n},
                   recorded |-> call.recorded \cup inserted]]
    /\ UNCHANGED <<disk, status, silent, repairer, acked, up, outages, decays>>

\* Mutant of QuorumReached: one replica is enough.
OneRecorded(call) == call.recorded # {}

\* successCount >= quorumWrite
QuorumReached(call) == Cardinality(call.recorded) >= Quorum

\* All writes have ended: the call returns, or throws without the quorum.
FinishWrite(w) ==
    /\ writer[w] # Idle
    /\ writer[w].left = {} /\ writer[w].written = {}
    /\ acked' = (acked \/ QuorumReached(writer[w]))
    /\ writer' = [writer EXCEPT ![w] = Idle]
    /\ UNCHANGED <<disk, tables, silent, repairer, world>>

-----------------------------------------------------------------------------
(* reReplicate *)

\* The call goes on, or is over.
GoOn(r, call) == repairer' = [repairer EXCEPT ![r] = call]
Return(r) == GoOn(r, Idle)

\* getChunkReplicas of verifyReplicas.
StartRepair(r) ==
    /\ repairer[r] = Idle
    /\ Overlap \/ \A w \in Writers : writer[w] = Idle
    /\ rows # {}
    /\ GoOn(r, [at |-> "verify", listed |-> rows, corrupted |-> {}, left |-> rows])
    /\ UNCHANGED <<disk, tables, silent, writer, acked, world>>

\* The node answers, and the hash of its bytes is the chunk's.
Verified(n) == n \in up /\ disk[n] = "good"

\* verifyChunkIntegrity: whatever cannot be read counts as corrupted.
VerifyReplica(r, n) ==
    LET call == repairer[r]
        bad == IF Verified(n) THEN call.corrupted ELSE call.corrupted \cup {n}
        left == call.left \ {n}
    IN  /\ call.at = "verify"
        /\ n \in call.left
        /\ GoOn(r, IF left = {}
                   THEN [at |-> "remove", listed |-> call.listed, corrupted |-> bad, left |-> bad]
                   ELSE [call EXCEPT !.corrupted = bad, !.left = left])
        /\ UNCHANGED <<disk, tables, silent, writer, acked, world>>

\* deleteChunk of the node; if it does not answer, the row stays as well.
RemoveFile(r, n) ==
    LET call == repairer[r]
        left == call.left \ {n}
    IN  /\ call.at = "remove"
        /\ n \in call.left
        /\ IF n \in up
           THEN /\ disk' = [disk EXCEPT ![n] = "none"]
                /\ GoOn(r, [at |-> "row", listed |-> call.listed, corrupted |-> call.corrupted,
                            left |-> left, node |-> n])
           ELSE /\ GoOn(r, [call EXCEPT !.left = left])
                /\ UNCHANGED disk
        /\ UNCHANGED <<tables, silent, writer, acked, world>>

\* deleteChunkReplica, which may be rejected.
RemoveRow(r) ==
    LET call == repairer[r] IN
    /\ call.at = "row"
    /\ \/ rows' = rows \ {call.node} /\ UNCHANGED failures
       \/ Failure /\ UNCHANGED rows
    /\ GoOn(r, [at |-> "remove", listed |-> call.listed, corrupted |-> call.corrupted,
                left |-> call.left])
    /\ UNCHANGED <<disk, status, silent, writer, acked, up, outages, decays>>

\* currentReplicas, from what was listed and verified at the start.
Current(call) == Cardinality(call.listed) - Cardinality(call.corrupted)

\* Mutants of EnoughReplicas: equality is asked for; the quorum is enough.
ExactlyFactor(call) == Current(call) = Factor
QuorumIsEnough(call) == Current(call) >= Quorum

EnoughReplicas(call) == Current(call) >= Factor

\* Either there are enough replicas, or the rows are listed again and one of
\* them that is not known to be corrupted is to be read.
ListSources(r) ==
    LET call == repairer[r] IN
    /\ call.at = "remove"
    /\ call.left = {}
    /\ IF EnoughReplicas(call)
       THEN Return(r)
       ELSE GoOn(r, [at |-> "read", existing |-> rows, left |-> rows \ call.corrupted,
                     needed |-> Factor - Current(call)])
    /\ UNCHANGED <<disk, tables, silent, writer, acked, world>>

\* The next nodes of the ring that have no row, whatever their status.
Targets(existing, needed) ==
    FirstOf({i \in RingNodes(3 * Factor) : Ring[i] \notin existing}, needed)

\* readChunk; the bytes are not verified again.
ReadSource(r, n) ==
    LET call == repairer[r] IN
    /\ call.at = "read"
    /\ n \in call.left
    /\ GoOn(r, IF n \in up /\ disk[n] # "none"
               THEN [at |-> "copy", data |-> disk[n], todo |-> Targets(call.existing, call.needed)]
               ELSE [call EXCEPT !.left = @ \ {n}])
    /\ UNCHANGED <<disk, tables, silent, writer, acked, world>>

\* No replica could be read, or all targets have been treated.
EndRepair(r) ==
    /\ \/ repairer[r].at = "read" /\ repairer[r].left = {}
       \/ repairer[r].at = "copy" /\ repairer[r].todo = {}
    /\ Return(r)
    /\ UNCHANGED <<disk, tables, silent, writer, acked, world>>

\* The position of the next target
NextTarget(call) == CHOOSE i \in call.todo : \A j \in call.todo : i <= j

\* writeChunk of the next target; one that does not answer is passed over.
CopyTo(r) ==
    LET call == repairer[r]
        node == Ring[NextTarget(call)]
    IN  /\ call.at = "copy"
        /\ call.todo # {}
        /\ IF node \in up
           THEN /\ disk' = [disk EXCEPT ![node] = call.data]
                /\ GoOn(r, [call EXCEPT !.at = "record"])
           ELSE /\ GoOn(r, [call EXCEPT !.todo = @ \ {NextTarget(call)}])
                /\ UNCHANGED disk
        /\ UNCHANGED <<tables, silent, writer, acked, world>>

\* createChunkReplica, which may be rejected.
RecordCopy(r) ==
    LET call == repairer[r] IN
    /\ call.at = "record"
    /\ \/ rows' = rows \cup {Ring[NextTarget(call)]} /\ UNCHANGED failures
       \/ Failure /\ UNCHANGED rows
    /\ GoOn(r, [call EXCEPT !.at = "copy", !.todo = @ \ {NextTarget(call)}])
    /\ UNCHANGED <<disk, status, silent, writer, acked, up, outages, decays>>

-----------------------------------------------------------------------------
(* checkMetadataConsistency of the background jobs, and the nodes *)

\* listStorageNodes('active'): those with a heartbeat older than a minute.
ListSilent ==
    /\ silent = {}
    /\ silent' = {n \in Nodes : status[n] = "active" /\ n \notin up}
    /\ UNCHANGED <<disk, tables, writer, repairer, acked, world>>

\* updateStorageNode, with no second look at the heartbeat.
MarkOffline(n) ==
    /\ n \in silent
    /\ status' = [status EXCEPT ![n] = "offline"]
    /\ silent' = silent \ {n}
    /\ UNCHANGED <<disk, rows, writer, repairer, acked, world>>

NodeDown(n) ==
    /\ n \in up
    /\ outages < MaxOutages
    /\ up' = up \ {n}
    /\ outages' = outages + 1
    /\ UNCHANGED <<disk, tables, silent, writer, repairer, acked, decays, failures>>

\* The node answers again and is registered anew.
NodeUp(n) ==
    /\ n \notin up
    /\ up' = up \cup {n}
    /\ status' = [status EXCEPT ![n] = "active"]
    /\ UNCHANGED <<disk, rows, silent, writer, repairer, acked, outages, decays, failures>>

Decay(n) ==
    /\ disk[n] = "good"
    /\ decays < MaxDecays
    /\ disk' = [disk EXCEPT ![n] = "bad"]
    /\ decays' = decays + 1
    /\ UNCHANGED <<tables, silent, writer, repairer, acked, up, outages, failures>>

\* A replicateChunk call in flight goes on.
WriteGoesOn(w) ==
    \/ \E n \in Nodes : WriteNode(w, n) \/ RecordReplica(w, n)
    \/ FinishWrite(w)

WriteStep(w) == StartWrite(w) \/ WriteGoesOn(w)

RepairStep(r) ==
    \/ StartRepair(r)
    \/ \E n \in Nodes : VerifyReplica(r, n) \/ RemoveFile(r, n) \/ ReadSource(r, n)
    \/ RemoveRow(r)
    \/ ListSources(r)
    \/ CopyTo(r)
    \/ RecordCopy(r)
    \/ EndRepair(r)

NodeStep ==
    \/ ListSilent
    \/ \E n \in Nodes : MarkOffline(n) \/ NodeDown(n) \/ NodeUp(n) \/ Decay(n)

Next ==
    \/ \E w \in Writers : WriteStep(w)
    \/ \E r \in Repairers : RepairStep(r)
    \/ NodeStep

Spec == Init /\ [][Next]_vars

\* Repair is called again and again, and calls that have started go on.
FairSpec ==
    /\ Spec
    /\ \A w \in Writers : WF_vars(WriteGoesOn(w))
    /\ \A r \in Repairers : SF_vars(StartRepair(r)) /\ WF_vars(RepairStep(r))

-----------------------------------------------------------------------------
(* Properties *)

\* Copies that a reader finds through chunk_replicas.
GoodReplicas == {n \in rows : disk[n] = "good"}

\* What may have cost a good replica: a decayed file, and, once there is
\* repair, an outage, which verifyReplicas takes for a decayed file.
Threats == IF Repairers = {} THEN decays ELSE decays + outages

\* Once replicateChunk has returned, Quorum threats are needed before the
\* last good replica is gone: repair, which deletes what it could not verify
\* and copies what it did not verify again, loses none by itself.
AckedSurvives == acked /\ Threats < Quorum => GoodReplicas # {}

ZonesOf(S) == {ZoneOf[n] : n \in NodesAt(S)}
AsManyZones(S, candidates) ==
    LET zones == Cardinality(ZonesOf(candidates))
    IN  Cardinality(ZonesOf(S)) = IF zones < Factor THEN zones ELSE Factor

\* The nodes chosen for the replicas of a chunk lie in as many zones as the
\* active candidates among the next nodes of the ring allow.
SpreadOverZones == AsManyZones(SelectedNodes, ActiveCandidates)

\* Without outages a chunk that replicateChunk has stored has all its replicas
\* in the end, as long as there is a good one.
FullyReplicated ==
    acked ~> \/ Cardinality(GoodReplicas) >= Factor
             \/ GoodReplicas = {}
             \/ outages > 0
=============================================================================
