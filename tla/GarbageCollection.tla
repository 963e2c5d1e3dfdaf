-------------------------- MODULE GarbageCollection --------------------------
(***************************************************************************)
(* garbageCollect of the background jobs, together with the version        *)
(* manager: the collector lists the chunks with count zero, then deletes   *)
(* each from every storage node and at last its row, without looking at    *)
(* the count again.  The bytes of the chunks on the nodes are added to the *)
(* state of the version manager.                                           *)
(*                                                                         *)
(* Nothing in the code keeps the job away from createVersion; Overlap says *)
(* whether an operator does.                                               *)
(***************************************************************************)
EXTENDS VersionManager

CONSTANTS
    Nodes,           \* storage nodes, as given to the background jobs
    Collectors,      \* runs of garbageCollect
    Overlap          \* TRUE if clients add chunks and versions during a collection

ASSUME CollectionAssumption == Overlap \in BOOLEAN

VARIABLES
    stored,          \* stored[n]: the chunks whose file is on the disk of node n
    collector        \* the garbageCollect call each collector is executing

gcVars == <<vars, stored, collector>>

\* `chunk` is the orphan being deleted, `asked` the nodes that were told to
\* delete it, `todo` the rest of the listing.
CollectCall == [at : {"delete"}, chunk : Chunks, asked : SUBSET Nodes, todo : SUBSET Chunks]

GCTypeOK ==
    /\ TypeOK
    /\ stored \in [Nodes -> SUBSET Chunks]
    /\ collector \in [Collectors -> {Idle} \cup CollectCall]

GCInit ==
    /\ Init
    /\ stored = [n \in Nodes |-> {}]
    /\ collector = [g \in Collectors |-> Idle]

Collecting == \E g \in Collectors : collector[g] # Idle

-----------------------------------------------------------------------------
(* garbageCollect *)

\* The call goes on with one of the chunks of `todo`, or is over.
NextOrphan(g, todo) ==
    \/ /\ todo = {}
       /\ collector' = [collector EXCEPT ![g] = Idle]
    \/ \E c \in todo :
           collector' = [collector EXCEPT ![g] =
               [at |-> "delete", chunk |-> c, asked |-> {}, todo |-> todo \ {c}]]

\* getOrphanedChunks
ListOrphans(g) ==
    /\ collector[g] = Idle
    /\ Overlap \/ ~ CreateInFlight
    /\ Orphans # {}
    /\ NextOrphan(g, Orphans)
    /\ UNCHANGED <<vars, stored>>

\* deleteChunk of a storage node; its failure is caught and forgotten.
DeleteFromNode(g, n) ==
    /\ collector[g] # Idle
    /\ n \in Nodes \ collector[g].asked
    /\ \/ stored' = [stored EXCEPT ![n] = @ \ {collector[g].chunk}] /\ UNCHANGED failures
       \/ Failure /\ UNCHANGED stored
    /\ collector' = [collector EXCEPT ![g].asked = @ \cup {n}]
    /\ UNCHANGED <<tables, creator, pruner>>

\* Mutant of AllNodesAsked: one node is enough.
SomeNodeAsked(g) == collector[g].asked # {}

\* The loop over the storage nodes has ended.
AllNodesAsked(g) == collector[g].asked = Nodes

\* Mutant of DeleteChunkRow: the row is left.
LeaveChunkRow(g) ==
    /\ collector[g] # Idle
    /\ AllNodesAsked(g)
    /\ NextOrphan(g, collector[g].todo)
    /\ UNCHANGED <<vars, stored>>

\* deleteChunk of the metadata store.
DeleteChunkRow(g) ==
    /\ collector[g] # Idle
    /\ AllNodesAsked(g)
    /\ chunks' = chunks \ {collector[g].chunk}
    /\ NextOrphan(g, collector[g].todo)
    /\ UNCHANGED <<files, currentVersion, versions, refCount, creator, pruner, failures, stored>>

\* A rejected delete of the row is caught and the next chunk taken up.
SkipOrphan(g) ==
    /\ Failure
    /\ collector[g] # Idle
    /\ AllNodesAsked(g)
    /\ NextOrphan(g, collector[g].todo)
    /\ UNCHANGED <<tables, creator, pruner, stored>>

CollectAborts(g) ==
    /\ Failure
    /\ collector[g] # Idle
    /\ collector' = [collector EXCEPT ![g] = Idle]
    /\ UNCHANGED <<tables, creator, pruner, stored>>

\* A client registers a chunk and writes it to the nodes.
StoreChunk(c) ==
    /\ Overlap \/ ~ Collecting
    /\ RegisterChunk(c)
    /\ stored' = [n \in Nodes |-> stored[n] \cup {c}]
    /\ UNCHANGED collector

CollectStep(g) ==
    \/ ListOrphans(g)
    \/ \E n \in Nodes : DeleteFromNode(g, n)
    \/ DeleteChunkRow(g)

\* createVersion, pruneVersions, deletion of files and the passing of time.
VersionStep ==
    /\ \/ \E p \in Creators : CreateStep(p) /\ (Overlap \/ ~ Collecting)
       \/ \E q \in Pruners : PruneStep(q)
       \/ \E f \in Files : DeleteFile(f)
       \/ RetentionPasses
    /\ UNCHANGED <<stored, collector>>

GCNext ==
    \/ VersionStep
    \/ \E c \in Chunks : StoreChunk(c)
    \/ \E g \in Collectors : CollectStep(g) \/ SkipOrphan(g) \/ CollectAborts(g)

GCSpec == GCInit /\ [][GCNext]_gcVars

\* The job is run again and again, and a run that has started goes on.
GCFairSpec == GCSpec /\ \A g \in Collectors : WF_gcVars(CollectStep(g))

-----------------------------------------------------------------------------
(* Properties *)

\* As long as clients add no versions during a collection and nothing fails, a
\* chunk that a version counts on has its row and its bytes on every node,
\* whatever other collectors and pruning do meanwhile.
ContentKept ==
    failures = 0 =>
        \A c \in Chunks :
            CountedPlaces(c) # {} => c \in chunks /\ \A n \in Nodes : c \in stored[n]

\* Bytes whose chunk has no row are never deleted, since the collector goes
\* by the rows.  Only a node whose failure was forgotten is left with some.
Stray == {pair \in Nodes \X Chunks : pair[2] \in stored[pair[1]] \ chunks}
StrayBytesFromFailures == Cardinality(Stray) <= failures

\* A chunk whose count is zero is counted again or deleted in the end.
OrphansCollected == \A c \in Chunks : c \in Orphans ~> c \notin Orphans
=============================================================================
