--------------------------- MODULE VersionManager ---------------------------
(***************************************************************************)
(* createVersion and pruneVersions of the version manager, with the        *)
(* reference counting of the deduplication engine and the file, version    *)
(* and chunk tables they share.  Nothing wraps their store calls in a      *)
(* transaction, so every awaited store call is a step of its own and any   *)
(* number of calls interleave.                                             *)
(*                                                                         *)
(* Time is abstracted to one bit of a version row: `old` holds once the    *)
(* retention period has passed since createdAt.                            *)
(***************************************************************************)
EXTENDS Integers, Sequences, FiniteSets, Tables

CONSTANTS
    Files,           \* file ids; ids are random UUIDs and never used twice
    Chunks,          \* content hashes
    Contents,        \* the chunk lists that callers pass to createVersion
    Creators,        \* callers of createVersion
    Pruners,         \* callers of pruneVersions
    DeletableFiles,  \* files that the DELETE route may be called for
    MaxFailures,     \* bound: how many store calls are rejected or calls die
    MaxVersions,     \* bound: no createVersion once a file has that many rows
    MaxCount         \* bound: no createVersion once a chunk has that count

ASSUME ContentsAssumption == Contents \subseteq Seq(Chunks)
ASSUME BoundAssumption == MaxVersions \in Nat /\ MaxCount \in Nat /\ MaxFailures \in Nat

VARIABLES
    files,           \* ids of the rows of table files
    currentVersion,  \* files.current_version
    versions,        \* versions[f]: the rows of file_versions of file f
    chunks,          \* hashes of the rows of table chunks
    refCount,        \* chunks.reference_count
    creator,         \* the createVersion call each creator is executing
    pruner,          \* the pruneVersions call each pruner is executing
    failures         \* how many store calls were rejected or calls have died

tables == <<files, currentVersion, versions, chunks, refCount>>
vars == <<files, currentVersion, versions, chunks, refCount, creator, pruner, failures>>

VersionNumbers == Nat \ {0}
VersionRow == [hashes : Contents, old : BOOLEAN]

\* A caller between two calls.
Idle == [at |-> "idle"]

\* createVersion: `at` is what the next awaited store call does, `next` the
\* number computed from the listing, `i` the position in the hash list.
CreateCall == [at : {"insert", "count", "update"}, file : Files,
               hashes : Contents, next : VersionNumbers, i : Nat \ {0}]

\* pruneVersions: `todo` holds the expired rows of the snapshot still to be
\* pruned, lowest number first; `i` is the position in the first one's hashes.
IsPruneCall(call) ==
    /\ call \in [at : {"count", "update"}, file : Files, todo : {call.todo}, i : Nat \ {0}]
    /\ IsTable(call.todo, VersionNumbers, VersionRow)

TypeOK ==
    /\ files \subseteq Files
    /\ currentVersion \in [Files -> Nat]
    /\ versions = [f \in Files |-> versions[f]]
    /\ \A f \in Files : IsTable(versions[f], VersionNumbers, VersionRow)
    /\ chunks \subseteq Chunks
    /\ refCount \in [Chunks -> Int]
    /\ creator \in [Creators -> {Idle} \cup CreateCall]
    /\ pruner = [q \in Pruners |-> pruner[q]]
    /\ \A q \in Pruners : pruner[q] = Idle \/ IsPruneCall(pruner[q])
    /\ failures \in 0..MaxFailures

Init ==
    /\ files = Files
    /\ currentVersion = [f \in Files |-> 0]
    /\ versions = [f \in Files |-> EmptyTable]
    /\ chunks = {}
    /\ refCount = [c \in Chunks |-> 0]
    /\ creator = [p \in Creators |-> Idle]
    /\ pruner = [q \in Pruners |-> Idle]
    /\ failures = 0

-----------------------------------------------------------------------------
(* Table statements and tests *)

Numbers(f) == DOMAIN versions[f]

\* Mutants of NextNumber: 1 is not added; calls in flight are counted as well.
NextNumberFromZero(f) == Cardinality(Numbers(f))
NextNumberReserved(f) ==
    Cardinality(Numbers(f))
        + Cardinality({p \in Creators : creator[p] # Idle /\ creator[p].file = f}) + 1

\* existingVersions.length + 1
NextNumber(f) == Cardinality(Numbers(f)) + 1

\* Mutant of InsertAccepted: the insert overwrites a row with the same key.
InsertOverwrites(f, n) == f \in files

\* Primary key (file_id, version) and foreign key into files.
InsertAccepted(f, n) == f \in files /\ n \notin Numbers(f)

\* UPDATE chunks SET reference_count = reference_count + delta WHERE hash = c
AddToCount(c, delta) ==
    refCount' = IF c \in chunks THEN [refCount EXCEPT ![c] = @ + delta] ELSE refCount

\* Mutants of MayDecrement: the boundary is off by one, down and up.
MayDecrementZero(c) == c \in chunks /\ refCount[c] >= 0
MayDecrementShared(c) == c \in chunks /\ refCount[c] > 1

\* decrementReference goes on only if the count it read is positive.
MayDecrement(c) == c \in chunks /\ refCount[c] > 0

\* Mutant of Prunable: the latest version is not excepted.
PrunableIfOld(f, n) == versions[f][n].old

\* Version n of f is neither the latest of the listing nor within retention.
Prunable(f, n) ==
    /\ \E m \in Numbers(f) : n < m
    /\ versions[f][n].old

\* Mutant of Orphans: a chunk with one reference is listed too.
OrphansWithOne == {c \in chunks : refCount[c] <= 1}

\* getOrphanedChunks
Orphans == {c \in chunks : refCount[c] = 0}

-----------------------------------------------------------------------------
(* createVersion *)

\* A store call is rejected, or the process dies in a call.
Failure == failures < MaxFailures /\ failures' = failures + 1

CreateInFlight == \E p \in Creators : creator[p] # Idle

\* The loop over the hash list has ended.
AllCounted(call) == call.i > Len(call.hashes)

\* listFileVersions; the caller has registered the chunks first.
ListVersions(p, f, hashes) ==
    /\ creator[p] = Idle
    /\ \A k \in 1..Len(hashes) : hashes[k] \in chunks /\ refCount[hashes[k]] < MaxCount
    /\ Cardinality(Numbers(f)) < MaxVersions
    /\ creator' = [creator EXCEPT ![p] =
           [at |-> "insert", file |-> f, hashes |-> hashes, next |-> NextNumber(f), i |-> 1]]
    /\ UNCHANGED <<tables, pruner, failures>>

\* createFileVersion inserts the row ...
InsertVersion(p) ==
    LET call == creator[p] IN
    /\ call.at = "insert"
    /\ InsertAccepted(call.file, call.next)
    /\ versions' = [versions EXCEPT ![call.file] =
           InsertRow(@, call.next, [hashes |-> call.hashes, old |-> FALSE])]
    /\ creator' = [creator EXCEPT ![p].at = "count"]
    /\ UNCHANGED <<files, currentVersion, chunks, refCount, pruner, failures>>

\* ... or is rejected by a key, and createVersion rejects with it.
InsertRejected(p) ==
    /\ creator[p].at = "insert"
    /\ ~ InsertAccepted(creator[p].file, creator[p].next)
    /\ creator' = [creator EXCEPT ![p] = Idle]
    /\ UNCHANGED <<tables, pruner, failures>>

\* getChunk in incrementReference; an unknown chunk is skipped by the catch.
CheckChunk(p) ==
    LET call == creator[p] IN
    /\ call.at = "count"
    /\ ~ AllCounted(call)
    /\ creator' = [creator EXCEPT ![p] =
           IF call.hashes[call.i] \in chunks
           THEN [call EXCEPT !.at = "update"] ELSE [call EXCEPT !.i = @ + 1]]
    /\ UNCHANGED <<tables, pruner, failures>>

IncrementChunk(p) ==
    LET call == creator[p] IN
    /\ call.at = "update"
    /\ AddToCount(call.hashes[call.i], 1)
    /\ creator' = [creator EXCEPT ![p] = [call EXCEPT !.at = "count", !.i = @ + 1]]
    /\ UNCHANGED <<files, currentVersion, versions, chunks, pruner, failures>>

\* updateFile; no row of files is touched if the file is gone.
PublishVersion(p) ==
    LET call == creator[p] IN
    /\ call.at = "count"
    /\ AllCounted(call)
    /\ currentVersion' = [currentVersion EXCEPT ![call.file] =
           IF call.file \in files THEN call.next ELSE @]
    /\ creator' = [creator EXCEPT ![p] = Idle]
    /\ UNCHANGED <<files, versions, chunks, refCount, pruner, failures>>

\* A rejected store call inside the loop is swallowed by the catch.
IncrementFails(p) ==
    LET call == creator[p] IN
    /\ Failure
    /\ call.at \in {"count", "update"}
    /\ ~ AllCounted(call)
    /\ creator' = [creator EXCEPT ![p] = [call EXCEPT !.at = "count", !.i = @ + 1]]
    /\ UNCHANGED <<tables, pruner>>

\* Any other rejected store call, or the end of the process, ends the call.
CreateAborts(p) ==
    /\ Failure
    /\ creator[p] # Idle
    /\ creator' = [creator EXCEPT ![p] = Idle]
    /\ UNCHANGED <<tables, pruner>>

-----------------------------------------------------------------------------
(* pruneVersions *)

Remaining(q) == IF pruner[q] = Idle THEN {} ELSE DOMAIN pruner[q].todo

\* v is the version that q is pruning: the lowest one left.
IsTarget(q, v) ==
    /\ v \in Remaining(q)
    /\ \A n \in Remaining(q) : v <= n

\* The loop over the hashes of the target has ended.
AllReleased(call, v) == call.i > Len(call.todo[v].hashes)

\* listFileVersions; a listing with nothing to prune changes nothing.
SnapshotVersions(q, f) ==
    LET expired == {n \in Numbers(f) : Prunable(f, n)} IN
    /\ pruner[q] = Idle
    /\ expired # {}
    /\ pruner' = [pruner EXCEPT ![q] =
           [at |-> "count", file |-> f,
            todo |-> [n \in expired |-> versions[f][n]], i |-> 1]]
    /\ UNCHANGED <<tables, creator, failures>>

\* getChunk in decrementReference; its errors are skipped by the catch.
CheckCount(q, v) ==
    LET call == pruner[q] IN
    /\ IsTarget(q, v)
    /\ call.at = "count"
    /\ ~ AllReleased(call, v)
    /\ pruner' = [pruner EXCEPT ![q] =
           IF MayDecrement(call.todo[v].hashes[call.i])
           THEN [call EXCEPT !.at = "update"] ELSE [call EXCEPT !.i = @ + 1]]
    /\ UNCHANGED <<tables, creator, failures>>

DecrementChunk(q, v) ==
    LET call == pruner[q] IN
    /\ IsTarget(q, v)
    /\ call.at = "update"
    /\ AddToCount(call.todo[v].hashes[call.i], -1)
    /\ pruner' = [pruner EXCEPT ![q] = [call EXCEPT !.at = "count", !.i = @ + 1]]
    /\ UNCHANGED <<files, currentVersion, versions, chunks, creator, failures>>

\* deleteFileVersion, then the next expired version or the end of the call.
DeleteVersion(q, v) ==
    LET call == pruner[q] IN
    /\ IsTarget(q, v)
    /\ call.at = "count"
    /\ AllReleased(call, v)
    /\ versions' = [versions EXCEPT ![call.file] = DeleteRows(@, {v})]
    /\ pruner' = [pruner EXCEPT ![q] =
           IF Remaining(q) = {v} THEN Idle
           ELSE [at |-> "count", file |-> call.file,
                 todo |-> DeleteRows(call.todo, {v}), i |-> 1]]
    /\ UNCHANGED <<files, currentVersion, chunks, refCount, creator, failures>>

DecrementFails(q, v) ==
    LET call == pruner[q] IN
    /\ Failure
    /\ IsTarget(q, v)
    /\ ~ AllReleased(call, v)
    /\ pruner' = [pruner EXCEPT ![q] = [call EXCEPT !.at = "count", !.i = @ + 1]]
    /\ UNCHANGED <<tables, creator>>

PruneAborts(q) ==
    /\ Failure
    /\ pruner[q] # Idle
    /\ pruner' = [pruner EXCEPT ![q] = Idle]
    /\ UNCHANGED <<tables, creator>>

-----------------------------------------------------------------------------
(* The environment of the version manager *)

\* createChunk by the caller, with no reference yet.
RegisterChunk(c) ==
    /\ c \notin chunks
    /\ chunks' = chunks \cup {c}
    /\ refCount' = [refCount EXCEPT ![c] = 0]
    /\ UNCHANGED <<files, currentVersion, versions, creator, pruner, failures>>

\* deleteFile: the row and, by cascade, its versions.
DeleteFile(f) ==
    /\ f \in files \cap DeletableFiles
    /\ files' = files \ {f}
    /\ versions' = [versions EXCEPT ![f] = EmptyTable]
    /\ UNCHANGED <<currentVersion, chunks, refCount, creator, pruner, failures>>

\* The retention period passes.  It is at least a day, so that no call of
\* createVersion lasts through it.
RetentionPasses ==
    /\ ~ CreateInFlight
    /\ \E f \in Files : \E n \in Numbers(f) : ~ versions[f][n].old
    /\ versions' = [f \in Files |-> [n \in Numbers(f) |-> [versions[f][n] EXCEPT !.old = TRUE]]]
    /\ UNCHANGED <<files, currentVersion, chunks, refCount, creator, pruner, failures>>

CreateStep(p) ==
    \/ \E f \in Files, hashes \in Contents : ListVersions(p, f, hashes)
    \/ InsertVersion(p)
    \/ InsertRejected(p)
    \/ CheckChunk(p)
    \/ IncrementChunk(p)
    \/ PublishVersion(p)
    \/ IncrementFails(p)
    \/ CreateAborts(p)

PruneStep(q) ==
    \/ \E f \in Files : SnapshotVersions(q, f)
    \/ PruneAborts(q)
    \/ \E v \in Remaining(q) :
           \/ CheckCount(q, v)
           \/ DecrementChunk(q, v)
           \/ DeleteVersion(q, v)
           \/ DecrementFails(q, v)

EnvironmentStep ==
    \/ \E c \in Chunks : RegisterChunk(c)
    \/ \E f \in Files : DeleteFile(f)
    \/ RetentionPasses

Next ==
    \/ \E p \in Creators : CreateStep(p)
    \/ \E q \in Pruners : PruneStep(q)
    \/ EnvironmentStep

Spec == Init /\ [][Next]_vars

-----------------------------------------------------------------------------
(* Properties *)

\* While nothing prunes, the versions of a file are numbered 1, 2, ..., n
\* whatever calls of createVersion race, are rejected or die: the listing is
\* stale, but a taken number is refused by the primary key.
SequentialNumbers ==
    \A f \in Files : Numbers(f) = 1..Cardinality(Numbers(f))

\* Pruning from a stale listing never removes the newest version of a file:
\* no step but the deletion of the file lowers the highest version number.
LatestSurvives ==
    [][\A f \in files' : \A n \in Numbers(f) : \E m \in Numbers(f)' : n <= m]_vars

\* Reading the count before the decrement keeps it from going negative.
CountsNonNegative == \A c \in Chunks : refCount[c] >= 0

\* The place k of version n of file f has not been counted yet by the
\* createVersion call that inserted the version.
Uncounted(f, n, k) ==
    \E p \in Creators :
        /\ creator[p].at \in {"count", "update"}
        /\ creator[p].file = f
        /\ creator[p].next = n
        /\ creator[p].i <= k

\* A pruneVersions call has released place k and is about to delete version n.
Released(f, n, k) ==
    \E q \in Pruners :
        /\ pruner[q] # Idle
        /\ pruner[q].file = f
        /\ IsTarget(q, n)
        /\ pruner[q].i > k

\* The places of chunk c that its count should stand for.
CountedPlaces(c) ==
    UNION {UNION {
        {<<f, n, k>> : k \in {k \in 1..Len(versions[f][n].hashes) :
                                /\ versions[f][n].hashes[k] = c
                                /\ ~ Uncounted(f, n, k)
                                /\ ~ Released(f, n, k)}}
        : n \in Numbers(f)} : f \in Files}

\* As long as no call fails, the count of a chunk covers the places where
\* versions use it, but for those that a call in flight is adding or removing
\* at this moment; and it is exact until a file is deleted, whose uses stay
\* counted.
CountsExact ==
    failures = 0 =>
        \A c \in chunks :
            /\ refCount[c] >= Cardinality(CountedPlaces(c))
            /\ files = Files => refCount[c] = Cardinality(CountedPlaces(c))

\* With no call in flight, current_version names a version that exists.
CurrentVersionExists ==
    (~ CreateInFlight /\ \A q \in Pruners : pruner[q] = Idle) =>
        \A f \in files : currentVersion[f] = 0 \/ currentVersion[f] \in Numbers(f)

\* The contents of a file's versions in number order.
History(f) == [n \in 1..Cardinality(Numbers(f)) |-> versions[f][n].hashes]

Log == INSTANCE VersionLog WITH
    present <- files,
    log <- [f \in Files |-> History(f)]

\* While nothing prunes, createVersion implements the append of one entry.
ImplementsLog == Log!LogSpec
=============================================================================
