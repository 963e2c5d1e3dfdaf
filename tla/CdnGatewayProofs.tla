--------------------------- MODULE CdnGatewayProofs ---------------------------
(***************************************************************************)
(* Proofs about the edge cache and the storage node behind it, for any     *)
(* chunks, calls, versions, lifetime and size of the cache.                *)
(***************************************************************************)
EXTENDS CdnGateway, FiniteSetTheorems, TLAPS

(***************************************************************************)
(* The storage node                                                        *)
(***************************************************************************)

\* The calls whose file may be there and not be counted yet
Pending == JobsAt("fill") \cup JobsAt("void") \cup JobsAt("count")

\* A deletion voids the writes of its file, so that a write that is under way
\* has one.
FillsPresent == \A j \in Jobs : job[j].at = "fill" => disk[job[j].chunk] # "none"

\* A scan has not seen more files than it has directories behind it.
ScansFit ==
    \A j \in Jobs :
        job[j].at = "scan" =>
            job[j].sum + Cardinality(job[j].todo) <= Cardinality(Chunks)

\* The counter covers the files even when the deletions that are still to be
\* subtracted have been.
CountBacked ==
    Cardinality(Present) + Cardinality(JobsAt("uncount")) <=
        chunkCount + missed + Cardinality(Pending)

\* The inductive invariant of the node
NodeInv == NodeTypeOK /\ FillsPresent /\ ScansFit /\ CountBacked

\* What a call on the node remembers
LEMMA JobFields ==
    ASSUME NodeTypeOK, NEW j \in Jobs
    PROVE  /\ job[j].at = "fill" => job[j].chunk \in Chunks
           /\ job[j].at = "scan" =>
                  job[j] \in [at : {"scan"}, todo : SUBSET Chunks, sum : 0..Cardinality(Chunks)]
  BY DEF NodeTypeOK, NodeJobs, Idle

\* The sets that are counted are finite.
LEMMA NodeSetsFinite ==
    /\ IsFiniteSet(Present) /\ Cardinality(Present) \in Nat
    /\ \A x : IsFiniteSet(JobsAt(x)) /\ Cardinality(JobsAt(x)) \in Nat
    /\ IsFiniteSet(Pending) /\ Cardinality(Pending) \in Nat
    /\ Cardinality(Chunks) \in Nat
  <1>1. Present \subseteq Chunks /\ Pending \subseteq Jobs /\ \A x : JobsAt(x) \subseteq Jobs
    BY DEF Present, Pending, JobsAt
  <1>2. QED
    BY <1>1, NodeBounds, FS_Subset, FS_CardinalityType

\* A call that moves on leaves the set it was in for that of its next step.
LEMMA JobMoves ==
    ASSUME NodeTypeOK, NEW j \in Jobs, NEW new, job' = [job EXCEPT ![j] = new]
    PROVE  /\ job'[j] = new /\ \A k \in Jobs \ {j} : job'[k] = job[k]
           /\ \A x : JobsAt(x)' = IF new.at = x THEN JobsAt(x) \cup {j} ELSE JobsAt(x) \ {j}
  <1>1. job'[j] = new /\ \A k \in Jobs \ {j} : job'[k] = job[k]
    BY DEF NodeTypeOK
  <1>2. QED
    BY <1>1 DEF JobsAt

\* Sizes of a finite set that gains or loses an element.
LEMMA OneMore ==
    ASSUME NEW S, IsFiniteSet(S), NEW x
    PROVE  /\ Cardinality(S) \in Nat
           /\ x \notin S => Cardinality(S \cup {x}) = Cardinality(S) + 1
           /\ Cardinality(S \cup {x}) <= Cardinality(S) + 1
           /\ x \in S => Cardinality(S \ {x}) = Cardinality(S) - 1
           /\ Cardinality(S \cup {x}) \in Nat /\ Cardinality(S \ {x}) \in Nat
  BY FS_AddElement, FS_RemoveElement, FS_CardinalityType

\* writeFile opens its file.
LEMMA OpenFileInv ==
    ASSUME NodeInv, NEW j \in Jobs, NEW h \in Chunks, OpenFile(j, h)
    PROVE  NodeInv'
  <1>1. PICK new : new = [at |-> "fill", chunk |-> h]
    OBVIOUS
  <1>2. NodeTypeOK /\ new \in NodeJobs /\ new.at = "fill" /\ new.chunk = h
    BY <1>1 DEF NodeInv, NodeJobs
  <1>3. /\ job[j].at = "idle" /\ job' = [job EXCEPT ![j] = new]
        /\ disk' = [disk EXCEPT ![h] = "partial"]
        /\ UNCHANGED <<chunkCount, missed, failures>>
    BY <1>1 DEF OpenFile, Idle
  <1>4. /\ job'[j] = new /\ \A k \in Jobs \ {j} : job'[k] = job[k]
        /\ \A x : JobsAt(x)' = IF new.at = x THEN JobsAt(x) \cup {j} ELSE JobsAt(x) \ {j}
    BY <1>2, <1>3, JobMoves
  <1>5. disk'[h] = "partial" /\ \A k \in Chunks : k # h => disk'[k] = disk[k]
    BY <1>2, <1>3 DEF NodeTypeOK
  <1>6. NodeTypeOK'
    BY <1>2, <1>3 DEF NodeTypeOK, FileStates
  <1>7. FillsPresent'
    BY <1>2, <1>4, <1>5, JobFields DEF NodeInv, FillsPresent
  <1>8. ScansFit'
    BY <1>2, <1>4 DEF NodeInv, ScansFit
  <1>9. CountBacked'
    <2>1. Present' = Present \cup {h}
      BY <1>5 DEF Present
    <2>2. Pending' = Pending \cup {j} /\ j \notin Pending
      BY <1>2, <1>3, <1>4 DEF Pending, JobsAt
    <2>3. JobsAt("uncount")' = JobsAt("uncount")
      BY <1>2, <1>3, <1>4 DEF JobsAt
    <2>4. /\ Cardinality(Present') <= Cardinality(Present) + 1
          /\ Cardinality(Pending') = Cardinality(Pending) + 1
          /\ Cardinality(Present') \in Nat /\ Cardinality(Pending') \in Nat
      BY <2>1, <2>2, NodeSetsFinite, OneMore
    <2>5. QED
      BY <1>2, <1>3, <2>3, <2>4, NodeSetsFinite DEF NodeInv, CountBacked, NodeTypeOK
  <1>10. QED
    BY <1>6, <1>7, <1>8, <1>9 DEF NodeInv

\* writeFile is done, or another write of the file is not.
LEMMA FillFileInv ==
    ASSUME NodeInv, NEW j \in Jobs, FillFile(j)
    PROVE  NodeInv'
  <1>1. PICK new : new = [at |-> "count"]
    OBVIOUS
  <1>2. NodeTypeOK /\ new \in NodeJobs /\ new.at = "count"
    BY <1>1 DEF NodeInv, NodeJobs
  <1>3. /\ job[j].at \in {"fill", "void"} /\ job' = [job EXCEPT ![j] = new]
        /\ UNCHANGED <<chunkCount, missed, failures>>
        /\ \/ UNCHANGED disk
           \/ job[j].at = "fill" /\ disk' = [disk EXCEPT ![job[j].chunk] = "whole"]
    BY <1>1 DEF FillFile
  <1>4. /\ job'[j] = new /\ \A k \in Jobs \ {j} : job'[k] = job[k]
        /\ \A x : JobsAt(x)' = IF new.at = x THEN JobsAt(x) \cup {j} ELSE JobsAt(x) \ {j}
    BY <1>2, <1>3, JobMoves
  <1>5. /\ disk' \in [Chunks -> FileStates]
        /\ \A h \in Chunks : disk'[h] # "none" <=> disk[h] # "none"
    <2>1. job[j].at = "fill" => job[j].chunk \in Chunks /\ disk[job[j].chunk] # "none"
      BY <1>2, JobFields DEF NodeInv, FillsPresent
    <2>2. QED
      BY <1>2, <1>3, <2>1 DEF NodeTypeOK, FileStates
  <1>6. NodeTypeOK'
    BY <1>2, <1>3, <1>5 DEF NodeTypeOK
  <1>7. FillsPresent'
    BY <1>2, <1>4, <1>5, JobFields DEF NodeInv, FillsPresent
  <1>8. ScansFit'
    BY <1>2, <1>4 DEF NodeInv, ScansFit
  <1>9. CountBacked'
    <2>1. Present' = Present
      BY <1>5 DEF Present
    <2>2. Pending' = Pending /\ JobsAt("uncount")' = JobsAt("uncount")
      BY <1>2, <1>3, <1>4 DEF Pending, JobsAt
    <2>3. QED
      BY <1>3, <2>1, <2>2 DEF NodeInv, CountBacked
  <1>10. QED
    BY <1>6, <1>7, <1>8, <1>9 DEF NodeInv

\* The write is counted, or it is known to have failed.
LEMMA WriteEndsInv ==
    ASSUME NodeInv, NEW j \in Jobs, CountWrite(j) \/ WriteFails(j)
    PROVE  NodeInv'
  <1>1. NodeTypeOK /\ Idle \in NodeJobs /\ Idle.at = "idle"
    BY DEF NodeInv, NodeJobs, Idle
  <1>2. /\ job[j].at \in {"fill", "void", "count"} /\ job' = [job EXCEPT ![j] = Idle]
        /\ UNCHANGED disk
        /\ chunkCount' \in 0..MaxCount /\ missed' \in Nat /\ failures' \in 0..MaxFailures
        /\ \/ chunkCount' = chunkCount + 1 /\ missed' = missed
           \/ chunkCount' = chunkCount /\ missed' = missed + 1
    BY <1>1, NodeBounds DEF CountWrite, WriteFails, Counted, Return, NodeTypeOK
  <1>3. /\ job'[j] = Idle /\ \A k \in Jobs \ {j} : job'[k] = job[k]
        /\ \A x : JobsAt(x)' = IF Idle.at = x THEN JobsAt(x) \cup {j} ELSE JobsAt(x) \ {j}
    BY <1>1, <1>2, JobMoves
  <1>4. NodeTypeOK'
    BY <1>1, <1>2 DEF NodeTypeOK
  <1>5. FillsPresent' /\ ScansFit'
    BY <1>1, <1>2, <1>3 DEF NodeInv, FillsPresent, ScansFit
  <1>6. CountBacked'
    <2>1. Pending' = Pending \ {j} /\ j \in Pending
      BY <1>1, <1>2, <1>3 DEF Pending, JobsAt
    <2>2. JobsAt("uncount")' = JobsAt("uncount") /\ Present' = Present
      BY <1>1, <1>2, <1>3 DEF JobsAt, Present
    <2>3. Cardinality(Pending') = Cardinality(Pending) - 1 /\ Cardinality(Pending') \in Nat
      BY <2>1, NodeSetsFinite, OneMore
    <2>4. QED
      BY <1>1, <1>2, <2>2, <2>3, NodeSetsFinite DEF NodeInv, CountBacked, NodeTypeOK
  <1>7. QED
    BY <1>4, <1>5, <1>6 DEF NodeInv

\* unlink: the writes of the file go on in vain.
LEMMA UnlinkFileInv ==
    ASSUME NodeInv, NEW j \in Jobs, NEW h \in Chunks, UnlinkFile(j, h)
    PROVE  NodeInv'
  <1>1. PICK out : out = [at |-> "uncount"]
    OBVIOUS
  <1>2. PICK void : void = [at |-> "void"]
    OBVIOUS
  <1>3. /\ NodeTypeOK /\ out \in NodeJobs /\ void \in NodeJobs
        /\ out.at = "uncount" /\ void.at = "void"
    BY <1>1, <1>2 DEF NodeInv, NodeJobs
  <1>4. /\ job[j].at = "idle" /\ disk[h] # "none"
        /\ disk' = [disk EXCEPT ![h] = "none"]
        /\ job' = [k \in Jobs |-> IF k = j THEN out
                                ELSE IF job[k].at = "fill" /\ job[k].chunk = h THEN void ELSE job[k]]
        /\ UNCHANGED <<chunkCount, missed, failures>>
    BY <1>1, <1>2 DEF UnlinkFile, Idle
  <1>5. /\ job'[j] = out
        /\ \A k \in Jobs \ {j} :
               job'[k] = IF job[k].at = "fill" /\ job[k].chunk = h THEN void ELSE job[k]
    BY <1>4
  <1>6. disk'[h] = "none" /\ \A k \in Chunks : k # h => disk'[k] = disk[k]
    BY <1>3, <1>4 DEF NodeTypeOK
  <1>7. NodeTypeOK'
    BY <1>3, <1>4 DEF NodeTypeOK, FileStates
  <1>8. FillsPresent'
    <2>1. ASSUME NEW k \in Jobs, job'[k].at = "fill"
          PROVE  disk'[job'[k].chunk] # "none"
      <3>1. job'[k] = job[k] /\ job[k].at = "fill" /\ job[k].chunk # h
        BY <1>3, <1>5, <2>1
      <3>2. job[k].chunk \in Chunks /\ disk[job[k].chunk] # "none"
        BY <1>3, <3>1, JobFields DEF NodeInv, FillsPresent
      <3>3. QED
        BY <1>6, <3>1, <3>2
    <2>2. QED
      BY <2>1 DEF FillsPresent
  <1>9. ScansFit'
    BY <1>3, <1>5 DEF NodeInv, ScansFit
  <1>10. CountBacked'
    <2>1. Present' = Present \ {h} /\ h \in Present
      BY <1>4, <1>6 DEF Present
    <2>2. Pending' = Pending
      BY <1>3, <1>4, <1>5 DEF Pending, JobsAt
    <2>3. JobsAt("uncount")' = JobsAt("uncount") \cup {j} /\ j \notin JobsAt("uncount")
      BY <1>3, <1>4, <1>5 DEF JobsAt
    <2>4. /\ Cardinality(Present') = Cardinality(Present) - 1
          /\ Cardinality(JobsAt("uncount")') = Cardinality(JobsAt("uncount")) + 1
          /\ Cardinality(Present') \in Nat /\ Cardinality(JobsAt("uncount")') \in Nat
      BY <2>1, <2>3, NodeSetsFinite, OneMore
    <2>5. QED
      BY <1>3, <1>4, <2>2, <2>4, NodeSetsFinite DEF NodeInv, CountBacked, NodeTypeOK
  <1>11. QED
    BY <1>7, <1>8, <1>9, <1>10 DEF NodeInv

\* The deletion is subtracted, though never below zero.
LEMMA CountDeleteInv ==
    ASSUME NodeInv, NEW j \in Jobs, CountDelete(j)
    PROVE  NodeInv'
  <1>1. NodeTypeOK /\ Idle \in NodeJobs /\ Idle.at = "idle"
    BY DEF NodeInv, NodeJobs, Idle
  <1>2. /\ job[j].at = "uncount" /\ job' = [job EXCEPT ![j] = Idle]
        /\ UNCHANGED <<disk, missed, failures>>
        /\ chunkCount' \in 0..MaxCount /\ chunkCount' >= chunkCount - 1
    BY <1>1, NodeBounds DEF CountDelete, Return, NodeTypeOK
  <1>3. /\ job'[j] = Idle /\ \A k \in Jobs \ {j} : job'[k] = job[k]
        /\ \A x : JobsAt(x)' = IF Idle.at = x THEN JobsAt(x) \cup {j} ELSE JobsAt(x) \ {j}
    BY <1>1, <1>2, JobMoves
  <1>4. NodeTypeOK'
    BY <1>1, <1>2 DEF NodeTypeOK
  <1>5. FillsPresent' /\ ScansFit'
    BY <1>1, <1>2, <1>3 DEF NodeInv, FillsPresent, ScansFit
  <1>6. CountBacked'
    <2>1. JobsAt("uncount")' = JobsAt("uncount") \ {j} /\ j \in JobsAt("uncount")
      BY <1>1, <1>2, <1>3 DEF JobsAt
    <2>2. Pending' = Pending /\ Present' = Present
      BY <1>1, <1>2, <1>3 DEF Pending, JobsAt, Present
    <2>3. /\ Cardinality(JobsAt("uncount")') = Cardinality(JobsAt("uncount")) - 1
          /\ Cardinality(JobsAt("uncount")') \in Nat
      BY <2>1, NodeSetsFinite, OneMore
    <2>4. QED
      BY <1>1, <1>2, <2>2, <2>3, NodeSetsFinite DEF NodeInv, CountBacked, NodeTypeOK
  <1>7. QED
    BY <1>4, <1>5, <1>6 DEF NodeInv

\* A scan begins with all directories before it.
LEMMA StartScanInv ==
    ASSUME NodeInv, NEW j \in Jobs, StartScan(j)
    PROVE  NodeInv'
  <1>1. PICK new : new = [at |-> "scan", todo |-> Chunks, sum |-> 0]
    OBVIOUS
  <1>2. /\ NodeTypeOK /\ new \in NodeJobs
        /\ new.at = "scan" /\ new.todo = Chunks /\ new.sum = 0
    BY <1>1, NodeSetsFinite DEF NodeInv, NodeJobs
  <1>3. /\ job[j].at = "idle" /\ job' = [job EXCEPT ![j] = new]
        /\ UNCHANGED <<disk, chunkCount, missed, failures>>
    BY <1>1 DEF StartScan, Idle
  <1>4. /\ job'[j] = new /\ \A k \in Jobs \ {j} : job'[k] = job[k]
        /\ \A x : JobsAt(x)' = IF new.at = x THEN JobsAt(x) \cup {j} ELSE JobsAt(x) \ {j}
    BY <1>2, <1>3, JobMoves
  <1>5. NodeTypeOK'
    BY <1>2, <1>3 DEF NodeTypeOK
  <1>6. FillsPresent' /\ ScansFit'
    BY <1>2, <1>3, <1>4, NodeSetsFinite DEF NodeInv, FillsPresent, ScansFit
  <1>7. CountBacked'
    <2>1. Pending' = Pending /\ JobsAt("uncount")' = JobsAt("uncount") /\ Present' = Present
      BY <1>2, <1>3, <1>4 DEF Pending, JobsAt, Present
    <2>2. QED
      BY <1>3, <2>1 DEF NodeInv, CountBacked
  <1>8. QED
    BY <1>5, <1>6, <1>7 DEF NodeInv

\* A directory is scanned: the last one sets the counter.
LEMMA ScanDirectoryInv ==
    ASSUME NodeInv, NEW j \in Jobs, NEW h \in Chunks, ScanDirectory(j, h)
    PROVE  NodeInv'
  <1> DEFINE seen == IF disk[h] = "none" THEN 0 ELSE 1
  <1>1. PICK sum : sum = job[j].sum + seen
    OBVIOUS
  <1>2. PICK todo : todo = job[j].todo
    OBVIOUS
  <1>3. /\ NodeTypeOK /\ job[j].at = "scan" /\ h \in todo /\ todo \in SUBSET Chunks
        /\ job[j] \in [at : {"scan"}, todo : SUBSET Chunks, sum : 0..Cardinality(Chunks)]
        /\ job[j].sum \in Nat
        /\ job[j].sum + Cardinality(todo) <= Cardinality(Chunks)
        /\ UNCHANGED <<disk, failures>>
    BY <1>2, JobFields, NodeSetsFinite DEF ScanDirectory, NodeInv, ScansFit
  <1>4. /\ IsFiniteSet(todo) /\ Cardinality(todo) \in Nat
        /\ Cardinality(todo \ {h}) = Cardinality(todo) - 1 /\ Cardinality(todo \ {h}) \in Nat
    BY <1>3, NodeBounds, FS_Subset, OneMore
  <1>5. sum \in 0..Cardinality(Chunks) /\ sum + Cardinality(todo \ {h}) <= Cardinality(Chunks)
    BY <1>1, <1>3, <1>4, NodeSetsFinite
  <1>6. Present' = Present
    BY <1>3 DEF Present
  <1>7. ASSUME NEW new \in NodeJobs, job' = [job EXCEPT ![j] = new],
               new.at = "idle" \/ /\ new.at = "scan" /\ new.todo = todo \ {h} /\ new.sum = sum
        PROVE  /\ job' \in [Jobs -> NodeJobs] /\ FillsPresent' /\ ScansFit'
               /\ Pending' = Pending /\ JobsAt("uncount")' = JobsAt("uncount")
    <2>1. /\ job'[j] = new /\ \A k \in Jobs \ {j} : job'[k] = job[k]
          /\ \A x : JobsAt(x)' = IF new.at = x THEN JobsAt(x) \cup {j} ELSE JobsAt(x) \ {j}
      BY <1>3, <1>7, JobMoves
    <2>2. FillsPresent'
      BY <1>3, <1>7, <2>1 DEF NodeInv, FillsPresent
    <2>3. ScansFit'
      BY <1>5, <1>7, <2>1 DEF NodeInv, ScansFit
    <2>4. Pending' = Pending /\ JobsAt("uncount")' = JobsAt("uncount")
      BY <1>3, <1>7, <2>1 DEF Pending, JobsAt
    <2>5. QED
      BY <1>3, <1>7, <2>2, <2>3, <2>4 DEF NodeTypeOK
  <1>8. CASE todo # {h}
    <2>1. PICK new : new = [job[j] EXCEPT !.todo = todo \ {h}, !.sum = sum]
      OBVIOUS
    <2>2. /\ new \in [at : {"scan"}, todo : SUBSET Chunks, sum : 0..Cardinality(Chunks)]
          /\ new.at = "scan" /\ new.todo = todo \ {h} /\ new.sum = sum
      BY <1>3, <1>5, <2>1
    <2>3. /\ new \in NodeJobs
          /\ job' = [job EXCEPT ![j] = new] /\ UNCHANGED <<chunkCount, missed>>
      <3>1. job' = [job EXCEPT ![j].todo = todo \ {h}, ![j].sum = sum] /\ UNCHANGED <<chunkCount, missed>>
        BY <1>1, <1>2, <1>8 DEF ScanDirectory
      <3>2. job' = [job EXCEPT ![j] = new]
        BY <1>3, <2>1, <3>1 DEF NodeTypeOK
      <3>3. QED
        BY <2>2, <3>1, <3>2 DEF NodeJobs
    <2>4. QED
      BY <1>3, <1>6, <1>7, <2>2, <2>3 DEF NodeInv, NodeTypeOK, CountBacked
  <1>9. CASE todo = {h}
    <2> DEFINE short == IF sum < Cardinality(Present) THEN Cardinality(Present) - sum ELSE 0
    <2>1. /\ job' = [job EXCEPT ![j] = Idle] /\ chunkCount' = sum
          /\ missed' = short + Cardinality(JobsAt("uncount"))
      BY <1>1, <1>2, <1>9 DEF ScanDirectory, Return
    <2>2. Idle \in NodeJobs /\ Idle.at = "idle"
      BY DEF NodeJobs, Idle
    <2>3. /\ job' \in [Jobs -> NodeJobs] /\ FillsPresent' /\ ScansFit'
          /\ Pending' = Pending /\ JobsAt("uncount")' = JobsAt("uncount")
      BY <1>7, <2>1, <2>2
    <2>4. chunkCount' \in 0..MaxCount /\ missed' \in Nat
      BY <1>5, <2>1, NodeSetsFinite, NodeBounds
    <2>5. CountBacked'
      <3>1. Cardinality(Present) <= sum + short
        BY <1>5, NodeSetsFinite
      <3>2. QED
        BY <1>5, <1>6, <2>1, <2>3, <3>1, NodeSetsFinite DEF CountBacked
    <2>6. QED
      BY <1>3, <2>3, <2>4, <2>5 DEF NodeInv, NodeTypeOK
  <1>10. QED
    BY <1>8, <1>9

\* Every step of the node keeps its invariant.
LEMMA NodeStepInv ==
    ASSUME NodeInv, NEW j \in Jobs, NodeStep(j)
    PROVE  NodeInv'
  BY OpenFileInv, FillFileInv, WriteEndsInv, UnlinkFileInv, CountDeleteInv, StartScanInv,
     ScanDirectoryInv DEF NodeStep

\* So do the steps that leave the node alone.
LEMMA NodeRestsInv ==
    ASSUME NodeInv, UNCHANGED nodeVars
    PROVE  NodeInv'
  BY DEF nodeVars, NodeInv, NodeTypeOK, FillsPresent, ScansFit, CountBacked, Present, Pending, JobsAt

\* The node starts with files that it has not counted.
LEMMA NodeInitInv == NodeInit => NodeInv
  <1> SUFFICES ASSUME NodeInit PROVE NodeInv
    OBVIOUS
  <1>1. NodeTypeOK
    BY NodeBounds, NodeSetsFinite DEF NodeInit, NodeTypeOK, FileStates, NodeJobs
  <1>2. FillsPresent /\ ScansFit
    BY DEF NodeInit, FillsPresent, ScansFit, Idle
  <1>3. JobsAt("uncount") = {} /\ Pending = {}
    BY DEF NodeInit, JobsAt, Pending, Idle
  <1>4. CountBacked
    BY <1>3, NodeSetsFinite, FS_EmptySet DEF NodeInit, CountBacked
  <1>5. QED
    BY <1>1, <1>2, <1>4 DEF NodeInv

(***************************************************************************)
(* The edge cache                                                          *)
(***************************************************************************)

\* The cache has entries for chunks, and not too many.
CacheOK ==
    /\ DOMAIN cache \subseteq Chunks
    /\ \A h \in DOMAIN cache : cache[h] \in Entries
    /\ Cardinality(DOMAIN cache) <= MaxEntries

\* A call of getChunk
IsGet(g) ==
    g \in {NotGetting} \cup [at : {"read"}, chunk : Chunks]
              \cup [at : {"put"}, chunk : Chunks, content : {"partial", "whole"}]

\* An entry that differs from the file is at least as old as the last change
\* of the file, or its last stay on the way to the cache.
CacheAges == \A h \in DOMAIN cache : cache[h].content # disk[h] => settled[h] <= cache[h].age

\* What is on its way is what the node has, unless the file has changed since.
ReadsFresh ==
    \A c \in Clients :
        get[c].at = "put" /\ get[c].content # disk[get[c].chunk] => settled[get[c].chunk] = 0

\* Nobody is fetching an invalidated chunk.
Apart == \A c \in Clients : get[c] # NotGetting => get[c].chunk \notin invalidated

\* The inductive invariant of the gateway and its node
EdgeInv == TypeOK /\ NodeInv /\ CacheAges /\ ReadsFresh /\ Apart /\ InvalidationHolds

\* What a call of getChunk remembers
LEMMA GetFields ==
    ASSUME TypeOK, NEW c \in Clients
    PROVE  /\ IsGet(get[c])
           /\ get[c].at \in {"idle", "read", "put"}
           /\ get[c] # NotGetting <=> get[c].at # "idle"
           /\ get[c].at \in {"read", "put"} => get[c].chunk \in Chunks
           /\ get[c].at = "put" => get[c].content \in {"partial", "whole"}
  <1>1. get[c] \in {NotGetting} \cup [at : {"read"}, chunk : Chunks]
              \cup [at : {"put"}, chunk : Chunks, content : {"partial", "whole"}]
    BY DEF TypeOK
  <1>2. NotGetting.at = "idle"
    BY DEF NotGetting
  <1>3. QED
    BY <1>1, <1>2 DEF IsGet

\* A cache that loses entries, or dates them, stays one.
LEMMA CacheShrinks ==
    ASSUME EdgeInv, DOMAIN cache' \subseteq DOMAIN cache,
           \A h \in DOMAIN cache' : /\ cache'[h] \in Entries
                                    /\ cache'[h].content = cache[h].content
                                    /\ cache'[h].age = cache[h].age,
           UNCHANGED <<disk, settled>>
    PROVE  CacheOK' /\ CacheAges'
  <1>1. /\ DOMAIN cache \subseteq Chunks /\ Cardinality(DOMAIN cache) <= MaxEntries
        /\ MaxEntries \in Nat
    BY CacheAssumption DEF EdgeInv, TypeOK
  <1>2. IsFiniteSet(DOMAIN cache)
    BY <1>1, NodeBounds, FS_Subset
  <1>3. /\ Cardinality(DOMAIN cache') <= Cardinality(DOMAIN cache)
        /\ Cardinality(DOMAIN cache') \in Nat /\ Cardinality(DOMAIN cache) \in Nat
    BY <1>2, FS_Subset, FS_CardinalityType
  <1>4. CacheOK'
    BY <1>1, <1>3 DEF CacheOK
  <1>5. CacheAges'
    BY DEF EdgeInv, CacheAges
  <1>6. QED
    BY <1>4, <1>5

\* Without loses the entries it is given and keeps the others.
LEMMA WithoutKeeps ==
    ASSUME NEW S
    PROVE  /\ DOMAIN Without(S) = DOMAIN cache \ S
           /\ \A h \in DOMAIN cache \ S : Without(S)[h] = cache[h]
  BY DEF Without

\* getChunk: a hit is dated, an expired entry is deleted and fetched.
LEMMA GetChunkInv ==
    ASSUME EdgeInv, NEW c \in Clients, NEW h \in Chunks, GetChunk(c, h)
    PROVE  EdgeInv'
  <1>1. /\ get[c] = NotGetting /\ UNCHANGED <<nodeVars, fileVersionChunks, settled>>
        /\ TypeOK /\ NodeInv'
    BY NodeRestsInv DEF GetChunk, EdgeInv
  <1>2. UNCHANGED disk
    BY <1>1 DEF nodeVars
  <1>3. CASE Usable(h)
    <2>1. cache' = [cache EXCEPT ![h].idle = 0] /\ UNCHANGED <<get, invalidated>>
      BY <1>3 DEF GetChunk
    <2>2. \A e \in Entries : /\ [e EXCEPT !.idle = 0] \in Entries
                             /\ [e EXCEPT !.idle = 0].content = e.content
                             /\ [e EXCEPT !.idle = 0].age = e.age
      BY CacheAssumption DEF Entries
    <2>3. /\ DOMAIN cache' = DOMAIN cache
          /\ cache'[h] = [cache[h] EXCEPT !.idle = 0]
          /\ \A k \in DOMAIN cache : k # h => cache'[k] = cache[k]
      BY <1>3, <2>1 DEF Usable
    <2>4. \A k \in DOMAIN cache' : /\ cache'[k] \in Entries
                                   /\ cache'[k].content = cache[k].content
                                   /\ cache'[k].age = cache[k].age
      <3>1. h \in DOMAIN cache /\ \A k \in DOMAIN cache : cache[k] \in Entries
        BY <1>1, <1>3 DEF TypeOK, Usable
      <3>2. /\ cache'[h] \in Entries
            /\ cache'[h].content = cache[h].content /\ cache'[h].age = cache[h].age
        BY <2>2, <2>3, <3>1
      <3>3. QED
        BY <2>3, <3>1, <3>2
    <2>5. CacheOK' /\ CacheAges'
      BY <1>1, <1>2, <2>3, <2>4, CacheShrinks
    <2>6. TypeOK'
      BY <1>1, <2>1, <2>5 DEF TypeOK, CacheOK, NodeInv
    <2>7. ReadsFresh' /\ Apart' /\ InvalidationHolds'
      BY <1>1, <1>2, <2>1, <2>3 DEF EdgeInv, ReadsFresh, Apart, InvalidationHolds
    <2>8. QED
      BY <1>1, <2>5, <2>6, <2>7 DEF EdgeInv
  <1>4. CASE ~ Usable(h)
    <2>1. PICK new : new = [at |-> "read", chunk |-> h]
      OBVIOUS
    <2>2. IsGet(new) /\ new.at = "read" /\ new.chunk = h
      BY <2>1 DEF IsGet
    <2>3. /\ cache' = Without({h}) /\ get' = [get EXCEPT ![c] = new]
          /\ invalidated' = invalidated \ {h}
      BY <1>4, <2>1 DEF GetChunk
    <2>4. /\ DOMAIN cache' = DOMAIN cache \ {h}
          /\ \A k \in DOMAIN cache' : cache'[k] = cache[k]
      BY <2>3, WithoutKeeps
    <2>5. CacheOK' /\ CacheAges'
      BY <1>1, <1>2, <2>4, CacheShrinks DEF TypeOK
    <2>6. get'[c] = new /\ \A d \in Clients \ {c} : get'[d] = get[d]
      BY <1>1, <2>3 DEF TypeOK
    <2>7. TypeOK'
      BY <1>1, <2>2, <2>3, <2>5 DEF TypeOK, CacheOK, NodeInv, IsGet
    <2>8. ReadsFresh' /\ Apart' /\ InvalidationHolds'
      BY <1>1, <1>2, <2>2, <2>3, <2>4, <2>6 DEF EdgeInv, ReadsFresh, Apart, InvalidationHolds
    <2>9. QED
      BY <1>1, <2>5, <2>7, <2>8 DEF EdgeInv
  <1>5. QED
    BY <1>3, <1>4

\* readChunk: what is read is what the node has.
LEMMA ReadFileInv ==
    ASSUME EdgeInv, NEW c \in Clients, ReadFile(c)
    PROVE  EdgeInv'
  <1>1. /\ get[c].at = "read" /\ UNCHANGED <<nodeVars, cache, fileVersionChunks, settled, invalidated>>
        /\ TypeOK /\ NodeInv'
    BY NodeRestsInv DEF ReadFile, EdgeInv
  <1>2. UNCHANGED disk /\ get[c].chunk \in Chunks
    BY <1>1, GetFields DEF nodeVars
  <1>3. PICK h \in Chunks : h = get[c].chunk
    BY <1>2
  <1>4. disk[h] \in FileStates /\ h \notin invalidated
    BY <1>1, <1>3, GetFields DEF TypeOK, NodeTypeOK, EdgeInv, Apart
  <1>5. PICK new : new = IF disk[h] = "none" THEN NotGetting
                         ELSE [at |-> "put", chunk |-> h, content |-> disk[h]]
    OBVIOUS
  <1>6. /\ IsGet(new) /\ new.at \in {"idle", "put"}
        /\ new.at = "put" => new.chunk = h /\ new.content = disk[h]
        /\ new = NotGetting <=> new.at = "idle"
    BY <1>4, <1>5 DEF IsGet, FileStates, NotGetting
  <1>7. get' = [get EXCEPT ![c] = new]
    BY <1>3, <1>5 DEF ReadFile
  <1>8. get'[c] = new /\ \A d \in Clients \ {c} : get'[d] = get[d]
    BY <1>1, <1>7 DEF TypeOK
  <1>9. TypeOK'
    BY <1>1, <1>6, <1>7 DEF TypeOK, NodeInv, IsGet
  <1>10. ReadsFresh' /\ Apart'
    BY <1>1, <1>2, <1>4, <1>6, <1>8 DEF EdgeInv, ReadsFresh, Apart
  <1>11. CacheAges' /\ InvalidationHolds'
    BY <1>1, <1>2 DEF EdgeInv, CacheAges, InvalidationHolds
  <1>12. QED
    BY <1>1, <1>9, <1>10, <1>11 DEF EdgeInv

\* putCache: there is room for the entry, or the oldest one makes it.
LEMMA PutCacheInv ==
    ASSUME EdgeInv, NEW c \in Clients, PutCache(c)
    PROVE  EdgeInv'
  <1>1. /\ get[c].at = "put" /\ UNCHANGED <<nodeVars, fileVersionChunks, settled, invalidated>>
        /\ get' = [get EXCEPT ![c] = NotGetting]
        /\ TypeOK /\ NodeInv'
    BY NodeRestsInv DEF PutCache, EdgeInv
  <1>2. UNCHANGED disk /\ get[c].chunk \in Chunks /\ get[c].content \in {"partial", "whole"}
    BY <1>1, GetFields DEF nodeVars
  <1>3. PICK h \in Chunks : h = get[c].chunk
    BY <1>2
  <1>4. PICK entry : entry = [content |-> get[c].content, age |-> 0, idle |-> 0]
    OBVIOUS
  <1>5. entry \in Entries /\ entry.content = get[c].content /\ entry.age = 0
    BY <1>2, <1>4, CacheAssumption DEF Entries, Expired
  <1>6. /\ DOMAIN cache \subseteq Chunks /\ IsFiniteSet(DOMAIN cache)
        /\ Cardinality(DOMAIN cache) \in Nat /\ MaxEntries \in Nat \ {0}
        /\ Cardinality(DOMAIN cache) <= MaxEntries
        /\ \A k \in DOMAIN cache : cache[k] \in Entries
    BY <1>1, NodeBounds, CacheAssumption, FS_Subset, FS_CardinalityType DEF TypeOK
  <1>7. PICK kept :
           /\ cache' = [k \in DOMAIN kept \cup {h} |-> IF k = h THEN entry ELSE kept[k]]
           /\ DOMAIN kept \subseteq DOMAIN cache /\ \A k \in DOMAIN kept : kept[k] = cache[k]
           /\ Cardinality(DOMAIN kept) < MaxEntries
    <2>1. CASE Full
      <3>1. PICK victim \in Oldest :
               cache' = [k \in DOMAIN Without({victim}) \cup {h} |->
                            IF k = h THEN entry ELSE Without({victim})[k]]
        BY <1>3, <1>4, <2>1 DEF PutCache
      <3>2. victim \in DOMAIN cache
        BY DEF Oldest
      <3>3. Cardinality(DOMAIN cache \ {victim}) < MaxEntries
        BY <1>6, <3>2, OneMore
      <3>4. QED
        BY <3>1, <3>3, WithoutKeeps
    <2>2. CASE ~ Full
      <3>1. cache' = [k \in DOMAIN cache \cup {h} |-> IF k = h THEN entry ELSE cache[k]]
        BY <1>3, <1>4, <2>2 DEF PutCache
      <3>2. Cardinality(DOMAIN cache) < MaxEntries
        BY <1>6, <2>2 DEF Full
      <3>3. QED
        BY <3>1, <3>2
    <2>3. QED
      BY <2>1, <2>2
  <1>8. /\ DOMAIN cache' = DOMAIN kept \cup {h} /\ cache'[h] = entry
        /\ \A k \in DOMAIN kept : k # h => cache'[k] = cache[k]
    BY <1>7
  <1>9. CacheOK'
    <2>1. IsFiniteSet(DOMAIN kept)
      BY <1>6, <1>7, FS_Subset
    <2>2. Cardinality(DOMAIN kept \cup {h}) <= MaxEntries
      <3>1. /\ Cardinality(DOMAIN kept) \in Nat /\ Cardinality(DOMAIN kept \cup {h}) \in Nat
            /\ Cardinality(DOMAIN kept \cup {h}) <= Cardinality(DOMAIN kept) + 1
        BY <2>1, OneMore
      <3>2. QED
        BY <1>6, <1>7, <3>1
    <2>3. QED
      BY <1>5, <1>6, <1>7, <1>8, <2>2 DEF CacheOK
  <1>10. CacheAges'
    <2>1. entry.content # disk[h] => settled[h] = 0
      BY <1>1, <1>3, <1>5 DEF EdgeInv, ReadsFresh
    <2>2. QED
      BY <1>1, <1>2, <1>5, <1>7, <1>8, <2>1 DEF EdgeInv, CacheAges
  <1>11. get'[c] = NotGetting /\ \A d \in Clients \ {c} : get'[d] = get[d]
    BY <1>1 DEF TypeOK
  <1>12. TypeOK'
    BY <1>1, <1>9 DEF TypeOK, CacheOK, NodeInv
  <1>13. ReadsFresh' /\ Apart'
    BY <1>1, <1>2, <1>11 DEF EdgeInv, ReadsFresh, Apart, NotGetting
  <1>14. InvalidationHolds'
    BY <1>1, <1>3, <1>7, <1>8, GetFields DEF EdgeInv, Apart, InvalidationHolds
  <1>15. QED
    BY <1>1, <1>10, <1>12, <1>13, <1>14 DEF EdgeInv

\* A version is registered, or its chunks are taken out of the cache.
LEMMA VersionChunksInv ==
    ASSUME EdgeInv, NEW v \in FileVersions,
           InvalidateCache(v) \/ \E hashes \in VersionContents : RegisterFileVersion(v, hashes)
    PROVE  EdgeInv'
  <1>1. TypeOK /\ NodeInv' /\ UNCHANGED <<disk, settled, get>> /\ UNCHANGED nodeVars
    BY NodeRestsInv DEF InvalidateCache, RegisterFileVersion, EdgeInv, nodeVars
  <1>2. ReadsFresh'
    BY <1>1 DEF EdgeInv, ReadsFresh
  <1>3. ASSUME NEW hashes \in VersionContents, RegisterFileVersion(v, hashes)
        PROVE  EdgeInv'
    <2>1. UNCHANGED <<cache, invalidated>>
      BY <1>3 DEF RegisterFileVersion
    <2>2. TypeOK'
      BY <1>1, <1>3, <2>1 DEF RegisterFileVersion, TypeOK, NodeInv
    <2>3. CacheAges' /\ Apart' /\ InvalidationHolds'
      BY <1>1, <2>1 DEF EdgeInv, CacheAges, Apart, InvalidationHolds
    <2>4. QED
      BY <1>1, <1>2, <2>2, <2>3 DEF EdgeInv
  <1>4. CASE InvalidateCache(v)
    <2>1. PICK S : S = fileVersionChunks[v]
      OBVIOUS
    <2>2. S \in SUBSET Chunks
      BY <1>1, <2>1, CacheAssumption DEF TypeOK
    <2>3. /\ cache' = Without(S)
          /\ fileVersionChunks' = [fileVersionChunks EXCEPT ![v] = {}]
          /\ invalidated' = invalidated \cup
                 {h \in S : \A c \in Clients : get[c] = NotGetting \/ get[c].chunk # h}
      BY <1>4, <2>1 DEF InvalidateCache
    <2>4. /\ DOMAIN cache' = DOMAIN cache \ S
          /\ \A k \in DOMAIN cache' : cache'[k] = cache[k]
      BY <2>3, WithoutKeeps
    <2>5. CacheOK' /\ CacheAges'
      BY <1>1, <2>4, CacheShrinks DEF TypeOK
    <2>6. TypeOK'
      BY <1>1, <2>2, <2>3, <2>5 DEF TypeOK, CacheOK, NodeInv
    <2>7. Apart' /\ InvalidationHolds'
      BY <1>1, <2>3, <2>4 DEF EdgeInv, Apart, InvalidationHolds
    <2>8. QED
      BY <1>1, <1>2, <2>5, <2>6, <2>7 DEF EdgeInv
  <1>5. QED
    BY <1>3, <1>4

\* Entries and files age together, but for a file on its way to the cache.
LEMMA TickInv ==
    ASSUME EdgeInv, Tick
    PROVE  EdgeInv'
  <1>1. /\ TypeOK /\ NodeInv' /\ UNCHANGED <<disk, get, fileVersionChunks, invalidated>>
        /\ TTL \in Nat /\ Expired \in Nat
    <2>1. UNCHANGED nodeVars /\ UNCHANGED <<get, fileVersionChunks, invalidated>>
      BY DEF Tick
    <2>2. NodeInv' /\ UNCHANGED disk
      BY <2>1, NodeRestsInv DEF EdgeInv, nodeVars
    <2>3. TTL \in Nat /\ Expired \in Nat
      BY CacheAssumption DEF Expired
    <2>4. QED
      BY <2>1, <2>2, <2>3 DEF EdgeInv
  <1>2. \A bound \in Nat : \A t \in 0..bound : Later(t, bound) \in 0..bound
    BY DEF Later
  <1>3. \A s, t \in 0..Expired : s <= t => Later(s, Expired) <= Later(t, Expired)
    BY <1>1 DEF Later
  <1>4. ASSUME NEW h \in DOMAIN cache
        PROVE  /\ h \in DOMAIN cache' /\ cache'[h] \in Entries
               /\ cache'[h].content = cache[h].content
               /\ cache'[h].age = Later(cache[h].age, Expired)
    <2>1. cache[h] \in Entries
      BY <1>1 DEF TypeOK
    <2>2. /\ Later(cache[h].age, Expired) \in 0..Expired
          /\ Later(cache[h].idle, TTL) \in 0..TTL
      BY <1>1, <1>2, <2>1 DEF Entries
    <2>3. PICK aged : aged = [cache[h] EXCEPT !.age = Later(@, Expired), !.idle = Later(@, TTL)]
      OBVIOUS
    <2>4. /\ aged \in Entries /\ aged.content = cache[h].content
          /\ aged.age = Later(cache[h].age, Expired)
      BY <2>1, <2>2, <2>3 DEF Entries
    <2>5. cache'[h] = aged /\ h \in DOMAIN cache'
      BY <2>3 DEF Tick
    <2>6. QED
      BY <2>4, <2>5
  <1>5. DOMAIN cache' = DOMAIN cache
    BY DEF Tick
  <1>6. settled' = [h \in Chunks |-> IF InFlight(h) THEN 0 ELSE Later(settled[h], Expired)]
    BY DEF Tick
  <1>7. settled \in [Chunks -> 0..Expired] /\ settled' \in [Chunks -> 0..Expired]
    BY <1>1, <1>2, <1>6 DEF TypeOK
  <1>8. TypeOK'
    BY <1>1, <1>4, <1>5, <1>7 DEF TypeOK, NodeInv
  <1>9. CacheAges'
    <2>1. ASSUME NEW h \in DOMAIN cache, cache[h].content # disk[h]
          PROVE  settled'[h] <= cache'[h].age
      <3>1. /\ h \in Chunks /\ settled[h] \in 0..Expired /\ cache[h].age \in 0..Expired
            /\ settled[h] <= cache[h].age
        BY <1>1, <1>7, <2>1 DEF EdgeInv, CacheAges, TypeOK, Entries
      <3>2. Later(settled[h], Expired) <= Later(cache[h].age, Expired)
        BY <1>3, <3>1
      <3>3. Later(cache[h].age, Expired) \in 0..Expired
        BY <1>1, <1>2, <3>1
      <3>4. QED
        BY <1>4, <1>6, <3>1, <3>2, <3>3
    <2>2. QED
      BY <1>1, <1>4, <1>5, <2>1 DEF CacheAges
  <1>10. ReadsFresh'
    <2>1. ASSUME NEW c \in Clients, get[c].at = "put"
          PROVE  settled'[get[c].chunk] = 0
      BY <1>1, <1>6, <2>1, GetFields DEF InFlight
    <2>2. QED
      BY <1>1, <2>1 DEF ReadsFresh
  <1>11. Apart' /\ InvalidationHolds'
    BY <1>1, <1>5 DEF EdgeInv, Apart, InvalidationHolds
  <1>12. QED
    BY <1>1, <1>8, <1>9, <1>10, <1>11 DEF EdgeInv

\* A file that changes starts its lifetime anew.
LEMMA NodeWorksInv ==
    ASSUME EdgeInv, NodeWorks
    PROVE  EdgeInv'
  <1>1. TypeOK /\ NodeInv' /\ UNCHANGED <<cache, fileVersionChunks, get, invalidated>> /\ Settle
    BY NodeStepInv DEF NodeWorks, EdgeInv, edgeVars
  <1>2. settled' = [h \in Chunks |-> IF disk'[h] # disk[h] THEN 0 ELSE settled[h]]
    BY <1>1 DEF Settle
  <1>3. settled \in [Chunks -> 0..Expired] /\ settled' \in [Chunks -> 0..Expired]
    BY <1>1, <1>2, CacheAssumption DEF TypeOK, Expired
  <1>4. TypeOK'
    BY <1>1, <1>3 DEF TypeOK, NodeInv
  <1>5. CacheAges'
    <2>1. ASSUME NEW h \in DOMAIN cache, cache[h].content # disk'[h]
          PROVE  settled'[h] <= cache[h].age
      <3>1. h \in Chunks /\ cache[h].age \in Nat
        BY <1>1, CacheAssumption DEF TypeOK, Entries, Expired
      <3>2. QED
        BY <1>2, <2>1, <3>1 DEF EdgeInv, CacheAges
    <2>2. QED
      BY <1>1, <2>1 DEF CacheAges
  <1>6. ReadsFresh'
    <2>1. \A c \in Clients : get[c].at = "put" => get[c].chunk \in Chunks
      BY <1>1, GetFields
    <2>2. QED
      BY <1>1, <1>2, <2>1 DEF EdgeInv, ReadsFresh
  <1>7. Apart' /\ InvalidationHolds'
    BY <1>1 DEF EdgeInv, Apart, InvalidationHolds
  <1>8. QED
    BY <1>1, <1>4, <1>5, <1>6, <1>7 DEF EdgeInv

\* Every step keeps the invariant.
LEMMA EdgeStepInv == EdgeInv /\ [Next]_vars => EdgeInv'
  <1> SUFFICES ASSUME EdgeInv, [Next]_vars PROVE EdgeInv'
    OBVIOUS
  <1>1. CASE UNCHANGED vars
    <2>1. /\ NodeInv' /\ UNCHANGED nodeVars /\ UNCHANGED disk
          /\ UNCHANGED <<cache, fileVersionChunks, get, settled, invalidated>>
      BY <1>1, NodeRestsInv DEF vars, EdgeInv, nodeVars
    <2>2. TypeOK'
      BY <2>1 DEF EdgeInv, TypeOK, NodeInv
    <2>3. QED
      BY <2>1, <2>2 DEF EdgeInv, CacheAges, ReadsFresh, Apart, InvalidationHolds
  <1>2. QED
    BY <1>1, GetChunkInv, ReadFileInv, PutCacheInv, VersionChunksInv, TickInv, NodeWorksInv DEF Next

\* It holds at the start.
LEMMA EdgeInitInv == Init => EdgeInv
  <1> SUFFICES ASSUME Init PROVE EdgeInv
    OBVIOUS
  <1>1. NodeInv
    BY NodeInitInv DEF Init
  <1>2. DOMAIN cache = {} /\ Cardinality(DOMAIN cache) = 0
    BY FS_EmptySet DEF Init
  <1>3. TypeOK
    BY <1>1, <1>2, CacheAssumption DEF Init, TypeOK, NodeInv, Expired
  <1>4. CacheAges /\ InvalidationHolds
    BY <1>2 DEF CacheAges, InvalidationHolds
  <1>5. ReadsFresh /\ Apart
    BY DEF Init, ReadsFresh, Apart, NotGetting
  <1>6. QED
    BY <1>1, <1>3, <1>4, <1>5 DEF EdgeInv

-----------------------------------------------------------------------------
(* Theorems *)

\* The cache never exceeds its size, the node's counter its range, and every
\* call remembers what it should.
THEOREM EdgeTypeCorrect == Spec => []TypeOK
  <1>1. EdgeInv => TypeOK
    BY DEF EdgeInv
  <1>2. QED
    BY <1>1, EdgeInitInv, EdgeStepInv, PTL DEF Spec

\* A deleted or half-written chunk is delivered from the cache for at most the
\* TTL after the node has come to rest.
THEOREM WrongContentDoesExpire == Spec => []WrongContentExpires
  <1>1. EdgeInv => WrongContentExpires
    <2>1. SUFFICES ASSUME EdgeInv, NEW h \in Chunks, settled[h] = Expired, Usable(h),
                          cache[h].content # disk[h]
                   PROVE  FALSE
      BY DEF WrongContentExpires
    <2>2. Expired <= cache[h].age /\ cache[h].age < Expired
      BY <2>1 DEF EdgeInv, CacheAges, Usable
    <2>3. cache[h].age \in Nat /\ Expired \in Nat
      BY <2>1, CacheAssumption DEF EdgeInv, TypeOK, Usable, Entries, Expired
    <2>4. QED
      BY <2>2, <2>3
  <1>2. QED
    BY <1>1, EdgeInitInv, EdgeStepInv, PTL DEF Spec

\* No late answer brings an invalidated chunk back that nobody was fetching
\* and nobody has asked for.
THEOREM InvalidatedStaysOut == Spec => []InvalidationHolds
  <1>1. EdgeInv => InvalidationHolds
    BY DEF EdgeInv
  <1>2. QED
    BY <1>1, EdgeInitInv, EdgeStepInv, PTL DEF Spec

\* The counter covers the files of the node however its calls overlap.
THEOREM CounterCoversFiles == Spec => []CountCoversFiles
  <1>1. EdgeInv => CountCoversFiles
    <2>1. SUFFICES ASSUME EdgeInv PROVE CountCoversFiles
      OBVIOUS
    <2>2. /\ Cardinality(Present) + Cardinality(JobsAt("uncount")) <=
                chunkCount + missed + Cardinality(Pending)
          /\ chunkCount \in Int /\ missed \in Int
      BY <2>1, NodeBounds DEF EdgeInv, NodeInv, NodeTypeOK, CountBacked
    <2>3. QED
      BY <2>2, NodeSetsFinite DEF CountCoversFiles, Pending
  <1>2. QED
    BY <1>1, EdgeInitInv, EdgeStepInv, PTL DEF Spec
===============================================================================
