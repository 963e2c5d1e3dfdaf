---------------------------- MODULE StorageNode -----------------------------
(***************************************************************************)
(* The files of a storage node and the counter it keeps of them.  A file   *)
(* operation takes effect on the disk in one step, and the code behind its *)
(* await runs in another.                                                  *)
(***************************************************************************)
EXTENDS Integers, FiniteSets

CONSTANTS
    Chunks,
    Jobs,            \* calls of the node that run at the same time
    MaxCount,        \* bound of chunkCount
    MaxFailures      \* bound: how many file operations fail

ASSUME NodeBounds ==
    /\ IsFiniteSet(Chunks) /\ IsFiniteSet(Jobs)
    /\ MaxCount \in Nat /\ Cardinality(Chunks) <= MaxCount
    /\ MaxFailures \in Nat

VARIABLES
    disk,            \* disk[h]: the file of chunk h
    chunkCount,
    job,             \* what each call on the node does next
    missed,          \* history: files that the counter may be short of
    failures

nodeVars == <<disk, chunkCount, job, missed, failures>>

FileStates == {"none", "partial", "whole"}
Present == {h \in Chunks : disk[h] # "none"}

Idle == [at |-> "idle"]
NodeJobs ==
    {Idle} \cup [at : {"fill"}, chunk : Chunks] \cup [at : {"void", "count", "uncount"}]
           \cup [at : {"scan"}, todo : SUBSET Chunks, sum : 0..Cardinality(Chunks)]

NodeTypeOK ==
    /\ disk \in [Chunks -> FileStates]
    /\ chunkCount \in 0..MaxCount
    /\ job \in [Jobs -> NodeJobs]
    /\ missed \in Nat
    /\ failures \in 0..MaxFailures

\* A process that starts does not count the files that are there.
NodeInit ==
    /\ disk \in [Chunks -> {"none", "whole"}]
    /\ chunkCount = 0
    /\ job = [j \in Jobs |-> Idle]
    /\ missed = Cardinality(Present)
    /\ failures = 0

JobsAt(at) == {j \in Jobs : job[j].at = at}
Return(j) == job' = [job EXCEPT ![j] = Idle]

-----------------------------------------------------------------------------
(* writeChunk *)

\* mkdir is done, and writeFile opens the file: what was in it is gone.
OpenFile(j, h) ==
    /\ job[j] = Idle
    /\ disk' = [disk EXCEPT ![h] = "partial"]
    /\ job' = [job EXCEPT ![j] = [at |-> "fill", chunk |-> h]]
    /\ UNCHANGED <<chunkCount, missed, failures>>

\* All is written; another writeFile that has the file open may not have got
\* as far.  What was unlinked meanwhile is written for nothing.
FillFile(j) ==
    /\ \/ job[j].at = "fill" /\ disk' = [disk EXCEPT ![job[j].chunk] = "whole"]
       \/ /\ job[j].at = "fill"
          /\ \E k \in JobsAt("fill") \ {j} : job[k].chunk = job[j].chunk
          /\ UNCHANGED disk
       \/ job[j].at = "void" /\ UNCHANGED disk
    /\ job' = [job EXCEPT ![j] = [at |-> "count"]]
    /\ UNCHANGED <<chunkCount, missed, failures>>

\* Mutant of Counted: a file that was there before is not counted again.
CountedOnce == IF chunkCount < Cardinality(Present) THEN chunkCount + 1 ELSE chunkCount

Counted == chunkCount + 1

\* Behind the await of writeFile
CountWrite(j) ==
    /\ job[j].at = "count"
    /\ chunkCount < MaxCount
    /\ chunkCount' = Counted
    /\ Return(j)
    /\ UNCHANGED <<disk, missed, failures>>

\* writeFile is rejected; the file stays as it is.
WriteFails(j) ==
    /\ job[j].at \in {"fill", "void"}
    /\ failures < MaxFailures
    /\ failures' = failures + 1
    /\ missed' = missed + 1
    /\ Return(j)
    /\ UNCHANGED <<disk, chunkCount>>

-----------------------------------------------------------------------------
(* deleteChunk *)

\* unlink.  Without a file there is nothing to do, and no error.
UnlinkFile(j, h) ==
    /\ job[j] = Idle
    /\ disk[h] # "none"
    /\ disk' = [disk EXCEPT ![h] = "none"]
    /\ job' = [k \in Jobs |-> IF k = j THEN [at |-> "uncount"]
                            ELSE IF job[k].at = "fill" /\ job[k].chunk = h
                            THEN [at |-> "void"] ELSE job[k]]
    /\ UNCHANGED <<chunkCount, missed, failures>>

\* Math.max(0, this.chunkCount - 1), behind the await of unlink
CountDelete(j) ==
    /\ job[j].at = "uncount"
    /\ chunkCount' = IF chunkCount > 0 THEN chunkCount - 1 ELSE 0
    /\ Return(j)
    /\ UNCHANGED <<disk, missed, failures>>

-----------------------------------------------------------------------------
(* getChunkCount *)

StartScan(j) ==
    /\ job[j] = Idle
    /\ job' = [job EXCEPT ![j] = [at |-> "scan", todo |-> Chunks, sum |-> 0]]
    /\ UNCHANGED <<disk, chunkCount, missed, failures>>

\* readdir of one directory after the other, while files come and go.  The
\* counter misses what was written to a directory that was read before, and
\* the deletions that will still be subtracted.
ScanDirectory(j, h) ==
    LET sum == job[j].sum + IF disk[h] = "none" THEN 0 ELSE 1
        short == IF sum < Cardinality(Present) THEN Cardinality(Present) - sum ELSE 0
    IN  /\ job[j].at = "scan"
        /\ h \in job[j].todo
        /\ IF job[j].todo = {h}
           THEN /\ chunkCount' = sum
                /\ missed' = short + Cardinality(JobsAt("uncount"))
                /\ Return(j)
           ELSE /\ job' = [job EXCEPT ![j].todo = @ \ {h}, ![j].sum = sum]
                /\ UNCHANGED <<chunkCount, missed>>
        /\ UNCHANGED <<disk, failures>>

NodeStep(j) ==
    \/ \E h \in Chunks : OpenFile(j, h) \/ UnlinkFile(j, h) \/ ScanDirectory(j, h)
    \/ FillFile(j) \/ CountWrite(j) \/ WriteFails(j)
    \/ CountDelete(j)
    \/ StartScan(j)

\* The counter that the health of the node reports is at least the number of
\* its files, however writes, overwrites and deletions overlap, but for the
\* files of earlier processes, failed writes and what a scan has missed.
CountCoversFiles ==
    Cardinality(Present) <=
        chunkCount + missed + Cardinality(JobsAt("fill") \cup JobsAt("void") \cup JobsAt("count"))
=============================================================================
