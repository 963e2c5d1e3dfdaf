---------------------------- MODULE ChunkServer -----------------------------
(***************************************************************************)
(* The storage node service over HTTP: one file per chunk, and a counter   *)
(* of the files.  A request is handled in one step, since the handler      *)
(* uses synchronous file operations only; a step may fail half way.        *)
(***************************************************************************)
EXTENDS Naturals, FiniteSets

CONSTANTS
    Chunks,
    MaxFailures      \* bound: how many disk operations fail or files decay

ASSUME ServerAssumption == IsFiniteSet(Chunks) /\ MaxFailures \in Nat

VARIABLES
    disk,            \* disk[h]: the file of chunk h
    chunkCount,      \* metrics.chunkCount
    damaged,         \* history: chunks whose file was torn or has decayed
    failures

serverVars == <<disk, chunkCount, damaged, failures>>

\* "bad": bytes that do not have the hash that names the file.
FileStates == {"none", "good", "bad"}
Present == {h \in Chunks : disk[h] # "none"}

ServerTypeOK ==
    /\ disk \in [Chunks -> FileStates]
    /\ chunkCount \in 0..Cardinality(Chunks)
    /\ damaged \subseteq Chunks
    /\ failures \in 0..MaxFailures

ServerInit ==
    /\ disk = [h \in Chunks |-> "none"]
    /\ chunkCount = 0
    /\ damaged = {}
    /\ failures = 0

Failure == failures < MaxFailures /\ failures' = failures + 1

\* calculateUsedSpace
Recount == chunkCount' = Cardinality(Present')

\* The file of h as an interrupted write leaves it.
Torn(h) ==
    \E left \in FileStates :
        /\ disk' = [disk EXCEPT ![h] = left]
        /\ damaged' = IF left = "bad" THEN damaged \cup {h} ELSE damaged

\* Mutant of HashMatches: the body is stored as it came.
AnyBody(intact) == TRUE

\* The hash of the body is the one in the URL.
HashMatches(intact) == intact

\* PUT /chunks/h: refused, or acknowledged since there is a file, or written.
WriteChunk(h, intact, answer) ==
    \/ /\ ~ HashMatches(intact) \/ disk[h] # "none"
       /\ answer = IF HashMatches(intact) THEN "ok" ELSE "error"
       /\ UNCHANGED serverVars
    \/ /\ HashMatches(intact) /\ disk[h] = "none"
       /\ answer = "ok"
       /\ disk' = [disk EXCEPT ![h] = IF intact THEN "good" ELSE "bad"]
       /\ Recount
       /\ UNCHANGED <<damaged, failures>>
    \/ /\ HashMatches(intact) /\ disk[h] = "none"
       /\ Failure
       /\ answer = "error"
       /\ Torn(h)
       /\ UNCHANGED chunkCount

\* GET /chunks/h, and POST /chunks/h/verify, whose answer does not matter to
\* the node: only a GET verifies what it sends.
ReadChunk(h, answer) ==
    /\ answer = IF disk[h] = "good" THEN "ok" ELSE "error"
    /\ UNCHANGED serverVars
VerifyChunk(h, answer) ==
    /\ answer = IF disk[h] # "none" THEN "ok" ELSE "error"
    /\ UNCHANGED serverVars

\* DELETE /chunks/h: not found, removed, or failing before or after it.
RemoveChunk(h, answer) ==
    \/ /\ disk[h] = "none"
       /\ answer = "error"
       /\ UNCHANGED serverVars
    \/ /\ disk[h] # "none"
       /\ answer = "ok"
       /\ disk' = [disk EXCEPT ![h] = "none"]
       /\ damaged' = damaged \ {h}
       /\ Recount
       /\ UNCHANGED failures
    \/ /\ disk[h] # "none"
       /\ Failure
       /\ answer = "error"
       /\ \/ UNCHANGED <<disk, damaged>>
          \/ disk' = [disk EXCEPT ![h] = "none"] /\ damaged' = damaged \ {h}
       /\ UNCHANGED chunkCount

\* The service ends, maybe while it was writing h, and starts again.
Crash(h, writing) ==
    /\ Failure
    /\ IF writing /\ disk[h] = "none" THEN Torn(h) ELSE UNCHANGED <<disk, damaged>>
    /\ Recount

\* Bits rot.
Decay(h) ==
    /\ Failure
    /\ disk[h] = "good"
    /\ disk' = [disk EXCEPT ![h] = "bad"]
    /\ damaged' = damaged \cup {h}
    /\ UNCHANGED chunkCount
=============================================================================
