-------------------------- MODULE VersioningProofs --------------------------
(***************************************************************************)
(* Proofs about VersionManager and, in the second half, about the          *)
(* collector that GarbageCollection adds to it: for any files, chunks,     *)
(* contents, callers, nodes, clients and bounds.                           *)
(***************************************************************************)
EXTENDS GarbageCollection, FiniteSetTheorems, SequenceTheorems, TLAPS

-----------------------------------------------------------------------------
(* What the statements of module Tables do to a table with typed rows. *)

\* INSERT keeps a table a table and adds exactly the inserted key.
LEMMA InsertRowIsTable ==
    ASSUME NEW K, NEW R, NEW t, IsTable(t, K, R), NEW k \in K, NEW row \in R
    PROVE  /\ IsTable(InsertRow(t, k, row), K, R)
           /\ DOMAIN InsertRow(t, k, row) = DOMAIN t \cup {k}
  BY FS_AddElement DEF IsTable, InsertRow

\* DELETE keeps a table a table and removes exactly the given keys.
LEMMA DeleteRowsIsTable ==
    ASSUME NEW K, NEW R, NEW t, IsTable(t, K, R), NEW S
    PROVE  /\ IsTable(DeleteRows(t, S), K, R)
           /\ DOMAIN DeleteRows(t, S) = DOMAIN t \ S
           /\ \A k \in DOMAIN t \ S : DeleteRows(t, S)[k] = t[k]
  BY FS_Difference DEF IsTable, DeleteRows

\* The table without rows.
LEMMA EmptyTableIsTable ==
    ASSUME NEW K, NEW R
    PROVE  IsTable(EmptyTable, K, R) /\ DOMAIN EmptyTable = {}
  BY FS_EmptySet DEF IsTable, EmptyTable

-----------------------------------------------------------------------------
\* The call a creator is executing has the type of a createVersion call.
LEMMA CreateCallType ==
    ASSUME TypeOK, NEW p \in Creators, creator[p] # Idle
    PROVE  creator[p] \in CreateCall
  BY DEF TypeOK

LEMMA IdleIsNoCall ==
    /\ Idle.at = "idle"
    /\ \A call \in CreateCall : call.at # "idle" /\ call # Idle
    /\ \A call : IsPruneCall(call) => call.at # "idle" /\ call # Idle
  BY DEF Idle, CreateCall, IsPruneCall

\* A failure keeps to the bound.
LEMMA FailureBound ==
    ASSUME failures \in 0..MaxFailures, Failure
    PROVE  failures' \in 0..MaxFailures
  BY BoundAssumption DEF Failure

\* The updates that createVersion makes to its call keep its type.
LEMMA CreateCallUpdates ==
    ASSUME NEW call \in CreateCall
    PROVE  /\ [call EXCEPT !.at = "count"] \in CreateCall
           /\ [call EXCEPT !.at = "update"] \in CreateCall
           /\ [call EXCEPT !.i = @ + 1] \in CreateCall
           /\ [call EXCEPT !.at = "count", !.i = @ + 1] \in CreateCall
  <1>1. call.i + 1 \in Nat \ {0}
    BY DEF CreateCall
  <1>2. QED
    BY <1>1 DEF CreateCall

\* Every step of createVersion keeps the types.
LEMMA CreateStepType ==
    ASSUME TypeOK, NEW p \in Creators, CreateStep(p)
    PROVE  TypeOK'
  <1> DEFINE Call == creator[p]
  <1>1. Call # Idle => Call \in CreateCall
    BY CreateCallType
  <1>2. Call.at # "idle" => Call # Idle
    BY IdleIsNoCall
  <1>3. ASSUME NEW f \in Files, NEW hashes \in Contents, ListVersions(p, f, hashes)
        PROVE  TypeOK'
    <2>1. NextNumber(f) \in VersionNumbers
      <3>1. IsFiniteSet(Numbers(f))
        BY DEF TypeOK, IsTable, Numbers
      <3>2. Cardinality(Numbers(f)) \in Nat
        BY <3>1, FS_CardinalityType
      <3>3. QED
        BY <3>2 DEF NextNumber, VersionNumbers
    <2>2. [at |-> "insert", file |-> f, hashes |-> hashes,
           next |-> NextNumber(f), i |-> 1] \in CreateCall
      BY <2>1 DEF CreateCall
    <2>3. QED
      BY <1>3, <2>2 DEF ListVersions, tables, TypeOK
  <1>4. CASE InsertVersion(p)
    <2>1. Call \in CreateCall /\ [Call EXCEPT !.at = "count"] \in CreateCall
      BY <1>1, <1>2, <1>4, CreateCallUpdates DEF InsertVersion
    <2>2. creator' \in [Creators -> {Idle} \cup CreateCall]
      BY <1>4, <2>1 DEF InsertVersion, TypeOK
    <2>3. \A f \in Files : IsTable(versions'[f], VersionNumbers, VersionRow)
      <3>1. IsTable(versions[Call.file], VersionNumbers, VersionRow)
        BY <2>1 DEF TypeOK, CreateCall
      <3>2. [hashes |-> Call.hashes, old |-> FALSE] \in VersionRow /\ Call.next \in VersionNumbers
        BY <2>1 DEF CreateCall, VersionRow
      <3>3. IsTable(InsertRow(versions[Call.file], Call.next, [hashes |-> Call.hashes, old |-> FALSE]),
                    VersionNumbers, VersionRow)
        BY <3>1, <3>2, InsertRowIsTable
      <3>4. QED
        BY <1>4, <3>3 DEF InsertVersion, TypeOK
    <2>4. versions' = [f \in Files |-> versions'[f]]
      BY <1>4 DEF InsertVersion, TypeOK
    <2>5. QED
      BY <1>4, <2>2, <2>3, <2>4 DEF InsertVersion, TypeOK
  <1>5. CASE InsertRejected(p)
    BY <1>5 DEF InsertRejected, tables, TypeOK
  <1>6. CASE CheckChunk(p)
    <2>1. /\ [Call EXCEPT !.at = "update"] \in CreateCall
          /\ [Call EXCEPT !.i = @ + 1] \in CreateCall
      BY <1>1, <1>2, <1>6, CreateCallUpdates DEF CheckChunk
    <2>2. QED
      BY <1>6, <2>1 DEF CheckChunk, tables, TypeOK
  <1>7. CASE IncrementChunk(p)
    <2>1. [Call EXCEPT !.at = "count", !.i = @ + 1] \in CreateCall
      BY <1>1, <1>2, <1>7, CreateCallUpdates DEF IncrementChunk
    <2>2. refCount' \in [Chunks -> Int]
      BY <1>7 DEF IncrementChunk, AddToCount, TypeOK
    <2>3. QED
      BY <1>7, <2>1, <2>2 DEF IncrementChunk, TypeOK
  <1>8. CASE PublishVersion(p)
    <2>1. Call \in CreateCall
      BY <1>1, <1>2, <1>8 DEF PublishVersion
    <2>2. currentVersion' \in [Files -> Nat]
      BY <1>8, <2>1 DEF PublishVersion, TypeOK, CreateCall, VersionNumbers
    <2>3. QED
      BY <1>8, <2>2 DEF PublishVersion, TypeOK
  <1>9. CASE IncrementFails(p)
    <2>1. [Call EXCEPT !.at = "count", !.i = @ + 1] \in CreateCall
      BY <1>1, <1>2, <1>9, CreateCallUpdates DEF IncrementFails
    <2>2. QED
      BY <1>9, <2>1, FailureBound DEF IncrementFails, tables, TypeOK
  <1>10. CASE CreateAborts(p)
    BY <1>10, FailureBound DEF CreateAborts, tables, TypeOK
  <1>11. QED
    BY <1>3, <1>4, <1>5, <1>6, <1>7, <1>8, <1>9, <1>10 DEF CreateStep

\* The updates that pruneVersions makes to its call keep its type.
LEMMA PruneCallUpdates ==
    ASSUME NEW call, IsPruneCall(call)
    PROVE  /\ IsPruneCall([call EXCEPT !.at = "update"])
           /\ IsPruneCall([call EXCEPT !.i = @ + 1])
           /\ IsPruneCall([call EXCEPT !.at = "count", !.i = @ + 1])
           /\ \A v : IsPruneCall([at |-> "count", file |-> call.file,
                                 todo |-> DeleteRows(call.todo, {v}), i |-> 1])
  <1>1. \A v : IsTable(DeleteRows(call.todo, {v}), VersionNumbers, VersionRow)
    BY DeleteRowsIsTable DEF IsPruneCall
  <1>2. call.i + 1 \in Nat \ {0}
    BY DEF IsPruneCall
  <1>3. IsPruneCall([call EXCEPT !.at = "update"])
    BY DEF IsPruneCall
  <1>4. IsPruneCall([call EXCEPT !.i = @ + 1])
    BY <1>2 DEF IsPruneCall
  <1>5. IsPruneCall([call EXCEPT !.at = "count", !.i = @ + 1])
    BY <1>2 DEF IsPruneCall
  <1>6. ASSUME NEW v
        PROVE  IsPruneCall([at |-> "count", file |-> call.file,
                            todo |-> DeleteRows(call.todo, {v}), i |-> 1])
    <2>1. call.file \in Files
      BY DEF IsPruneCall
    <2>2. ASSUME NEW t, IsTable(t, VersionNumbers, VersionRow)
          PROVE  IsPruneCall([at |-> "count", file |-> call.file, todo |-> t, i |-> 1])
      BY <2>1, <2>2 DEF IsPruneCall
    <2>3. QED
      BY <1>1, <2>2
  <1>7. QED
    BY <1>3, <1>4, <1>5, <1>6

\* Every step of pruneVersions keeps the types.
LEMMA PruneStepType ==
    ASSUME TypeOK, NEW q \in Pruners, PruneStep(q)
    PROVE  TypeOK'
  <1> DEFINE Call == pruner[q]
  <1>1. ASSUME NEW v \in Remaining(q)
        PROVE  IsPruneCall(Call)
    BY DEF Remaining, TypeOK
  <1>2. ASSUME NEW f \in Files, SnapshotVersions(q, f)
        PROVE  TypeOK'
    <2> DEFINE expired == {n \in Numbers(f) : Prunable(f, n)}
    <2>1. IsTable([n \in expired |-> versions[f][n]], VersionNumbers, VersionRow)
      <3>1. IsFiniteSet(expired)
        BY FS_Subset DEF TypeOK, IsTable, Numbers
      <3>2. QED
        BY <3>1 DEF TypeOK, IsTable, Numbers
    <2>2. IsPruneCall([at |-> "count", file |-> f,
                       todo |-> [n \in expired |-> versions[f][n]], i |-> 1])
      BY <2>1 DEF IsPruneCall
    <2>3. QED
      BY <1>2, <2>2 DEF SnapshotVersions, tables, TypeOK
  <1>3. CASE PruneAborts(q)
    BY <1>3, FailureBound DEF PruneAborts, tables, TypeOK
  <1>4. ASSUME NEW v \in Remaining(q), CheckCount(q, v)
        PROVE  TypeOK'
    <2>1. IsPruneCall([Call EXCEPT !.at = "update"]) /\ IsPruneCall([Call EXCEPT !.i = @ + 1])
      BY <1>1, PruneCallUpdates
    <2>2. QED
      BY <1>4, <2>1 DEF CheckCount, tables, TypeOK
  <1>5. ASSUME NEW v \in Remaining(q), DecrementChunk(q, v)
        PROVE  TypeOK'
    <2>1. IsPruneCall([Call EXCEPT !.at = "count", !.i = @ + 1])
      BY <1>1, PruneCallUpdates
    <2>2. refCount' \in [Chunks -> Int]
      BY <1>5 DEF DecrementChunk, AddToCount, TypeOK
    <2>3. QED
      BY <1>5, <2>1, <2>2 DEF DecrementChunk, TypeOK
  <1>6. ASSUME NEW v \in Remaining(q), DeleteVersion(q, v)
        PROVE  TypeOK'
    <2>1. IsPruneCall([at |-> "count", file |-> Call.file,
                       todo |-> DeleteRows(Call.todo, {v}), i |-> 1])
      BY <1>1, PruneCallUpdates
    <2>2. \A f \in Files : IsTable(versions'[f], VersionNumbers, VersionRow)
      BY <1>6, DeleteRowsIsTable DEF DeleteVersion, TypeOK
    <2>3. versions' = [f \in Files |-> versions'[f]]
      BY <1>6 DEF DeleteVersion, TypeOK
    <2>4. QED
      BY <1>6, <2>1, <2>2, <2>3 DEF DeleteVersion, TypeOK
  <1>7. ASSUME NEW v \in Remaining(q), DecrementFails(q, v)
        PROVE  TypeOK'
    <2>1. IsPruneCall([Call EXCEPT !.at = "count", !.i = @ + 1])
      BY <1>1, PruneCallUpdates
    <2>2. QED
      BY <1>7, <2>1, FailureBound DEF DecrementFails, tables, TypeOK
  <1>8. QED
    BY <1>2, <1>3, <1>4, <1>5, <1>6, <1>7 DEF PruneStep

\* Registering a chunk, deleting a file and the passing of time keep the types.
LEMMA EnvironmentStepType ==
    ASSUME TypeOK, EnvironmentStep
    PROVE  TypeOK'
  <1>1. ASSUME NEW c \in Chunks, RegisterChunk(c)
        PROVE  TypeOK'
    BY <1>1 DEF RegisterChunk, TypeOK
  <1>2. ASSUME NEW f \in Files, DeleteFile(f)
        PROVE  TypeOK'
    BY <1>2, EmptyTableIsTable DEF DeleteFile, TypeOK
  <1>3. CASE RetentionPasses
    <2>1. \A f \in Files : \A n \in Numbers(f) :
              [versions[f][n] EXCEPT !.old = TRUE] \in VersionRow
      BY DEF TypeOK, IsTable, VersionRow, Numbers
    <2>2. \A f \in Files : IsTable(versions'[f], VersionNumbers, VersionRow)
      BY <1>3, <2>1 DEF RetentionPasses, IsTable, TypeOK, Numbers
    <2>3. versions' = [f \in Files |-> versions'[f]]
      BY <1>3 DEF RetentionPasses
    <2>4. QED
      BY <1>3, <2>2, <2>3 DEF RetentionPasses, TypeOK
  <1>4. QED
    BY <1>1, <1>2, <1>3 DEF EnvironmentStep

LEMMA InitType == Init => TypeOK
  BY EmptyTableIsTable, BoundAssumption DEF Init, TypeOK, Idle

LEMMA StepType == TypeOK /\ [Next]_vars => TypeOK'
  <1> SUFFICES ASSUME TypeOK, [Next]_vars
               PROVE  TypeOK'
    OBVIOUS
  <1>1. CASE UNCHANGED vars
    BY <1>1 DEF vars, TypeOK
  <1>2. QED
    BY <1>1, CreateStepType, PruneStepType, EnvironmentStepType DEF Next

\* Every variable keeps the type its table or call has in the code.
THEOREM TypeCorrect == Spec => []TypeOK
  BY InitType, StepType, PTL DEF Spec

-----------------------------------------------------------------------------
(***************************************************************************)
(* LatestSurvives.  A prune call works from a stale listing, so what must  *)
(* be shown is that the listing never becomes dangerous: as long as the    *)
(* file exists, every version that a call still means to delete has a      *)
(* newer version in the table now, not only in the listing.  The newer one *)
(* may itself be deleted by another call, but then it was on that call's   *)
(* list, and so has a newer one in turn.                                   *)
(***************************************************************************)
NewerRemains ==
    \A q \in Pruners :
        pruner[q] # Idle /\ pruner[q].file \in files =>
            \A n \in DOMAIN pruner[q].todo :
                \E m \in Numbers(pruner[q].file) : n < m

\* createVersion leaves the prune calls and the files alone and removes no
\* version.
LEMMA CreateStepAdds ==
    ASSUME TypeOK, NEW p \in Creators, CreateStep(p)
    PROVE  /\ UNCHANGED <<files, pruner>>
           /\ \A f \in Files : Numbers(f) \subseteq Numbers(f)'
  <1>1. CASE InsertVersion(p)
    <2>1. UNCHANGED <<files, pruner>>
      BY <1>1 DEF InsertVersion
    <2>2. ASSUME NEW f \in Files
          PROVE  Numbers(f) \subseteq Numbers(f)'
      <3>1. versions'[f] = versions[f] \/
            \E k, row : versions'[f] = InsertRow(versions[f], k, row)
        BY <1>1 DEF InsertVersion, TypeOK
      <3>2. ASSUME NEW k, NEW row, versions'[f] = InsertRow(versions[f], k, row)
            PROVE  DOMAIN versions[f] \subseteq DOMAIN versions'[f]
        BY <3>2 DEF InsertRow
      <3>3. QED
        BY <3>1, <3>2 DEF Numbers
    <2>3. QED
      BY <2>1, <2>2
  <1>2. CASE ~ InsertVersion(p)
    BY <1>2 DEF CreateStep, ListVersions, InsertRejected, CheckChunk, IncrementChunk,
                PublishVersion, IncrementFails, CreateAborts, tables, Numbers
  <1>3. QED
    BY <1>1, <1>2

\* The environment leaves the prune calls alone, and the version numbers of
\* every file that exists afterwards.
LEMMA EnvironmentStepKeeps ==
    ASSUME TypeOK, EnvironmentStep
    PROVE  /\ UNCHANGED pruner
           /\ files' \subseteq files
           /\ \A f \in files' : Numbers(f)' = Numbers(f)
  <1>1. ASSUME NEW c \in Chunks, RegisterChunk(c)
        PROVE  UNCHANGED <<files, versions, pruner>>
    BY <1>1 DEF RegisterChunk
  <1>2. ASSUME NEW f \in Files, DeleteFile(f)
        PROVE  /\ UNCHANGED pruner
               /\ files' \subseteq files
               /\ \A g \in files' : Numbers(g)' = Numbers(g)
    BY <1>2 DEF DeleteFile, Numbers, TypeOK
  <1>3. CASE RetentionPasses
    BY <1>3 DEF RetentionPasses, Numbers, TypeOK
  <1>4. QED
    BY <1>1, <1>2, <1>3 DEF EnvironmentStep, Numbers

\* What a step of pruneVersions does to the calls and to the version numbers:
\* a new call has listed only versions with a newer one, a call in progress
\* keeps its file and its list does not grow, and only DeleteVersion removes
\* a number, the one it then drops from the list.
LEMMA PruneStepShrinks ==
    ASSUME TypeOK, NEW q \in Pruners, PruneStep(q)
    PROVE  /\ files' = files
           /\ \A r \in Pruners \ {q} : pruner'[r] = pruner[r]
           /\ \/ /\ UNCHANGED versions
                 /\ pruner'[q] # Idle =>
                       \/ \A n \in DOMAIN pruner'[q].todo :
                             \E m \in Numbers(pruner'[q].file) : n < m
                       \/ /\ pruner[q] # Idle
                          /\ pruner'[q].file = pruner[q].file
                          /\ pruner'[q].todo = pruner[q].todo
              \/ \E v \in Remaining(q) :
                    /\ pruner[q] # Idle
                    /\ \A f \in Files : Numbers(f)' =
                          IF f = pruner[q].file THEN Numbers(f) \ {v} ELSE Numbers(f)
                    /\ pruner'[q] # Idle =>
                          /\ pruner'[q].file = pruner[q].file
                          /\ DOMAIN pruner'[q].todo = DOMAIN pruner[q].todo \ {v}
  <1>1. ASSUME NEW f \in Files, SnapshotVersions(q, f)
        PROVE  /\ UNCHANGED <<files, versions>>
               /\ \A r \in Pruners \ {q} : pruner'[r] = pruner[r]
               /\ \A n \in DOMAIN pruner'[q].todo :
                     \E m \in Numbers(pruner'[q].file) : n < m
    <2> DEFINE expired == {n \in Numbers(f) : Prunable(f, n)}
    <2>1. pruner'[q] = [at |-> "count", file |-> f,
                        todo |-> [n \in expired |-> versions[f][n]], i |-> 1]
      BY <1>1 DEF SnapshotVersions, TypeOK
    <2>2. pruner'[q].file = f /\ DOMAIN pruner'[q].todo = expired
      BY <2>1
    <2>3. QED
      BY <1>1, <2>2 DEF SnapshotVersions, tables, TypeOK, Prunable
  <1>2. CASE PruneAborts(q)
    BY <1>2 DEF PruneAborts, tables, TypeOK
  <1>3. ASSUME NEW v \in Remaining(q),
               CheckCount(q, v) \/ DecrementChunk(q, v) \/ DecrementFails(q, v)
        PROVE  /\ UNCHANGED <<files, versions>>
               /\ \A r \in Pruners \ {q} : pruner'[r] = pruner[r]
               /\ pruner[q] # Idle
               /\ pruner'[q].file = pruner[q].file
               /\ pruner'[q].todo = pruner[q].todo
    <2>1. pruner[q] # Idle /\ IsPruneCall(pruner[q])
      BY DEF Remaining, TypeOK
    <2>2. \/ pruner'[q] = [pruner[q] EXCEPT !.at = "update"]
          \/ pruner'[q] = [pruner[q] EXCEPT !.i = @ + 1]
          \/ pruner'[q] = [pruner[q] EXCEPT !.at = "count", !.i = @ + 1]
      BY <1>3 DEF CheckCount, DecrementChunk, DecrementFails, TypeOK
    <2>3. pruner'[q].file = pruner[q].file /\ pruner'[q].todo = pruner[q].todo
      BY <2>1, <2>2 DEF IsPruneCall
    <2>4. QED
      BY <1>3, <2>1, <2>3 DEF CheckCount, DecrementChunk, DecrementFails, tables, TypeOK
  <1>4. ASSUME NEW v \in Remaining(q), DeleteVersion(q, v)
        PROVE  /\ files' = files
               /\ \A r \in Pruners \ {q} : pruner'[r] = pruner[r]
               /\ pruner[q] # Idle
               /\ \A f \in Files : Numbers(f)' =
                     IF f = pruner[q].file THEN Numbers(f) \ {v} ELSE Numbers(f)
               /\ pruner'[q] # Idle =>
                     /\ pruner'[q].file = pruner[q].file
                     /\ DOMAIN pruner'[q].todo = DOMAIN pruner[q].todo \ {v}
    <2>1. \A t : DOMAIN DeleteRows(t, {v}) = DOMAIN t \ {v}
      BY DEF DeleteRows
    <2>2. pruner[q] # Idle
      BY DEF Remaining
    <2>3. \A f \in Files : Numbers(f)' =
              IF f = pruner[q].file THEN Numbers(f) \ {v} ELSE Numbers(f)
      BY <1>4, <2>1 DEF DeleteVersion, Numbers, TypeOK
    <2>4. pruner'[q] = Idle \/
          pruner'[q] = [at |-> "count", file |-> pruner[q].file,
                        todo |-> DeleteRows(pruner[q].todo, {v}), i |-> 1]
      BY <1>4 DEF DeleteVersion, TypeOK
    <2>5. QED
      BY <1>4, <2>1, <2>2, <2>3, <2>4 DEF DeleteVersion, TypeOK
  <1>5. QED
    BY <1>1, <1>2, <1>3, <1>4 DEF PruneStep, TypeOK, PruneAborts

LEMMA NewerRemainsStep == TypeOK /\ NewerRemains /\ [Next]_vars => NewerRemains'
  <1> SUFFICES ASSUME TypeOK, NewerRemains, [Next]_vars,
                      NEW r \in Pruners, pruner'[r] # Idle,
                      NEW F \in files', F = pruner'[r].file,
                      NEW n \in DOMAIN pruner'[r].todo
               PROVE  \E m \in Numbers(F)' : n < m
    BY DEF NewerRemains, Numbers
  <1>0. files' \subseteq files
    BY CreateStepAdds, PruneStepShrinks, EnvironmentStepKeeps DEF Next, vars
  <1>1. CASE UNCHANGED vars
    BY <1>1 DEF vars, NewerRemains, Numbers
  <1>2. ASSUME NEW p \in Creators, CreateStep(p)
        PROVE  \E m \in Numbers(F)' : n < m
    BY <1>2, CreateStepAdds DEF NewerRemains, TypeOK
  <1>3. CASE EnvironmentStep
    BY <1>3, EnvironmentStepKeeps DEF NewerRemains
  <1>4. ASSUME NEW q \in Pruners, PruneStep(q)
        PROVE  \E m \in Numbers(F)' : n < m
    <2>1. /\ files' = files
          /\ \A s \in Pruners \ {q} : pruner'[s] = pruner[s]
      BY <1>4, PruneStepShrinks
    <2>2. CASE UNCHANGED versions
      <3>1. Numbers(F)' = Numbers(F)
        BY <2>2 DEF Numbers
      <3>2. CASE r # q
        BY <2>1, <3>1, <3>2 DEF NewerRemains
      <3>3. CASE r = q
        BY <1>4, <2>1, <2>2, <3>1, <3>3, PruneStepShrinks DEF NewerRemains
      <3>4. QED
        BY <3>2, <3>3
    <2>3. ASSUME NEW v \in Remaining(q), pruner[q] # Idle,
                 \A f \in Files : Numbers(f)' =
                     IF f = pruner[q].file THEN Numbers(f) \ {v} ELSE Numbers(f),
                 pruner'[q] # Idle =>
                     /\ pruner'[q].file = pruner[q].file
                     /\ DOMAIN pruner'[q].todo = DOMAIN pruner[q].todo \ {v}
          PROVE  \E m \in Numbers(F)' : n < m
      <3>1. pruner[r] # Idle /\ pruner[r].file = F /\ n \in DOMAIN pruner[r].todo
        BY <2>1, <2>3
      <3>2. PICK m \in Numbers(F) : n < m
        BY <2>1, <3>1 DEF NewerRemains
      <3>3. /\ F \in Files
            /\ Numbers(F) \subseteq Nat
            /\ v \in Nat
            /\ n \in Nat
        BY <2>1, <2>3, <3>1 DEF TypeOK, IsPruneCall, IsTable, VersionNumbers, Numbers, Remaining
      <3>4. CASE m # v \/ F # pruner[q].file
        BY <2>3, <3>2, <3>3, <3>4
      <3>5. CASE m = v /\ F = pruner[q].file
        <4>1. PICK k \in Numbers(F) : v < k
          BY <2>1, <2>3, <3>5 DEF NewerRemains, Remaining
        <4>2. k \in Numbers(F)' /\ n < k
          BY <2>3, <3>2, <3>3, <3>5, <4>1
        <4>3. QED
          BY <4>2
      <3>6. QED
        BY <3>4, <3>5
    <2>4. QED
      BY <1>4, <2>2, <2>3, PruneStepShrinks
  <1>5. QED
    BY <1>1, <1>2, <1>3, <1>4 DEF Next

\* No step lowers the newest version number of a file that still exists.
LEMMA LatestSurvivesStep ==
    TypeOK /\ NewerRemains /\ [Next]_vars =>
        \A f \in files' : \A n \in Numbers(f) : \E m \in Numbers(f)' : n <= m
  <1> SUFFICES ASSUME TypeOK, NewerRemains, [Next]_vars,
                      NEW f \in files', NEW n \in Numbers(f)
               PROVE  \E m \in Numbers(f)' : n <= m
    OBVIOUS
  <1>1. files' \subseteq files
    BY CreateStepAdds, PruneStepShrinks, EnvironmentStepKeeps DEF Next, vars
  <1>2. f \in Files /\ Numbers(f) \subseteq Nat
    BY <1>1 DEF TypeOK, IsTable, VersionNumbers, Numbers
  <1>3. CASE n \in Numbers(f)'
    BY <1>2, <1>3
  <1>4. CASE n \notin Numbers(f)'
    <2>1. PICK q \in Pruners : PruneStep(q)
      BY <1>2, <1>4, CreateStepAdds, EnvironmentStepKeeps DEF Next, vars, Numbers
    <2>2. PICK v \in Remaining(q) :
              /\ pruner[q] # Idle
              /\ \A g \in Files : Numbers(g)' =
                    IF g = pruner[q].file THEN Numbers(g) \ {v} ELSE Numbers(g)
      BY <1>4, <2>1, PruneStepShrinks DEF Numbers
    <2>3. f = pruner[q].file /\ n = v
      BY <1>2, <1>4, <2>2
    <2>4. PICK m \in Numbers(f) : v < m
      BY <1>1, <2>2, <2>3 DEF NewerRemains, Remaining
    <2>5. m \in Numbers(f)' /\ n <= m
      BY <1>2, <2>2, <2>3, <2>4
    <2>6. QED
      BY <2>5
  <1>5. QED
    BY <1>3, <1>4

\* Pruning never removes the newest version, whatever calls run concurrently.
THEOREM LatestVersionSurvives == Spec => LatestSurvives
  <1>1. Init => NewerRemains
    BY DEF Init, NewerRemains
  <1>2. TypeOK /\ NewerRemains /\ [Next]_vars =>
            [\A f \in files' : \A n \in Numbers(f) : \E m \in Numbers(f)' : n <= m]_vars
    BY LatestSurvivesStep
  <1>3. QED
    BY <1>1, <1>2, InitType, StepType, NewerRemainsStep, PTL DEF Spec, LatestSurvives

-----------------------------------------------------------------------------
(***************************************************************************)
(* SequentialNumbers.  A number computed from a stale listing is never too *)
(* large: versions are only added while nothing prunes, so it is at most   *)
(* one more than the number of versions there are when it is inserted.     *)
(***************************************************************************)
NextInReach ==
    \A p \in Creators :
        creator[p].at = "insert" /\ creator[p].file \in files =>
            creator[p].next <= Cardinality(Numbers(creator[p].file)) + 1

SequentialInv == TypeOK /\ SequentialNumbers /\ NextInReach

LEMMA IntervalCardinality == \A k \in Nat : Cardinality(1..k) = k
  BY FS_Interval

\* The number of versions is a natural number.
LEMMA NumbersCardinality ==
    ASSUME TypeOK, NEW f \in Files
    PROVE  Cardinality(Numbers(f)) \in Nat
  BY FS_CardinalityType DEF TypeOK, IsTable, Numbers

\* An accepted insert adds the next number of the sequence.
LEMMA InsertExtendsSequence ==
    ASSUME SequentialInv, NEW p \in Creators, InsertVersion(p),
           NEW f, f = creator[p].file
    PROVE  /\ f \in files
           /\ creator[p].next = Cardinality(Numbers(f)) + 1
           /\ Numbers(f)' = 1..(Cardinality(Numbers(f)) + 1)
           /\ Cardinality(Numbers(f)') = Cardinality(Numbers(f)) + 1
           /\ \A g \in Files \ {f} : Numbers(g)' = Numbers(g)
  <1> DEFINE k == Cardinality(Numbers(f))
             next == creator[p].next
  <1>1. creator[p].at = "insert" /\ f \in files /\ next \notin Numbers(f)
    BY DEF InsertVersion, InsertAccepted
  <1>2. creator[p] \in CreateCall
    BY <1>1, IdleIsNoCall, CreateCallType DEF SequentialInv
  <1>3. f \in Files /\ next \in Nat \ {0}
    BY <1>2 DEF CreateCall, VersionNumbers
  <1>4. k \in Nat /\ Numbers(f) = 1..k /\ next <= k + 1
    BY <1>1, <1>3, NumbersCardinality DEF SequentialInv, SequentialNumbers, NextInReach
  <1>5. next = k + 1
    BY <1>1, <1>3, <1>4
  <1>6. Numbers(f)' = Numbers(f) \cup {next}
    BY <1>3 DEF InsertVersion, InsertRow, SequentialInv, TypeOK, Numbers
  <1>7. Numbers(f)' = 1..(k + 1)
    BY <1>4, <1>5, <1>6
  <1>8. Cardinality(1..(k + 1)) = k + 1
    BY <1>4, IntervalCardinality
  <1>9. \A g \in Files \ {f} : Numbers(g)' = Numbers(g)
    BY DEF InsertVersion, SequentialInv, TypeOK, Numbers
  <1>10. QED
    BY <1>1, <1>5, <1>7, <1>8, <1>9

\* A createVersion step other than the insert, and a step of the environment,
\* changes no version number of a file that still exists; a deleted file has
\* none.
LEMMA CreateStepNumbers ==
    ASSUME TypeOK, NEW p \in Creators, CreateStep(p), ~ InsertVersion(p)
    PROVE  UNCHANGED <<files, versions>>
  BY DEF CreateStep, ListVersions, InsertRejected, CheckChunk, IncrementChunk,
         PublishVersion, IncrementFails, CreateAborts, tables

LEMMA EnvironmentStepNumbers ==
    ASSUME TypeOK, EnvironmentStep
    PROVE  /\ UNCHANGED creator
           /\ files' \subseteq files
           /\ \A f \in Files :
                 Numbers(f)' = Numbers(f) \/ (Numbers(f)' = {} /\ f \notin files')
  <1>1. ASSUME NEW c \in Chunks, RegisterChunk(c)
        PROVE  UNCHANGED <<files, versions, creator>>
    BY <1>1 DEF RegisterChunk
  <1>2. ASSUME NEW f \in Files, DeleteFile(f)
        PROVE  /\ UNCHANGED creator
               /\ files' \subseteq files
               /\ \A g \in Files :
                     Numbers(g)' = Numbers(g) \/ (Numbers(g)' = {} /\ g \notin files')
    BY <1>2, EmptyTableIsTable DEF DeleteFile, Numbers, TypeOK
  <1>3. CASE RetentionPasses
    BY <1>3 DEF RetentionPasses, Numbers, TypeOK
  <1>4. QED
    BY <1>1, <1>2, <1>3 DEF EnvironmentStep, Numbers

\* What a createVersion step does to its call: the number to insert is either
\* kept or computed from the table as it is now.
LEMMA CreateStepCalls ==
    ASSUME TypeOK, NEW p \in Creators, CreateStep(p)
    PROVE  /\ \A r \in Creators \ {p} : creator'[r] = creator[r]
           /\ creator'[p].at = "insert" =>
                 /\ ~ InsertVersion(p)
                 /\ creator'[p].file \in Files
                 /\ creator'[p].next = NextNumber(creator'[p].file)
  <1> DEFINE Call == creator[p]
  <1>1. ASSUME NEW f \in Files, NEW hashes \in Contents, ListVersions(p, f, hashes)
        PROVE  /\ \A r \in Creators \ {p} : creator'[r] = creator[r]
               /\ creator'[p].file = f
               /\ creator'[p].next = NextNumber(f)
               /\ ~ InsertVersion(p)
    <2>1. Call.at # "insert"
      BY <1>1, IdleIsNoCall DEF ListVersions
    <2>2. QED
      BY <1>1, <2>1 DEF ListVersions, InsertVersion, TypeOK
  <1>2. CASE InsertVersion(p)
    <2>1. Call \in CreateCall
      BY <1>2, IdleIsNoCall, CreateCallType DEF InsertVersion
    <2>2. QED
      BY <1>2, <2>1 DEF InsertVersion, TypeOK, CreateCall
  <1>3. ASSUME InsertRejected(p) \/ PublishVersion(p) \/ CreateAborts(p)
        PROVE  /\ \A r \in Creators \ {p} : creator'[r] = creator[r]
               /\ creator'[p].at # "insert"
    BY <1>3, IdleIsNoCall DEF InsertRejected, PublishVersion, CreateAborts, TypeOK
  <1>4. ASSUME CheckChunk(p) \/ IncrementChunk(p) \/ IncrementFails(p)
        PROVE  /\ \A r \in Creators \ {p} : creator'[r] = creator[r]
               /\ creator'[p].at # "insert"
    <2>1. Call \in CreateCall /\ Call.at # "insert"
      BY <1>4, IdleIsNoCall, CreateCallType DEF CheckChunk, IncrementChunk, IncrementFails
    <2>2. \/ creator'[p] = [Call EXCEPT !.at = "update"]
          \/ creator'[p] = [Call EXCEPT !.i = @ + 1]
          \/ creator'[p] = [Call EXCEPT !.at = "count", !.i = @ + 1]
      BY <1>4 DEF CheckChunk, IncrementChunk, IncrementFails, TypeOK
    <2>3. creator'[p].at # "insert"
      BY <2>1, <2>2 DEF CreateCall
    <2>4. QED
      BY <1>4, <2>3 DEF CheckChunk, IncrementChunk, IncrementFails, TypeOK
  <1>5. QED
    BY <1>1, <1>2, <1>3, <1>4 DEF CreateStep

LEMMA SequentialStep ==
    Pruners = {} /\ SequentialInv /\ [Next]_vars => SequentialInv'
  <1> SUFFICES ASSUME Pruners = {}, SequentialInv, [Next]_vars
               PROVE  SequentialInv'
    OBVIOUS
  <1>0. TypeOK /\ TypeOK'
    BY StepType DEF SequentialInv
  <1>1. CASE UNCHANGED vars
    BY <1>0, <1>1 DEF vars, SequentialInv, SequentialNumbers, NextInReach, Numbers
  <1>2. ASSUME NEW p \in Creators, CreateStep(p), InsertVersion(p)
        PROVE  SequentialInv'
    <2> DEFINE k(f) == Cardinality(Numbers(f))
    <2>1. PICK F : F = creator[p].file
      OBVIOUS
    <2>2. /\ F \in files
          /\ Numbers(F)' = 1..(k(F) + 1)
          /\ Cardinality(Numbers(F)') = k(F) + 1
          /\ \A g \in Files \ {F} : Numbers(g)' = Numbers(g)
      BY <1>2, <2>1, InsertExtendsSequence
    <2>3. SequentialNumbers'
      BY <2>2 DEF SequentialInv, SequentialNumbers
    <2>4. \A f \in Files : /\ k(f) \in Nat
                          /\ Cardinality(Numbers(f)') \in Nat
                          /\ Cardinality(Numbers(f)') >= k(f)
      BY <1>0, <2>2, NumbersCardinality
    <2>5. ASSUME NEW r \in Creators, creator'[r].at = "insert",
                 NEW f \in files', f = creator'[r].file
          PROVE  creator'[r].next <= Cardinality(Numbers(f)') + 1
      <3>1. creator'[r] = creator[r] /\ files' = files
        BY <1>0, <1>2, <2>5, CreateStepCalls DEF InsertVersion
      <3>2. creator[r] \in CreateCall /\ f \in Files
        BY <1>0, <2>5, <3>1, IdleIsNoCall, CreateCallType DEF TypeOK
      <3>3. creator[r].next <= k(f) + 1
        BY <2>5, <3>1 DEF SequentialInv, NextInReach
      <3>4. QED
        BY <2>4, <3>1, <3>2, <3>3 DEF CreateCall, VersionNumbers
    <2>6. NextInReach'
      BY <2>5 DEF NextInReach, Numbers
    <2>7. QED
      BY <1>0, <2>3, <2>6 DEF SequentialInv
  <1>3. ASSUME NEW p \in Creators, CreateStep(p), ~ InsertVersion(p)
        PROVE  SequentialInv'
    <2>1. UNCHANGED <<files, versions>>
      BY <1>0, <1>3, CreateStepNumbers
    <2>2. SequentialNumbers'
      BY <2>1 DEF SequentialInv, SequentialNumbers, Numbers
    <2>3. ASSUME NEW r \in Creators, creator'[r].at = "insert",
                 NEW f \in files', f = creator'[r].file
          PROVE  creator'[r].next <= Cardinality(Numbers(f)) + 1
      <3>1. CASE r = p
        <4>1. creator'[p].next = Cardinality(Numbers(f)) + 1
          BY <1>0, <1>3, <2>3, <3>1, CreateStepCalls DEF NextNumber
        <4>2. Cardinality(Numbers(f)) \in Nat
          BY <1>0, <2>1, <2>3, NumbersCardinality DEF TypeOK
        <4>3. QED
          BY <3>1, <4>1, <4>2
      <3>2. CASE r # p
        BY <1>0, <1>3, <2>1, <2>3, <3>2, CreateStepCalls DEF SequentialInv, NextInReach
      <3>3. QED
        BY <3>1, <3>2
    <2>4. NextInReach'
      BY <2>1, <2>3 DEF NextInReach, Numbers
    <2>5. QED
      BY <1>0, <2>2, <2>4 DEF SequentialInv
  <1>4. CASE EnvironmentStep
    <2>1. /\ UNCHANGED creator
          /\ files' \subseteq files
          /\ \A f \in Files :
                Numbers(f)' = Numbers(f) \/ (Numbers(f)' = {} /\ f \notin files')
      BY <1>0, <1>4, EnvironmentStepNumbers
    <2>2. Cardinality({}) = 0 /\ {} = 1..0
      BY FS_EmptySet
    <2>3. SequentialNumbers'
      BY <2>1, <2>2 DEF SequentialInv, SequentialNumbers
    <2>4. ASSUME NEW r \in Creators, creator'[r].at = "insert",
                 NEW f \in files', f = creator'[r].file
          PROVE  creator'[r].next <= Cardinality(Numbers(f)') + 1
      BY <1>0, <2>1, <2>4 DEF SequentialInv, NextInReach, TypeOK
    <2>5. NextInReach'
      BY <2>4 DEF NextInReach, Numbers
    <2>6. QED
      BY <1>0, <2>3, <2>5 DEF SequentialInv
  <1>5. QED
    BY <1>1, <1>2, <1>3, <1>4 DEF Next

\* While nothing prunes, versions are numbered without gaps from 1, however
\* many calls of createVersion race, are rejected or die.
THEOREM VersionsAreSequential ==
    ASSUME Pruners = {}
    PROVE  Spec => []SequentialNumbers
  <1>1. Init => SequentialInv
    <2> SUFFICES ASSUME Init PROVE SequentialInv
      OBVIOUS
    <2>1. \A f \in Files : Numbers(f) = {}
      BY EmptyTableIsTable DEF Init, Numbers
    <2>2. Cardinality({}) = 0 /\ {} = 1..0
      BY FS_EmptySet
    <2>3. SequentialNumbers
      BY <2>1, <2>2 DEF SequentialNumbers
    <2>4. NextInReach
      BY IdleIsNoCall DEF Init, NextInReach
    <2>5. QED
      BY <2>3, <2>4, InitType DEF SequentialInv
  <1>2. SequentialInv => SequentialNumbers
    BY DEF SequentialInv
  <1>3. SequentialInv /\ [Next]_vars => SequentialInv'
    BY SequentialStep
  <1>4. QED
    BY <1>1, <1>2, <1>3, PTL DEF Spec

-----------------------------------------------------------------------------
(***************************************************************************)
(* CountsNonNegative.  decrementReference reads the count and decrements   *)
(* it in two store calls.  With a single pruner nothing can lower a count  *)
(* in between: the count it read as positive still is when it is lowered.  *)
(***************************************************************************)
DecrementBacked ==
    \A q \in Pruners :
        pruner[q].at = "update" =>
            \A v \in Remaining(q) :
                IsTarget(q, v) => MayDecrement(pruner[q].todo[v].hashes[pruner[q].i])

CountInv == TypeOK /\ CountsNonNegative /\ DecrementBacked

\* Only pruneVersions lowers a count: every other step keeps what a pending
\* decrement relies on.
LEMMA OtherStepsKeepCounts ==
    ASSUME TypeOK, (\E p \in Creators : CreateStep(p)) \/ EnvironmentStep
    PROVE  /\ UNCHANGED pruner
           /\ chunks \subseteq chunks'
           /\ \A c \in chunks : refCount'[c] >= refCount[c]
           /\ CountsNonNegative => CountsNonNegative'
  <1>1. ASSUME NEW p \in Creators, CreateStep(p), ~ IncrementChunk(p)
        PROVE  UNCHANGED <<chunks, refCount, pruner>>
    BY <1>1 DEF CreateStep, ListVersions, InsertVersion, InsertRejected, CheckChunk,
                PublishVersion, IncrementFails, CreateAborts, tables
  <1>2. ASSUME NEW p \in Creators, IncrementChunk(p)
        PROVE  /\ UNCHANGED <<chunks, pruner>>
               /\ \A c \in Chunks : refCount'[c] >= refCount[c] /\ refCount'[c] \in Int
    BY <1>2 DEF IncrementChunk, AddToCount, TypeOK
  <1>3. ASSUME NEW c \in Chunks, RegisterChunk(c)
        PROVE  /\ UNCHANGED pruner
               /\ chunks \subseteq chunks'
               /\ \A d \in Chunks : d # c => refCount'[d] = refCount[d]
               /\ c \notin chunks /\ refCount'[c] = 0
    BY <1>3 DEF RegisterChunk, TypeOK
  <1>4. ASSUME NEW f \in Files, DeleteFile(f)
        PROVE  UNCHANGED <<chunks, refCount, pruner>>
    BY <1>4 DEF DeleteFile
  <1>5. CASE RetentionPasses
    BY <1>5 DEF RetentionPasses, TypeOK, CountsNonNegative
  <1>6. QED
    BY <1>1, <1>2, <1>3, <1>4, <1>5 DEF EnvironmentStep, CountsNonNegative, TypeOK

LEMMA CountStep ==
    ASSUME \A q, r \in Pruners : q = r,
           CountInv, [Next]_vars
    PROVE  CountInv'
  <1>0. TypeOK /\ TypeOK'
    BY StepType DEF CountInv
  <1>1. CASE UNCHANGED vars
    BY <1>0, <1>1 DEF vars, CountInv, CountsNonNegative, DecrementBacked, Remaining,
                      IsTarget, MayDecrement
  <1>2. CASE (\E p \in Creators : CreateStep(p)) \/ EnvironmentStep
    <2>1. /\ UNCHANGED pruner
          /\ chunks \subseteq chunks'
          /\ \A c \in chunks : refCount'[c] >= refCount[c]
          /\ CountsNonNegative'
      BY <1>0, <1>2, OtherStepsKeepCounts DEF CountInv
    <2>2. \A c : MayDecrement(c) => MayDecrement(c)'
      BY <1>0, <2>1 DEF MayDecrement, TypeOK
    <2>3. DecrementBacked'
      BY <2>1, <2>2 DEF CountInv, DecrementBacked, Remaining, IsTarget
    <2>4. QED
      BY <1>0, <2>1, <2>3 DEF CountInv
  <1>3. ASSUME NEW q \in Pruners, PruneStep(q)
        PROVE  CountInv'
    <2> DEFINE Call == pruner[q]
    <2>1. Pruners = {q}
      OBVIOUS
    <2>2. ASSUME pruner'[q].at # "update", UNCHANGED refCount
          PROVE  CountInv'
      BY <1>0, <2>1, <2>2 DEF CountInv, CountsNonNegative, DecrementBacked
    <2>3. ASSUME NEW f \in Files, SnapshotVersions(q, f)
          PROVE  CountInv'
      BY <1>0, <2>2, <2>3 DEF SnapshotVersions, tables, TypeOK
    <2>4. CASE PruneAborts(q)
      BY <1>0, <2>2, <2>4, IdleIsNoCall DEF PruneAborts, tables, TypeOK
    <2>5. ASSUME NEW v \in Remaining(q)
          PROVE  IsPruneCall(Call) /\ Call # Idle
      BY <1>0, <2>5 DEF Remaining, TypeOK
    <2>6. ASSUME NEW v \in Remaining(q), DeleteVersion(q, v)
          PROVE  CountInv'
      <3>1. pruner'[q].at # "update"
        BY <1>0, <2>6, IdleIsNoCall DEF DeleteVersion, TypeOK
      <3>2. QED
        BY <2>2, <2>6, <3>1 DEF DeleteVersion
    <2>7. ASSUME NEW v \in Remaining(q), DecrementFails(q, v)
          PROVE  CountInv'
      <3>1. pruner'[q] = [Call EXCEPT !.at = "count", !.i = @ + 1]
        BY <1>0, <2>7 DEF DecrementFails, TypeOK
      <3>2. pruner'[q].at # "update"
        BY <2>5, <3>1 DEF IsPruneCall
      <3>3. QED
        BY <2>2, <2>7, <3>2 DEF DecrementFails, tables
    <2>8. ASSUME NEW v \in Remaining(q), CheckCount(q, v)
          PROVE  CountInv'
      <3> DEFINE hash == Call.todo[v].hashes[Call.i]
      <3>1. CASE MayDecrement(hash)
        <4>1. pruner'[q] = [Call EXCEPT !.at = "update"]
          BY <1>0, <2>8, <3>1 DEF CheckCount, TypeOK
        <4>2. pruner'[q].todo = Call.todo /\ pruner'[q].i = Call.i /\ pruner'[q] # Idle
          BY <2>5, <4>1, <1>0, PruneCallUpdates, IdleIsNoCall DEF IsPruneCall
        <4>3. \A w : IsTarget(q, w)' => w = v
          <5>1. Remaining(q)' = Remaining(q) /\ Remaining(q) \subseteq Nat
            BY <2>5, <4>2 DEF Remaining, IsPruneCall, IsTable, VersionNumbers
          <5>2. QED
            BY <2>8, <5>1 DEF IsTarget, CheckCount
        <4>4. UNCHANGED <<chunks, refCount>>
          BY <2>8 DEF CheckCount, tables
        <4>5. DecrementBacked'
          BY <2>1, <3>1, <4>2, <4>3, <4>4 DEF DecrementBacked, MayDecrement
        <4>6. QED
          BY <1>0, <4>4, <4>5 DEF CountInv, CountsNonNegative
      <3>2. CASE ~ MayDecrement(hash)
        <4>1. pruner'[q] = [Call EXCEPT !.i = @ + 1] /\ Call.at = "count"
          BY <1>0, <2>8, <3>2 DEF CheckCount, TypeOK
        <4>2. pruner'[q].at # "update"
          BY <2>5, <4>1 DEF IsPruneCall
        <4>3. QED
          BY <2>2, <2>8, <4>2 DEF CheckCount, tables
      <3>3. QED
        BY <3>1, <3>2
    <2>9. ASSUME NEW v \in Remaining(q), DecrementChunk(q, v)
          PROVE  CountInv'
      <3> DEFINE hash == Call.todo[v].hashes[Call.i]
      <3>1. MayDecrement(hash)
        BY <2>9 DEF DecrementChunk, CountInv, DecrementBacked
      <3>2. CountsNonNegative'
        BY <1>0, <2>9, <3>1 DEF DecrementChunk, AddToCount, MayDecrement, CountInv,
                                CountsNonNegative, TypeOK
      <3>3. pruner'[q] = [Call EXCEPT !.at = "count", !.i = @ + 1]
        BY <1>0, <2>9 DEF DecrementChunk, TypeOK
      <3>4. pruner'[q].at # "update"
        BY <2>5, <2>9, <3>3 DEF IsPruneCall
      <3>5. QED
        BY <1>0, <2>1, <3>2, <3>4 DEF CountInv, DecrementBacked
    <2>10. QED
      BY <1>3, <2>3, <2>4, <2>6, <2>7, <2>8, <2>9 DEF PruneStep
  <1>4. QED
    BY <1>1, <1>2, <1>3 DEF Next

\* With one pruner at a time no reference count ever becomes negative, even
\* if store calls are rejected or calls die.
THEOREM CountsStayNonNegative ==
    ASSUME \A q, r \in Pruners : q = r
    PROVE  Spec => []CountsNonNegative
  <1>1. Init => CountInv
    BY InitType, IdleIsNoCall DEF Init, CountInv, CountsNonNegative, DecrementBacked
  <1>2. CountInv => CountsNonNegative
    BY DEF CountInv
  <1>3. CountInv /\ [Next]_vars => CountInv'
    BY CountStep
  <1>4. QED
    BY <1>1, <1>2, <1>3, PTL DEF Spec

-----------------------------------------------------------------------------
(***************************************************************************)
(* ImplementsLog.  The row that InsertVersion adds is the entry that the   *)
(* abstract append adds; the listing before it and the counting after it   *)
(* are steps in which the log stutters.                                    *)
(***************************************************************************)
\* The history of a file is a sequence of contents.
LEMMA HistoryIsSeq ==
    ASSUME SequentialInv, NEW f \in Files
    PROVE  /\ History(f) \in Seq(Contents)
           /\ Len(History(f)) = Cardinality(Numbers(f))
           /\ \A n \in 1..Cardinality(Numbers(f)) : History(f)[n] = versions[f][n].hashes
  <1> DEFINE k == Cardinality(Numbers(f))
  <1>1. k \in Nat /\ Numbers(f) = 1..k
    BY NumbersCardinality DEF SequentialInv, SequentialNumbers
  <1>2. \A n \in 1..k : versions[f][n].hashes \in Contents
    BY <1>1 DEF SequentialInv, TypeOK, IsTable, Numbers, VersionRow
  <1>3. QED
    BY <1>1, <1>2 DEF History

\* A step that keeps the hashes of the versions of f keeps its history.
LEMMA SameHistory ==
    ASSUME SequentialInv, NEW f \in Files, Numbers(f)' = Numbers(f),
           \A n \in Numbers(f) : versions'[f][n].hashes = versions[f][n].hashes
    PROVE  History(f)' = History(f)
  BY DEF SequentialInv, SequentialNumbers, History

LEMMA LogStep ==
    ASSUME Pruners = {}, SequentialInv, [Next]_vars
    PROVE  [Log!LogNext]_(Log!logVars)
  <1> DEFINE Unchanged == files' = files /\ \A f \in Files : History(f)' = History(f)
  <1>1. Unchanged => UNCHANGED Log!logVars
    BY DEF Log!logVars
  <1>2. UNCHANGED <<files, versions>> => Unchanged
    BY DEF History, Numbers
  <1>3. CASE UNCHANGED vars
    BY <1>1, <1>2, <1>3 DEF vars
  <1>4. ASSUME NEW p \in Creators, CreateStep(p), ~ InsertVersion(p)
        PROVE  UNCHANGED Log!logVars
    BY <1>1, <1>2, <1>4, CreateStepNumbers DEF SequentialInv
  <1>5. ASSUME NEW p \in Creators, InsertVersion(p)
        PROVE  Log!LogNext
    <2>1. PICK F : F = creator[p].file
      OBVIOUS
    <2> DEFINE k == Cardinality(Numbers(F))
               entry == creator[p].hashes
    <2>2. /\ F \in files
          /\ creator[p].next = k + 1
          /\ Numbers(F)' = 1..(k + 1)
          /\ Cardinality(Numbers(F)') = k + 1
          /\ \A g \in Files \ {F} : Numbers(g)' = Numbers(g)
      BY <1>5, <2>1, InsertExtendsSequence
    <2>3. F \in Files /\ k \in Nat /\ Numbers(F) = 1..k
      BY <2>2, NumbersCardinality DEF SequentialInv, SequentialNumbers, TypeOK
    <2>4. entry \in Contents
      BY <1>5, IdleIsNoCall, CreateCallType DEF InsertVersion, SequentialInv, CreateCall
    <2>5. /\ versions'[F] = InsertRow(versions[F], k + 1, [hashes |-> entry, old |-> FALSE])
          /\ \A g \in Files \ {F} : versions'[g] = versions[g]
          /\ files' = files
      BY <1>5, <2>1, <2>2, <2>3 DEF InsertVersion, SequentialInv, TypeOK
    <2>6. \A n \in 1..(k + 1) : versions'[F][n].hashes =
              IF n = k + 1 THEN entry ELSE versions[F][n].hashes
      BY <2>3, <2>5 DEF InsertRow, Numbers
    <2>7. History(F)' = Append(History(F), entry)
      <3>1. History(F)' = [n \in 1..(k + 1) |-> versions'[F][n].hashes]
        BY <2>2 DEF History
      <3>2. /\ History(F) \in Seq(Contents)
            /\ Len(History(F)) = k
            /\ \A n \in 1..k : History(F)[n] = versions[F][n].hashes
        BY <2>3, HistoryIsSeq
      <3>3. Append(History(F), entry) =
                [n \in 1..(k + 1) |-> IF n = k + 1 THEN entry ELSE History(F)[n]]
        BY <2>3, <2>4, <3>2
      <3>4. QED
        BY <2>3, <2>6, <3>1, <3>2, <3>3
    <2>8. \A g \in Files \ {F} : History(g)' = History(g)
      BY <2>2, <2>5, SameHistory
    <2>9. Log!AppendVersion(F, entry)
      BY <2>2, <2>3, <2>5, <2>7, <2>8 DEF Log!AppendVersion
    <2>10. QED
      BY <2>3, <2>4, <2>9 DEF Log!LogNext
  <1>6. CASE EnvironmentStep
    <2>1. ASSUME NEW c \in Chunks, RegisterChunk(c)
          PROVE  UNCHANGED Log!logVars
      BY <1>1, <1>2, <2>1 DEF RegisterChunk
    <2>2. ASSUME NEW f \in Files, DeleteFile(f)
          PROVE  Log!LogNext
      <3>1. Numbers(f)' = {} /\ \A g \in Files \ {f} : versions'[g] = versions[g]
        BY <2>2, EmptyTableIsTable DEF DeleteFile, Numbers, SequentialInv, TypeOK
      <3>2. History(f)' = << >>
        <4>1. Cardinality({}) = 0
          BY FS_EmptySet
        <4>2. History(f)' = [n \in 1..0 |-> versions'[f][n].hashes]
          BY <3>1, <4>1 DEF History
        <4>3. QED
          BY <4>2
      <3>3. \A g \in Files \ {f} : History(g)' = History(g)
        BY <3>1, SameHistory DEF Numbers
      <3>4. Log!RemoveFile(f)
        BY <2>2, <3>2, <3>3 DEF DeleteFile, Log!RemoveFile
      <3>5. QED
        BY <3>4 DEF Log!LogNext
    <2>3. CASE RetentionPasses
      <3>1. files' = files /\ \A f \in Files : Numbers(f)' = Numbers(f)
        BY <2>3 DEF RetentionPasses, Numbers
      <3>2. \A f \in Files : \A n \in Numbers(f) :
                versions'[f][n].hashes = versions[f][n].hashes
        BY <2>3 DEF RetentionPasses, SequentialInv, TypeOK, IsTable, VersionRow, Numbers
      <3>3. QED
        BY <1>1, <3>1, <3>2, SameHistory
    <2>4. QED
      BY <1>6, <2>1, <2>2, <2>3 DEF EnvironmentStep
  <1>7. QED
    BY <1>3, <1>4, <1>5, <1>6 DEF Next

\* While nothing prunes, the version manager implements an append-only log
\* per file: every createVersion call takes effect at one instant or not at
\* all.
THEOREM VersionsImplementLog ==
    ASSUME Pruners = {}
    PROVE  Spec => ImplementsLog
  <1>1. Init => SequentialInv /\ Log!LogInit
    <2> SUFFICES ASSUME Init PROVE SequentialInv /\ Log!LogInit
      OBVIOUS
    <2>1. \A f \in Files : Numbers(f) = {}
      BY EmptyTableIsTable DEF Init, Numbers
    <2>2. Cardinality({}) = 0 /\ {} = 1..0
      BY FS_EmptySet
    <2>3. SequentialNumbers /\ NextInReach
      BY <2>1, <2>2, IdleIsNoCall DEF Init, SequentialNumbers, NextInReach
    <2>4. \A f \in Files : History(f) = << >>
      BY <2>1, <2>2 DEF History
    <2>5. QED
      BY <2>3, <2>4, InitType DEF SequentialInv, Init, Log!LogInit
  <1>2. SequentialInv /\ [Next]_vars => SequentialInv' /\ [Log!LogNext]_(Log!logVars)
    BY SequentialStep, LogStep
  <1>3. QED
    BY <1>1, <1>2, PTL DEF Spec, ImplementsLog, Log!LogSpec

-----------------------------------------------------------------------------
(* Garbage collection *)

\* Bytes that no collection will delete any more: their node was asked in
\* vain, and the row of the chunk is gone or will be deleted next.
Lost ==
    {pair \in Nodes \X Chunks :
        /\ pair[2] \in stored[pair[1]]
        /\ \/ pair[2] \notin chunks
           \/ \E g \in Collectors : /\ collector[g] # Idle
                                    /\ collector[g].chunk = pair[2]
                                    /\ pair[1] \in collector[g].asked}

\* With one collector, the chunks that it is to delete still have their rows.
CollectSound(call) ==
    call # Idle => /\ call.chunk \in chunks
                   /\ call.todo \subseteq chunks \ {call.chunk}

\* No chunk is stored, and no version created, during a collection.
NoOverlap == Overlap = FALSE

\* Either no chunk is stored during a collection, or there is one collector.
Alone == NoOverlap \/ \A g, h \in Collectors : g = h

\* Types, and at most one lost chunk for each failure.
GCInv ==
    /\ failures \in Nat
    /\ chunks \subseteq Chunks
    /\ stored \in [Nodes -> SUBSET Chunks]
    /\ collector \in [Collectors -> {Idle} \cup CollectCall]
    /\ NoOverlap \/ \A g \in Collectors : CollectSound(collector[g])
    /\ IsFiniteSet(Lost)
    /\ Cardinality(Lost) <= failures

\* Only registration, among the steps of the version manager, touches the
\* rows of the chunks.
LEMMA VersionStepKeepsChunks ==
    ASSUME VersionStep, failures \in Nat
    PROVE  /\ UNCHANGED <<chunks, stored, collector>>
           /\ failures' \in Nat
           /\ failures <= failures'
  <1> USE DEF VersionStep, CreateStep, ListVersions, InsertVersion, InsertRejected, CheckChunk,
         IncrementChunk, PublishVersion, IncrementFails, CreateAborts, PruneStep,
         SnapshotVersions, CheckCount, DecrementChunk, DeleteVersion, DecrementFails,
         PruneAborts, DeleteFile, RetentionPasses, tables
  <1>1. UNCHANGED <<chunks, stored, collector>>
    OBVIOUS
  <1>2. UNCHANGED failures \/ failures' = failures + 1
    BY DEF Failure
  <1>3. QED
    BY ONLY <1>1, <1>2, failures \in Nat

\* A collector that is idle holds no call of the collection.
LEMMA IdleIsNoCollection == Idle \notin CollectCall
  BY DEF Idle, CollectCall

\* A step that loses no more bytes, and one that loses those of one chunk on
\* one node and is a failure.
LEMMA LostShrinks ==
    ASSUME GCInv, Lost' \subseteq Lost, failures' \in Nat, failures <= failures'
    PROVE  IsFiniteSet(Lost)' /\ (Cardinality(Lost) <= failures)'
  <1>1. IsFiniteSet(Lost') /\ Cardinality(Lost') <= Cardinality(Lost)
    BY FS_Subset DEF GCInv
  <1>2. Cardinality(Lost') \in Nat /\ Cardinality(Lost) \in Nat
    BY <1>1, FS_CardinalityType DEF GCInv
  <1>3. QED
    BY <1>1, <1>2 DEF GCInv

\* A failure loses the bytes of at most one chunk on one node.
LEMMA LostGrows ==
    ASSUME GCInv, NEW pair, Lost' \subseteq Lost \cup {pair}, failures' = failures + 1
    PROVE  IsFiniteSet(Lost)' /\ (Cardinality(Lost) <= failures)'
  <1>1. /\ IsFiniteSet(Lost \cup {pair})
        /\ Cardinality(Lost \cup {pair}) <= Cardinality(Lost) + 1
    <2>1. /\ IsFiniteSet(Lost \cup {pair})
          /\ Cardinality(Lost \cup {pair}) =
                 IF pair \in Lost THEN Cardinality(Lost) ELSE Cardinality(Lost) + 1
      BY FS_AddElement DEF GCInv
    <2>2. Cardinality(Lost) \in Nat
      BY FS_CardinalityType DEF GCInv
    <2>3. QED
      BY <2>1, <2>2
  <1>2. IsFiniteSet(Lost') /\ Cardinality(Lost') <= Cardinality(Lost \cup {pair})
    BY <1>1, FS_Subset
  <1>3. /\ Cardinality(Lost') \in Nat /\ Cardinality(Lost) \in Nat
        /\ Cardinality(Lost \cup {pair}) \in Nat
    BY <1>1, <1>2, FS_CardinalityType DEF GCInv
  <1>4. QED
    BY <1>1, <1>2, <1>3 DEF GCInv

\* Going on with the next orphan keeps the types, and what the one collector
\* knows.
LEMMA NextOrphanSound ==
    ASSUME GCInv, NEW g \in Collectors, NEW todo \in SUBSET Chunks, NextOrphan(g, todo)
    PROVE  /\ collector' \in [Collectors -> {Idle} \cup CollectCall]
           /\ collector'[g] = Idle \/ collector'[g].asked = {}
           /\ todo \subseteq chunks' => CollectSound(collector[g])'
  <1>1. \/ collector' = [collector EXCEPT ![g] = Idle]
        \/ \E c \in todo : collector' = [collector EXCEPT ![g] =
               [at |-> "delete", chunk |-> c, asked |-> {}, todo |-> todo \ {c}]]
    BY DEF NextOrphan
  <1>2. CASE collector' = [collector EXCEPT ![g] = Idle]
    BY <1>2 DEF GCInv, CollectSound
  <1>3. ASSUME NEW c \in todo, NEW call,
               call = [at |-> "delete", chunk |-> c, asked |-> {}, todo |-> todo \ {c}],
               collector' = [collector EXCEPT ![g] = call]
        PROVE  /\ collector' \in [Collectors -> {Idle} \cup CollectCall]
               /\ collector'[g].asked = {}
               /\ todo \subseteq chunks' => CollectSound(collector[g])'
    <2>1. call \in CollectCall
      BY <1>3 DEF CollectCall
    <2>2. collector'[g] = call /\ call.asked = {} /\ call.chunk = c /\ call.todo = todo \ {c}
      BY <1>3 DEF GCInv
    <2>3. QED
      BY <1>3, <2>1, <2>2 DEF GCInv, CollectSound
  <1>4. QED
    BY <1>1, <1>2, <1>3

\* A collector that is over or at its next chunk holds no asked node.
LEMMA LostUnlessAsked ==
    ASSUME GCInv, NEW g \in Collectors, UNCHANGED stored,
           \A h \in Collectors \ {g} : collector'[h] = collector[h],
           collector'[g] = Idle \/ collector'[g].asked = {},
           \A c \in chunks \ chunks' : \A n \in Nodes :
               c \in stored[n] => <<n, c>> \in Lost
    PROVE  Lost' \subseteq Lost
  <1>1. ASSUME NEW n \in Nodes, NEW c \in Chunks, <<n, c>> \in Lost'
        PROVE  <<n, c>> \in Lost
    <2>1. c \in stored[n]
      BY <1>1 DEF Lost
    <2>2. CASE c \notin chunks'
      BY <2>1, <2>2 DEF Lost
    <2>3. CASE \E h \in Collectors : /\ collector'[h] # Idle
                                     /\ collector'[h].chunk = c
                                     /\ n \in collector'[h].asked
      BY <2>1, <2>3 DEF Lost
    <2>4. QED
      BY <1>1, <2>2, <2>3 DEF Lost
  <1>2. QED
    BY <1>1 DEF Lost

\* The steps of a collector, failing or not, keep the invariant.
LEMMA CollectorInv ==
    ASSUME GCInv, Alone, NEW g \in Collectors,
           CollectStep(g) \/ SkipOrphan(g) \/ CollectAborts(g)
    PROVE  GCInv'
  <1> DEFINE call == collector[g]
  <1>1. call # Idle => call \in CollectCall
    BY DEF GCInv
  <1>2. NoOverlap \/ \A h \in Collectors : h = g
    BY DEF Alone
  <1>3. ASSUME NEW todo \in SUBSET Chunks, NextOrphan(g, todo), UNCHANGED stored,
               NoOverlap \/ todo \subseteq chunks', chunks' \subseteq Chunks,
               failures' \in Nat, failures <= failures',
               \A c \in chunks \ chunks' : \A n \in Nodes :
                   c \in stored[n] => <<n, c>> \in Lost
        PROVE  GCInv'
    <2>1. /\ collector' \in [Collectors -> {Idle} \cup CollectCall]
          /\ collector'[g] = Idle \/ collector'[g].asked = {}
          /\ todo \subseteq chunks' => CollectSound(collector[g])'
      BY <1>3, NextOrphanSound
    <2>2. \A h \in Collectors \ {g} : collector'[h] = collector[h]
      BY <1>3 DEF NextOrphan, GCInv
    <2>3. Lost' \subseteq Lost
      BY <1>3, <2>1, <2>2, LostUnlessAsked
    <2>4. IsFiniteSet(Lost)' /\ (Cardinality(Lost) <= failures)'
      BY <1>3, <2>3, LostShrinks
    <2>5. NoOverlap \/ \A h \in Collectors : CollectSound(collector[h])'
      BY <1>2, <1>3, <2>1
    <2>6. QED
      BY <1>3, <2>1, <2>4, <2>5 DEF GCInv
  <1>4. CASE ListOrphans(g)
    <2>1. Orphans \subseteq chunks /\ Orphans \subseteq Chunks
      BY DEF Orphans, GCInv
    <2>2. /\ NextOrphan(g, Orphans) /\ chunks' = chunks /\ UNCHANGED <<stored, failures>>
          /\ failures \in Nat /\ chunks \subseteq Chunks
      BY <1>4 DEF ListOrphans, vars, GCInv
    <2>3. QED
      BY <1>3, <2>1, <2>2
  <1>5. ASSUME NEW n \in Nodes, DeleteFromNode(g, n)
        PROVE  GCInv'
    <2>1. call \in CollectCall
      BY <1>1, <1>5 DEF DeleteFromNode
    <2>2. PICK new : new = [at |-> "delete", chunk |-> call.chunk,
                            asked |-> call.asked \cup {n}, todo |-> call.todo]
      OBVIOUS
    <2>3. /\ new \in CollectCall /\ new.chunk = call.chunk /\ new.todo = call.todo
          /\ new.asked = call.asked \cup {n}
      BY <2>1, <2>2 DEF CollectCall
    <2>4. collector' = [collector EXCEPT ![g] = new] /\ chunks' = chunks
      <3>1. [call EXCEPT !.asked = @ \cup {n}] = new
        BY <2>1, <2>2 DEF CollectCall
      <3>2. QED
        BY <1>5, <3>1 DEF DeleteFromNode, tables, GCInv
    <2>5. NoOverlap \/ \A h \in Collectors : CollectSound(collector[h])'
      BY <1>5, <2>3, <2>4, IdleIsNoCollection DEF GCInv, CollectSound, DeleteFromNode
    <2>6. CASE stored' = [stored EXCEPT ![n] = @ \ {call.chunk}] /\ UNCHANGED failures
      <3>1. Lost' \subseteq Lost
        <4>1. ASSUME NEW m \in Nodes, NEW d \in Chunks, <<m, d>> \in Lost'
              PROVE  <<m, d>> \in Lost
          <5>1. d \in stored[m] /\ ~ (m = n /\ d = call.chunk)
            BY <2>6, <4>1 DEF Lost, GCInv
          <5>2. \/ d \notin chunks
                \/ \E h \in Collectors : /\ collector'[h] # Idle
                                         /\ collector'[h].chunk = d
                                         /\ m \in collector'[h].asked
            BY <2>4, <4>1 DEF Lost
          <5>3. ASSUME NEW h \in Collectors, collector'[h] # Idle,
                       collector'[h].chunk = d, m \in collector'[h].asked
                PROVE  /\ collector[h] # Idle
                       /\ collector[h].chunk = d /\ m \in collector[h].asked
            BY <1>5, <2>3, <2>4, <5>1, <5>3 DEF GCInv, DeleteFromNode
          <5>4. QED
            BY <5>1, <5>2, <5>3 DEF Lost
        <4>2. QED
          BY <4>1 DEF Lost
      <3>2. stored' \in [Nodes -> SUBSET Chunks]
        BY <2>6 DEF GCInv
      <3>3. IsFiniteSet(Lost)' /\ (Cardinality(Lost) <= failures)'
        <4>1. failures' \in Nat /\ failures <= failures'
          BY <2>6 DEF GCInv
        <4>2. QED
          BY <3>1, <4>1, LostShrinks
      <3>4. QED
        BY <2>3, <2>4, <2>5, <2>6, <3>2, <3>3 DEF GCInv
    <2>7. CASE Failure /\ UNCHANGED stored
      <3>1. Lost' \subseteq Lost \cup {<<n, call.chunk>>}
        BY <1>5, <2>3, <2>4, <2>7 DEF Lost, GCInv, DeleteFromNode
      <3>2. failures' = failures + 1
        BY <2>7 DEF Failure
      <3>3. IsFiniteSet(Lost)' /\ (Cardinality(Lost) <= failures)'
        BY <3>1, <3>2, LostGrows
      <3>4. QED
        BY <2>3, <2>4, <2>5, <2>7, <3>2, <3>3 DEF GCInv
    <2>8. QED
      BY <1>5, <2>6, <2>7 DEF DeleteFromNode
  <1>6. CASE DeleteChunkRow(g)
    <2>1. call \in CollectCall /\ call # Idle /\ call.asked = Nodes
      BY <1>1, <1>6 DEF DeleteChunkRow, AllNodesAsked
    <2>2. /\ chunks' = chunks \ {call.chunk} /\ UNCHANGED <<stored, failures>>
          /\ NextOrphan(g, call.todo) /\ call.todo \in SUBSET Chunks
      BY <1>6, <2>1 DEF DeleteChunkRow, CollectCall
    <2>3. NoOverlap \/ call.todo \subseteq chunks'
      BY <2>1, <2>2 DEF GCInv, CollectSound
    <2>4. \A n \in Nodes : call.chunk \in stored[n] => <<n, call.chunk>> \in Lost
      BY <2>1 DEF Lost, CollectCall
    <2>5. failures \in Nat /\ chunks \subseteq Chunks
      BY DEF GCInv
    <2>6. QED
      BY <1>3, <2>2, <2>3, <2>4, <2>5
  <1>7. CASE SkipOrphan(g)
    <2>1. call \in CollectCall /\ call # Idle
      BY <1>1, <1>7 DEF SkipOrphan
    <2>2. /\ chunks' = chunks /\ UNCHANGED stored /\ failures' = failures + 1
          /\ NextOrphan(g, call.todo) /\ call.todo \in SUBSET Chunks
      BY <1>7, <2>1 DEF SkipOrphan, CollectCall, tables, Failure
    <2>3. NoOverlap \/ call.todo \subseteq chunks'
      BY <2>1, <2>2 DEF GCInv, CollectSound
    <2>4. failures \in Nat /\ chunks \subseteq Chunks
      BY DEF GCInv
    <2>5. QED
      BY <1>3, <2>2, <2>3, <2>4
  <1>8. CASE CollectAborts(g)
    <2>1. /\ chunks' = chunks /\ UNCHANGED stored /\ failures' = failures + 1
          /\ collector' = [collector EXCEPT ![g] = Idle]
      BY <1>8 DEF CollectAborts, tables, Failure
    <2>2. NextOrphan(g, {})
      BY <2>1 DEF NextOrphan
    <2>3. failures \in Nat /\ chunks \subseteq Chunks
      BY DEF GCInv
    <2>4. QED
      BY <1>3, <2>1, <2>2, <2>3
  <1>9. QED
    BY <1>4, <1>5, <1>6, <1>7, <1>8 DEF CollectStep

\* A new chunk is none that a collector is deleting.
LEMMA StoreChunkInv ==
    ASSUME GCInv, NEW c \in Chunks, StoreChunk(c)
    PROVE  GCInv'
  <1>1. /\ c \notin chunks /\ chunks' = chunks \cup {c}
        /\ stored' = [n \in Nodes |-> stored[n] \cup {c}]
        /\ UNCHANGED <<collector, failures>>
    BY DEF StoreChunk, RegisterChunk
  <1>2. \A g \in Collectors : collector[g] # Idle => collector[g].chunk # c
    BY <1>1 DEF GCInv, CollectSound, StoreChunk, Collecting, NoOverlap
  <1>3. Lost' \subseteq Lost
    <2>1. ASSUME NEW n \in Nodes, NEW d \in Chunks, <<n, d>> \in Lost'
          PROVE  <<n, d>> \in Lost
      <3>1. d # c /\ d \in stored[n]
        BY <1>1, <1>2, <2>1 DEF Lost, GCInv
      <3>2. QED
        BY <1>1, <2>1, <3>1 DEF Lost
    <2>2. QED
      BY <2>1 DEF Lost
  <1>4. IsFiniteSet(Lost)' /\ (Cardinality(Lost) <= failures)'
    <2>1. failures' \in Nat /\ failures <= failures'
      BY <1>1 DEF GCInv
    <2>2. QED
      BY <1>3, <2>1, LostShrinks
  <1>5. NoOverlap \/ \A g \in Collectors : CollectSound(collector[g])'
    BY <1>1 DEF GCInv, CollectSound
  <1>6. stored' \in [Nodes -> SUBSET Chunks]
    BY <1>1 DEF GCInv
  <1>7. QED
    BY <1>1, <1>4, <1>5, <1>6 DEF GCInv

\* Nothing is lost at the start.
LEMMA GCInvInit ==
    ASSUME GCInit
    PROVE  GCInv
  <1>1. Lost = {}
    BY DEF GCInit, Lost
  <1>2. IsFiniteSet(Lost) /\ Cardinality(Lost) = 0
    BY <1>1, FS_EmptySet
  <1>3. QED
    BY <1>2 DEF GCInit, Init, GCInv, CollectSound

\* A node is left with bytes that the metadata store does not know by at most
\* one for each failure: when chunks are stored during a collection there is
\* only one collector, or else there may be any number.
THEOREM StrayBytesBounded ==
    ASSUME Alone
    PROVE  GCSpec => []StrayBytesFromFailures
  <1>1. ASSUME GCInv, [GCNext]_gcVars
        PROVE  GCInv'
    <2>1. CASE UNCHANGED gcVars \/ VersionStep
      <3>1. UNCHANGED <<chunks, stored, collector>> /\ failures' \in Nat /\ failures <= failures'
        BY <1>1, <2>1, VersionStepKeepsChunks DEF gcVars, vars, GCInv
      <3>2. Lost' \subseteq Lost
        BY <3>1 DEF Lost
      <3>3. IsFiniteSet(Lost)' /\ (Cardinality(Lost) <= failures)'
        BY <1>1, <3>1, <3>2, LostShrinks
      <3>4. QED
        BY <1>1, <3>1, <3>3 DEF GCInv, CollectSound
    <2>2. QED
      BY <1>1, <2>1, CollectorInv, StoreChunkInv DEF GCNext
  <1>2. GCInv => StrayBytesFromFailures
    <2>1. SUFFICES ASSUME GCInv PROVE StrayBytesFromFailures
      OBVIOUS
    <2>2. Stray \subseteq Lost
      BY DEF Stray, Lost
    <2>3. IsFiniteSet(Stray) /\ Cardinality(Stray) <= Cardinality(Lost)
      BY <2>1, <2>2, FS_Subset DEF GCInv
    <2>4. Cardinality(Stray) \in Nat /\ Cardinality(Lost) \in Nat
      BY <2>1, <2>3, FS_CardinalityType DEF GCInv
    <2>5. QED
      BY <2>1, <2>3, <2>4 DEF GCInv, StrayBytesFromFailures
  <1>3. QED
    BY GCInvInit, <1>1, <1>2, PTL DEF GCSpec

\* One call of pruneVersions at a time.
OnePruner == \A q, r \in Pruners : q = r

-----------------------------------------------------------------------------
\* Going on with the next orphan keeps the collectors' type.
LEMMA NextOrphanType ==
    ASSUME GCTypeOK, NEW g \in Collectors, NEW todo \in SUBSET Chunks, NextOrphan(g, todo)
    PROVE  collector' \in [Collectors -> {Idle} \cup CollectCall]
  <1>1. ASSUME NEW c \in todo
        PROVE  [at |-> "delete", chunk |-> c, asked |-> {}, todo |-> todo \ {c}] \in CollectCall
    BY DEF CollectCall
  <1>2. QED
    BY <1>1 DEF NextOrphan, GCTypeOK

\* The collectors change nothing of the version manager but the rows of the
\* chunks, of which they delete some, and the failures.
LEMMA CollectorKeeps ==
    ASSUME GCTypeOK, NEW g \in Collectors,
           CollectStep(g) \/ SkipOrphan(g) \/ CollectAborts(g)
    PROVE  /\ UNCHANGED <<files, currentVersion, versions, refCount, creator, pruner>>
           /\ chunks' \subseteq chunks
           /\ failures' \in 0..MaxFailures
           /\ failures' = 0 => failures = 0
  <1>1. UNCHANGED <<files, currentVersion, versions, refCount, creator, pruner>>
    BY DEF CollectStep, SkipOrphan, CollectAborts, ListOrphans, DeleteFromNode, DeleteChunkRow, vars, tables
  <1>2. chunks' \subseteq chunks
    BY DEF CollectStep, SkipOrphan, CollectAborts, ListOrphans, DeleteFromNode, DeleteChunkRow, vars, tables
  <1>3. UNCHANGED failures \/ Failure
    BY DEF CollectStep, SkipOrphan, CollectAborts, ListOrphans, DeleteFromNode, DeleteChunkRow, vars, tables
  <1>4. QED
    BY <1>1, <1>2, <1>3, FailureBound DEF GCTypeOK, TypeOK, Failure

\* The steps of a collector keep the types.
LEMMA CollectorType ==
    ASSUME GCTypeOK, NEW g \in Collectors,
           CollectStep(g) \/ SkipOrphan(g) \/ CollectAborts(g)
    PROVE  GCTypeOK'
  <1> DEFINE call == collector[g]
  <1>1. call # Idle => call \in CollectCall
    BY DEF GCTypeOK
  <1>2. TypeOK'
    BY CollectorKeeps DEF GCTypeOK, TypeOK
  <1>3. CASE ListOrphans(g)
    BY <1>2, <1>3, NextOrphanType DEF ListOrphans, Orphans, GCTypeOK, TypeOK
  <1>4. ASSUME NEW n \in Nodes, DeleteFromNode(g, n)
        PROVE  GCTypeOK'
    <2>1. [call EXCEPT !.asked = @ \cup {n}] \in CollectCall
      BY <1>1, <1>4 DEF DeleteFromNode, CollectCall
    <2>2. stored' \in [Nodes -> SUBSET Chunks]
      BY <1>4 DEF DeleteFromNode, GCTypeOK
    <2>3. QED
      BY <1>2, <1>4, <2>1, <2>2 DEF DeleteFromNode, GCTypeOK
  <1>5. CASE DeleteChunkRow(g)
    BY <1>1, <1>2, <1>5, NextOrphanType DEF DeleteChunkRow, CollectCall, GCTypeOK
  <1>6. CASE SkipOrphan(g)
    BY <1>1, <1>2, <1>6, NextOrphanType DEF SkipOrphan, CollectCall, GCTypeOK
  <1>7. CASE CollectAborts(g)
    BY <1>2, <1>7 DEF CollectAborts, GCTypeOK
  <1>8. QED
    BY <1>3, <1>4, <1>5, <1>6, <1>7 DEF CollectStep

\* The other steps are steps of the version manager.
LEMMA VersionSteps ==
    VersionStep \/ (\E c \in Chunks : StoreChunk(c)) => Next /\ UNCHANGED collector
  BY DEF VersionStep, StoreChunk, Next, EnvironmentStep

\* Every step keeps the types.
LEMMA GCStepType == GCTypeOK /\ [GCNext]_gcVars => GCTypeOK'
  <1> SUFFICES ASSUME GCTypeOK, [GCNext]_gcVars
               PROVE  GCTypeOK'
    OBVIOUS
  <1>1. CASE UNCHANGED gcVars
    BY <1>1, StepType DEF gcVars, GCTypeOK
  <1>2. CASE VersionStep
    BY <1>2, VersionSteps, StepType DEF VersionStep, GCTypeOK
  <1>3. ASSUME NEW c \in Chunks, StoreChunk(c)
        PROVE  GCTypeOK'
    <2>1. TypeOK' /\ UNCHANGED collector
      BY <1>3, VersionSteps, StepType DEF GCTypeOK
    <2>2. stored' \in [Nodes -> SUBSET Chunks]
      BY <1>3 DEF StoreChunk, GCTypeOK
    <2>3. QED
      BY <2>1, <2>2 DEF GCTypeOK
  <1>4. QED
    BY <1>1, <1>2, <1>3, CollectorType DEF GCNext

\* The initial state has the types.
LEMMA GCInitType == GCInit => GCTypeOK
  BY InitType DEF GCInit, GCTypeOK

\* The collectors, the nodes and all of the version manager keep their types.
THEOREM CollectionTypeCorrect == GCSpec => []GCTypeOK
  BY GCInitType, GCStepType, PTL DEF GCSpec

-----------------------------------------------------------------------------
\* A call of createVersion that has inserted its row and is counting its chunks.
Counting(p) == creator[p].at \in {"count", "update"}

\* What a call of createVersion relies on: its chunks are registered, and the
\* row it has inserted is there as long as the file is.
CreateSound(call) ==
    call # Idle =>
        /\ \A k \in 1..Len(call.hashes) : call.hashes[k] \in chunks
        /\ call.at = "insert" => call.i = 1
        /\ call.at = "update" => call.i <= Len(call.hashes)
        /\ call.at # "insert" /\ call.file \in files =>
               /\ call.next \in Numbers(call.file)
               /\ versions[call.file][call.next] = [hashes |-> call.hashes, old |-> FALSE]

\* What a call of pruneVersions relies on: the rows on its list are those of
\* the table as long as the file is there.
PruneSound(call) ==
    call # Idle =>
        /\ call.file \in files =>
               \A n \in DOMAIN call.todo : /\ n \in Numbers(call.file)
                                           /\ versions[call.file][n] = call.todo[n]
                                           /\ call.todo[n].old
        /\ call.at = "update" =>
               \A v \in DOMAIN call.todo :
                   (\A n \in DOMAIN call.todo : v <= n) => call.i <= Len(call.todo[v].hashes)

\* A deleted file has no rows: the database deletes them with it.
RowsHaveFiles == \A f \in Files \ files : Numbers(f) = {}

\* No two calls count the uses of the same row.
NumbersOnce ==
    \A p, r \in Creators :
        /\ Counting(p) /\ Counting(r)
        /\ creator[p].file \in files
        /\ creator[p].file = creator[r].file
        /\ creator[p].next = creator[r].next
        => p = r

\* What the calls in flight rely on, together, and that no version is created
\* during a collection.
CallsSound ==
    /\ RowsHaveFiles
    /\ \A p \in Creators : CreateSound(creator[p])
    /\ \A q \in Pruners : PruneSound(pruner[q])
    /\ NumbersOnce
    /\ Collecting => ~ CreateInFlight

\* The insert adds one row and moves the call on.
LEMMA InsertEffect ==
    ASSUME TypeOK, NEW p \in Creators, InsertVersion(p)
    PROVE  LET call == creator[p]
               F == call.file
               n == call.next
           IN  /\ call \in CreateCall /\ call.at = "insert"
               /\ F \in files /\ F \in Files /\ n \notin Numbers(F)
               /\ DOMAIN versions'[F] = Numbers(F) \cup {n}
               /\ versions'[F][n] = [hashes |-> call.hashes, old |-> FALSE]
               /\ \A m \in Numbers(F) : versions'[F][m] = versions[F][m]
               /\ \A f \in Files : f # F => versions'[f] = versions[f]
               /\ creator' = [creator EXCEPT ![p] = [call EXCEPT !.at = "count"]]
               /\ UNCHANGED <<files, currentVersion, chunks, refCount, pruner, failures>>
  <1> DEFINE call == creator[p]
             F == call.file
             n == call.next
  <1>1. call \in CreateCall /\ call.at = "insert"
    BY CreateCallType, IdleIsNoCall DEF InsertVersion
  <1>2. F \in files /\ F \in Files /\ n \notin Numbers(F)
    BY <1>1 DEF InsertVersion, InsertAccepted, CreateCall
  <1>3. versions' = [versions EXCEPT ![F] = InsertRow(versions[F], n, [hashes |-> call.hashes, old |-> FALSE])]
    BY DEF InsertVersion
  <1>4. /\ versions'[F] = InsertRow(versions[F], n, [hashes |-> call.hashes, old |-> FALSE])
        /\ \A f \in Files : f # F => versions'[f] = versions[f]
    BY <1>2, <1>3 DEF TypeOK
  <1>5. /\ DOMAIN versions'[F] = Numbers(F) \cup {n}
        /\ versions'[F][n] = [hashes |-> call.hashes, old |-> FALSE]
        /\ \A m \in Numbers(F) : versions'[F][m] = versions[F][m]
    BY <1>2, <1>4 DEF InsertRow, Numbers
  <1>6. QED
    BY <1>1, <1>2, <1>4, <1>5 DEF InsertVersion

\* The other steps of createVersion only move the call on, and count.
LEMMA CreateEffect ==
    ASSUME TypeOK, NEW p \in Creators, CreateStep(p), ~ InsertVersion(p)
    PROVE  UNCHANGED <<files, versions, chunks, pruner>>
  BY DEF CreateStep, ListVersions, InsertRejected, CheckChunk, IncrementChunk, PublishVersion,
         IncrementFails, CreateAborts, tables

\* A call that has moved on is as sound as before.
LEMMA CreateSoundStep ==
    ASSUME TypeOK, CallsSound, NEW p \in Creators, CreateStep(p), ~ InsertVersion(p)
    PROVE  /\ creator' = [creator EXCEPT ![p] = creator'[p]]
           /\ CreateSound(creator[p])'
           /\ Counting(p)' => /\ Counting(p)
                              /\ creator'[p].file = creator[p].file
                              /\ creator'[p].next = creator[p].next
  <1> DEFINE call == creator[p]
  <1>0. UNCHANGED <<files, versions, chunks>>
    BY CreateEffect
  <1>1. call # Idle => call \in CreateCall
    BY CreateCallType
  <1>2. call.at # "idle" => call # Idle
    BY IdleIsNoCall
  <1>3. CreateSound(call)
    BY DEF CallsSound
  <1>4. ASSUME NEW new, creator' = [creator EXCEPT ![p] = new],
               new = Idle \/ (/\ call \in CreateCall
                              /\ new \in CreateCall /\ new.hashes = call.hashes
                              /\ new.file = call.file /\ new.next = call.next
                              /\ call.at \in {"count", "update"}
                              /\ new.at = "count" \/ (new.at = "update" /\ new.i <= Len(new.hashes)))
        PROVE  /\ creator' = [creator EXCEPT ![p] = creator'[p]]
               /\ CreateSound(creator[p])'
               /\ Counting(p)' => /\ Counting(p)
                                  /\ creator'[p].file = creator[p].file
                                  /\ creator'[p].next = creator[p].next
    <2>1. creator'[p] = new
      BY <1>4 DEF TypeOK
    <2>2. CASE new = Idle
      BY <1>4, <2>1, <2>2, IdleIsNoCall DEF CreateSound, Counting
    <2>3. CASE new # Idle
      <3>1. /\ call # Idle /\ call.at # "insert"
            /\ new.hashes = call.hashes /\ new.file = call.file /\ new.next = call.next
            /\ new.at = "count" \/ (new.at = "update" /\ new.i <= Len(new.hashes))
        BY <1>4, <2>3, IdleIsNoCall
      <3>2. CreateSound(creator[p])'
        BY <1>0, <1>3, <2>1, <3>1 DEF CreateSound, Numbers
      <3>3. QED
        BY <1>4, <2>1, <2>3, <3>1, <3>2 DEF Counting
    <2>4. QED
      BY <2>2, <2>3
  <1>5. ASSUME NEW f \in Files, NEW hashes \in Contents, ListVersions(p, f, hashes)
        PROVE  /\ creator' = [creator EXCEPT ![p] = creator'[p]]
               /\ CreateSound(creator[p])'
               /\ ~ Counting(p)'
    BY <1>0, <1>5 DEF ListVersions, CreateSound, Counting, TypeOK
  <1>6. CASE InsertRejected(p) \/ CreateAborts(p) \/ PublishVersion(p)
    BY <1>4, <1>6 DEF InsertRejected, CreateAborts, PublishVersion
  <1>7. CASE CheckChunk(p)
    <2>1. call \in CreateCall /\ call.at = "count" /\ call.i <= Len(call.hashes)
      <3>1. call \in CreateCall /\ call.at = "count" /\ ~ (call.i > Len(call.hashes))
        BY <1>1, <1>2, <1>7 DEF CheckChunk, AllCounted
      <3>2. Len(call.hashes) \in Nat /\ call.i \in Nat
        BY <3>1, ContentsAssumption DEF CreateCall
      <3>3. QED
        BY <3>1, <3>2
    <2>2. creator' = [creator EXCEPT ![p] = [call EXCEPT !.at = "update"]] \/
          creator' = [creator EXCEPT ![p] = [call EXCEPT !.i = @ + 1]]
      BY <1>7 DEF CheckChunk
    <2>3. CASE creator' = [creator EXCEPT ![p] = [call EXCEPT !.at = "update"]]
      BY <1>4, <2>1, <2>3, CreateCallUpdates DEF CreateCall
    <2>4. CASE creator' = [creator EXCEPT ![p] = [call EXCEPT !.i = @ + 1]]
      BY <1>4, <2>1, <2>4, CreateCallUpdates DEF CreateCall
    <2>5. QED
      BY <2>2, <2>3, <2>4
  <1>8. CASE IncrementChunk(p) \/ IncrementFails(p)
    <2>1. call \in CreateCall /\ call.at \in {"count", "update"}
      BY <1>1, <1>2, <1>8 DEF IncrementChunk, IncrementFails
    <2>2. creator' = [creator EXCEPT ![p] = [call EXCEPT !.at = "count", !.i = @ + 1]]
      BY <1>8 DEF IncrementChunk, IncrementFails
    <2>3. PICK new : new = [call EXCEPT !.at = "count", !.i = @ + 1]
      OBVIOUS
    <2>4. /\ new \in CreateCall /\ new.hashes = call.hashes /\ new.at = "count"
          /\ new.file = call.file /\ new.next = call.next
      BY <2>1, <2>3, CreateCallUpdates DEF CreateCall
    <2>5. QED
      BY <1>4, <2>1, <2>2, <2>3, <2>4
  <1>9. QED
    BY <1>5, <1>6, <1>7, <1>8 DEF CreateStep

\* A step of createVersion keeps what the calls rely on.
LEMMA CreateStepSound ==
    ASSUME TypeOK, CallsSound, NEW p \in Creators, CreateStep(p), ~ Collecting, UNCHANGED collector
    PROVE  CallsSound'
  <1>1. ~ Collecting'
    BY DEF Collecting
  <1>2. CASE ~ InsertVersion(p)
    <2>1. UNCHANGED <<files, versions, chunks, pruner>>
      BY <1>2, CreateEffect
    <2>2. /\ creator' = [creator EXCEPT ![p] = creator'[p]]
          /\ CreateSound(creator[p])'
          /\ Counting(p)' => /\ Counting(p)
                             /\ creator'[p].file = creator[p].file
                             /\ creator'[p].next = creator[p].next
      BY <1>2, CreateSoundStep
    <2>3. \A r \in Creators \ {p} : creator'[r] = creator[r]
      BY <2>2 DEF TypeOK
    <2>4. \A r \in Creators : CreateSound(creator[r])'
      BY <2>1, <2>2, <2>3 DEF CallsSound, CreateSound, Numbers
    <2>5. \A q \in Pruners : PruneSound(pruner[q])'
      BY <2>1 DEF CallsSound, PruneSound, Numbers
    <2>6. NumbersOnce'
      BY <2>1, <2>2, <2>3 DEF CallsSound, NumbersOnce, Counting
    <2>7. RowsHaveFiles'
      BY <2>1 DEF CallsSound, RowsHaveFiles, Numbers
    <2>8. QED
      BY <1>1, <2>4, <2>5, <2>6, <2>7 DEF CallsSound
  <1>3. CASE InsertVersion(p)
    <2> DEFINE call == creator[p]
               F == call.file
               n == call.next
    <2>1. /\ call \in CreateCall /\ call.at = "insert"
          /\ F \in files /\ F \in Files /\ n \notin Numbers(F)
          /\ DOMAIN versions'[F] = Numbers(F) \cup {n}
          /\ versions'[F][n] = [hashes |-> call.hashes, old |-> FALSE]
          /\ \A m \in Numbers(F) : versions'[F][m] = versions[F][m]
          /\ \A f \in Files : f # F => versions'[f] = versions[f]
          /\ creator' = [creator EXCEPT ![p] = [call EXCEPT !.at = "count"]]
          /\ UNCHANGED <<files, currentVersion, chunks, refCount, pruner, failures>>
      BY <1>3, InsertEffect
    <2>2. \A r \in Creators \ {p} : creator'[r] = creator[r]
      BY <2>1 DEF TypeOK
    <2>3. /\ creator'[p].at = "count" /\ creator'[p].file = F /\ creator'[p].next = n
          /\ creator'[p].hashes = call.hashes
      BY <2>1 DEF TypeOK, CreateCall
    <2>4. \A f \in Files : \A m \in Numbers(f) : m \in Numbers(f)' /\ versions'[f][m] = versions[f][m]
      BY <2>1 DEF Numbers
    <2>5. ASSUME NEW r \in Creators
          PROVE  CreateSound(creator[r])'
      <3>1. CASE r = p
        <4>1. call # Idle
          BY <2>1, IdleIsNoCall
        <4>2. CreateSound(call)
          BY DEF CallsSound
        <4>3. QED
          BY <2>1, <2>3, <3>1, <4>1, <4>2 DEF CreateSound, Numbers
      <3>2. CASE r # p
        <4>1. creator'[r] = creator[r] /\ CreateSound(creator[r])
          BY <2>2, <3>2 DEF CallsSound
        <4>2. creator[r] # Idle => creator[r].file \in Files
          BY CreateCallType DEF CreateCall
        <4>3. PICK other : other = creator[r]
          OBVIOUS
        <4>4. other # Idle => other.file \in Files
          BY <4>2, <4>3
        <4>5. CreateSound(other)
          BY <4>1, <4>3
        <4>6. CreateSound(other)'
          BY <2>1, <2>4, <4>4, <4>5 DEF CreateSound, Numbers
        <4>7. QED
          BY <4>1, <4>3, <4>6 DEF CreateSound
      <3>3. QED
        BY <3>1, <3>2
    <2>6. ASSUME NEW q \in Pruners
          PROVE  PruneSound(pruner[q])'
      <3>1. pruner'[q] = pruner[q] /\ PruneSound(pruner[q])
        BY <2>1 DEF CallsSound
      <3>2. pruner[q] # Idle => pruner[q].file \in Files
        BY DEF TypeOK, IsPruneCall
      <3>3. QED
        BY <2>1, <2>4, <3>1, <3>2 DEF PruneSound
    <2>7. NumbersOnce'
      <3>1. ASSUME NEW r \in Creators, r # p, Counting(r)', creator'[r].file = F, creator'[r].next = n
            PROVE  FALSE
        <4>1. creator[r] # Idle /\ creator[r].at # "insert" /\ creator[r].file = F /\ creator[r].next = n
          BY <2>2, <3>1, IdleIsNoCall DEF Counting
        <4>2. CreateSound(creator[r])
          BY DEF CallsSound
        <4>3. QED
          BY <2>1, <4>1, <4>2 DEF CreateSound
      <3>2. QED
        BY <2>1, <2>2, <2>3, <3>1 DEF CallsSound, NumbersOnce, Counting
    <2>8. RowsHaveFiles'
      BY <2>1 DEF CallsSound, RowsHaveFiles, Numbers
    <2>9. QED
      BY <1>1, <2>5, <2>6, <2>7, <2>8 DEF CallsSound
  <1>4. QED
    BY <1>2, <1>3

\* A call of pruneVersions that has moved on is as sound as before, and what
\* it deletes is on its list.
LEMMA PruneStepSound ==
    ASSUME TypeOK, OnePruner, CallsSound, NEW q \in Pruners, PruneStep(q), UNCHANGED collector
    PROVE  CallsSound'
  <1> DEFINE call == pruner[q]
  <1>1. Pruners = {q}
    BY DEF OnePruner
  <1>2. UNCHANGED <<files, chunks, creator>>
    BY DEF PruneStep, SnapshotVersions, PruneAborts, CheckCount, DecrementChunk, DeleteVersion,
           DecrementFails, tables
  <1>3. Collecting' = Collecting /\ CreateInFlight' = CreateInFlight
    BY <1>2 DEF Collecting, CreateInFlight
  <1>4. NumbersOnce'
    BY <1>2 DEF CallsSound, NumbersOnce, Counting
  <1>5. PruneSound(call)
    BY DEF CallsSound
  <1>6. ASSUME NEW v \in Remaining(q)
        PROVE  /\ IsPruneCall(call) /\ call # Idle /\ DOMAIN call.todo \subseteq Nat
               /\ Remaining(q) = DOMAIN call.todo /\ call.file \in Files
    BY DEF Remaining, TypeOK, IsPruneCall, IsTable, VersionNumbers
  <1>7. ASSUME UNCHANGED versions, PruneSound(pruner[q])'
        PROVE  CallsSound'
    <2>1. \A p \in Creators : CreateSound(creator[p])'
      BY <1>2, <1>7 DEF CallsSound, CreateSound, Numbers
    <2>2. RowsHaveFiles'
      BY <1>2, <1>7 DEF CallsSound, RowsHaveFiles, Numbers
    <2>3. \A r \in Pruners : PruneSound(pruner[r])'
      BY <1>1, <1>7
    <2>4. QED
      BY <1>3, <1>4, <2>1, <2>2, <2>3 DEF CallsSound
  <1>8. ASSUME NEW new, creator' = creator, UNCHANGED versions, IsPruneCall(call), call # Idle,
               pruner' = [pruner EXCEPT ![q] = new],
               new.file = call.file, new.todo = call.todo,
               new.at = "update" =>
                   \A v \in DOMAIN call.todo :
                       (\A n \in DOMAIN call.todo : v <= n) => new.i <= Len(call.todo[v].hashes)
        PROVE  CallsSound'
    <2>1. pruner'[q] = new
      BY <1>8 DEF TypeOK
    <2>2. PruneSound(pruner[q])'
      BY <1>2, <1>5, <1>8, <2>1 DEF PruneSound, Numbers
    <2>3. QED
      BY <1>7, <1>8, <2>2
  <1>9. ASSUME NEW f \in Files, SnapshotVersions(q, f)
        PROVE  CallsSound'
    <2> DEFINE expired == {n \in Numbers(f) : Prunable(f, n)}
    <2>1. PICK new : new = [at |-> "count", file |-> f, todo |-> [n \in expired |-> versions[f][n]], i |-> 1]
      OBVIOUS
    <2>2. pruner'[q] = new /\ UNCHANGED versions
      BY <1>9, <2>1 DEF SnapshotVersions, tables, TypeOK
    <2>3. /\ new.file = f /\ new.at = "count" /\ DOMAIN new.todo = expired
          /\ \A n \in expired : /\ n \in Numbers(f) /\ versions[f][n].old
                               /\ new.todo[n] = versions[f][n]
      BY <2>1 DEF Prunable
    <2>4. PruneSound(new)'
      BY <1>2, <2>2, <2>3 DEF PruneSound, Numbers
    <2>5. QED
      BY <1>7, <2>2, <2>4 DEF PruneSound
  <1>10. CASE PruneAborts(q)
    <2>1. pruner'[q] = Idle /\ UNCHANGED versions
      BY <1>10 DEF PruneAborts, tables, TypeOK
    <2>2. QED
      BY <1>7, <2>1 DEF PruneSound
  <1>11. ASSUME NEW v \in Remaining(q), CheckCount(q, v)
         PROVE  CallsSound'
    <2>1. IsPruneCall(call) /\ call # Idle /\ Remaining(q) = DOMAIN call.todo /\ DOMAIN call.todo \subseteq Nat
      BY <1>6
    <2>2. call.at = "count" /\ call.i <= Len(call.todo[v].hashes)
      <3>1. call.at = "count" /\ ~ (call.i > Len(call.todo[v].hashes))
        BY <1>11 DEF CheckCount, AllReleased
      <3>2. call.todo[v] \in VersionRow
        BY <2>1 DEF IsPruneCall, IsTable
      <3>3. Len(call.todo[v].hashes) \in Nat
        BY <3>2, ContentsAssumption DEF VersionRow
      <3>4. QED
        BY <2>1, <3>1, <3>3 DEF IsPruneCall
    <2>3. \A w \in DOMAIN call.todo : (\A n \in DOMAIN call.todo : w <= n) => w = v
      BY <1>11, <2>1 DEF CheckCount, IsTarget
    <2>4. CASE pruner' = [pruner EXCEPT ![q] = [call EXCEPT !.at = "update"]]
      <3>1. PICK new : new = [call EXCEPT !.at = "update"]
        OBVIOUS
      <3>2. new.file = call.file /\ new.todo = call.todo /\ new.i = call.i
        BY <2>1, <3>1 DEF IsPruneCall
      <3>3. QED
        BY <1>2, <1>8, <1>11, <2>1, <2>2, <2>3, <2>4, <3>1, <3>2 DEF CheckCount, tables
    <2>5. CASE pruner' = [pruner EXCEPT ![q] = [call EXCEPT !.i = @ + 1]]
      <3>1. PICK new : new = [call EXCEPT !.i = @ + 1]
        OBVIOUS
      <3>2. new.file = call.file /\ new.todo = call.todo /\ new.at = "count"
        BY <2>1, <2>2, <3>1 DEF IsPruneCall
      <3>3. QED
        BY <1>2, <1>8, <1>11, <2>1, <2>5, <3>1, <3>2 DEF CheckCount, tables
    <2>6. QED
      BY <1>11, <2>4, <2>5 DEF CheckCount
  <1>12. ASSUME NEW v \in Remaining(q), DecrementChunk(q, v) \/ DecrementFails(q, v)
         PROVE  CallsSound'
    <2>1. IsPruneCall(call) /\ call # Idle
      BY <1>6
    <2>2. PICK new : new = [call EXCEPT !.at = "count", !.i = @ + 1]
      OBVIOUS
    <2>3. new.file = call.file /\ new.todo = call.todo /\ new.at = "count"
      BY <2>1, <2>2 DEF IsPruneCall
    <2>4. pruner' = [pruner EXCEPT ![q] = new] /\ UNCHANGED versions
      BY <1>12, <2>2 DEF DecrementChunk, DecrementFails, tables
    <2>5. QED
      BY <1>2, <1>8, <2>1, <2>3, <2>4
  <1>13. ASSUME NEW v \in Remaining(q), DeleteVersion(q, v)
         PROVE  CallsSound'
    <2> DEFINE F == call.file
    <2>1. /\ IsPruneCall(call) /\ call # Idle /\ Remaining(q) = DOMAIN call.todo /\ F \in Files
          /\ v \in DOMAIN call.todo
      BY <1>6
    <2>2. /\ DOMAIN versions'[F] = Numbers(F) \ {v}
          /\ \A n \in Numbers(F) \ {v} : versions'[F][n] = versions[F][n]
          /\ \A f \in Files : f # F => versions'[f] = versions[f]
      BY <1>13, <2>1 DEF DeleteVersion, DeleteRows, Numbers, TypeOK
    <2>3. F \in files => /\ \A n \in DOMAIN call.todo : /\ n \in Numbers(F)
                                                        /\ versions[F][n] = call.todo[n]
                                                        /\ call.todo[n].old
      BY <1>5, <2>1 DEF PruneSound
    <2>4. PruneSound(pruner[q])'
      <3>1. CASE pruner'[q] = Idle
        BY <3>1 DEF PruneSound
      <3>2. CASE pruner'[q] # Idle
        <4>1. pruner'[q] = [at |-> "count", file |-> F, todo |-> DeleteRows(call.todo, {v}), i |-> 1]
          BY <1>13, <3>2 DEF DeleteVersion, TypeOK
        <4>2. /\ pruner'[q].at = "count" /\ pruner'[q].file = F
              /\ DOMAIN pruner'[q].todo = DOMAIN call.todo \ {v}
              /\ \A n \in DOMAIN call.todo \ {v} : pruner'[q].todo[n] = call.todo[n]
          BY <4>1 DEF DeleteRows
        <4>3. QED
          BY <1>2, <2>2, <2>3, <4>2 DEF PruneSound, Numbers
      <3>3. QED
        BY <3>1, <3>2
    <2>5. ASSUME NEW p \in Creators
          PROVE  CreateSound(creator[p])'
      <3>1. PICK other : other = creator[p]
        OBVIOUS
      <3>2. other # Idle => other.file \in Files
        BY <3>1, CreateCallType DEF CreateCall
      <3>3. CreateSound(other)
        BY <3>1 DEF CallsSound
      <3>4. CASE other # Idle /\ other.at # "insert" /\ other.file \in files
        <4>1. /\ other.next \in Numbers(other.file)
              /\ versions[other.file][other.next] = [hashes |-> other.hashes, old |-> FALSE]
          BY <3>3, <3>4 DEF CreateSound
        <4>2. ~ versions[other.file][other.next].old
          BY <4>1
        <4>3. other.file = F => other.next # v
          BY <2>1, <2>3, <3>4, <4>2
        <4>4. /\ other.next \in DOMAIN versions'[other.file]
              /\ versions'[other.file][other.next] = versions[other.file][other.next]
          BY <2>2, <3>2, <3>4, <4>1, <4>3 DEF Numbers
        <4>5. QED
          BY <1>2, <3>1, <3>3, <3>4, <4>1, <4>4 DEF CreateSound, Numbers
      <3>5. CASE ~ (other # Idle /\ other.at # "insert" /\ other.file \in files)
        BY <1>2, <3>1, <3>3, <3>5 DEF CreateSound
      <3>6. QED
        BY <3>4, <3>5
    <2>6. RowsHaveFiles'
      BY <1>2, <2>2 DEF CallsSound, RowsHaveFiles, Numbers
    <2>7. QED
      BY <1>1, <1>3, <1>4, <2>4, <2>5, <2>6 DEF CallsSound
  <1>14. QED
    BY <1>9, <1>10, <1>11, <1>12, <1>13 DEF PruneStep

\* Registering a chunk, deleting a file and the passing of time.
LEMMA EnvironmentStepSound ==
    ASSUME TypeOK, CallsSound, EnvironmentStep, UNCHANGED collector
    PROVE  CallsSound'
  <1>1. UNCHANGED <<creator, pruner>>
    BY DEF EnvironmentStep, RegisterChunk, DeleteFile, RetentionPasses
  <1>2. chunks \subseteq chunks' /\ files' \subseteq files
    BY DEF EnvironmentStep, RegisterChunk, DeleteFile, RetentionPasses
  <1>3. Collecting' = Collecting /\ CreateInFlight' = CreateInFlight
    BY <1>1 DEF Collecting, CreateInFlight
  <1>4. NumbersOnce'
    BY <1>1, <1>2 DEF CallsSound, NumbersOnce, Counting
  <1>5. \A f \in Files : /\ DOMAIN versions'[f] \subseteq Numbers(f)
                         /\ f \in files' => DOMAIN versions'[f] = Numbers(f)
    <2>1. ASSUME NEW f \in Files, DeleteFile(f)
          PROVE  \A g \in Files : versions'[g] = IF g = f THEN EmptyTable ELSE versions[g]
      BY <2>1 DEF DeleteFile, TypeOK
    <2>2. DOMAIN EmptyTable = {}
      BY DEF EmptyTable
    <2>3. CASE UNCHANGED versions \/ RetentionPasses
      BY <2>3 DEF RetentionPasses, Numbers
    <2>4. QED
      BY <2>1, <2>2, <2>3 DEF EnvironmentStep, RegisterChunk, DeleteFile, Numbers
  <1>6. RowsHaveFiles'
    <2>1. ASSUME NEW f \in Files, DeleteFile(f)
          PROVE  files' = files \ {f} /\ DOMAIN versions'[f] = {}
      BY <2>1 DEF DeleteFile, TypeOK, EmptyTable
    <2>2. QED
      BY <1>2, <1>5, <2>1 DEF CallsSound, RowsHaveFiles, Numbers, EnvironmentStep, RegisterChunk, RetentionPasses
  <1>7. ASSUME NEW f \in files', f \in Files, NEW n \in Numbers(f), versions[f][n] \in VersionRow
        PROVE  \/ versions'[f][n] = versions[f][n]
               \/ ~ CreateInFlight /\ versions'[f][n].old /\ versions'[f][n].hashes = versions[f][n].hashes
                  /\ (versions[f][n].old => versions'[f][n] = versions[f][n])
    <2>1. CASE RetentionPasses
      BY <1>7, <2>1 DEF RetentionPasses, VersionRow
    <2>2. CASE ~ RetentionPasses
      BY <1>7, <2>2 DEF EnvironmentStep, RegisterChunk, DeleteFile, TypeOK
    <2>3. QED
      BY <2>1, <2>2
  <1>8. \A f \in Files : \A n \in Numbers(f) : versions[f][n] \in VersionRow
    BY DEF TypeOK, IsTable, Numbers
  <1>9. ASSUME NEW q \in Pruners
        PROVE  PruneSound(pruner[q])'
    <2>1. PICK call : call = pruner[q]
      OBVIOUS
    <2>2. PruneSound(call) /\ (call # Idle => call.file \in Files)
      BY <2>1 DEF CallsSound, TypeOK, IsPruneCall
    <2>3. PruneSound(call)'
      BY <1>2, <1>5, <1>7, <1>8, <2>2 DEF PruneSound, Numbers
    <2>4. QED
      BY <1>1, <2>1, <2>3 DEF PruneSound
  <1>10. ASSUME NEW p \in Creators
         PROVE  CreateSound(creator[p])'
    <2>1. PICK call : call = creator[p]
      OBVIOUS
    <2>2. CreateSound(call) /\ (call # Idle => call.file \in Files) /\ (call # Idle => CreateInFlight)
      BY <2>1, CreateCallType DEF CallsSound, CreateCall, CreateInFlight
    <2>3. CreateSound(call)'
      BY <1>2, <1>5, <1>7, <1>8, <2>2 DEF CreateSound, Numbers
    <2>4. QED
      BY <1>1, <2>1, <2>3 DEF CreateSound
  <1>11. QED
    BY <1>3, <1>4, <1>6, <1>9, <1>10 DEF CallsSound

\* Every step keeps what the calls rely on.
LEMMA CallsSoundStep ==
    ASSUME GCTypeOK, OnePruner, NoOverlap, CallsSound, [GCNext]_gcVars
    PROVE  CallsSound'
  <1>0. TypeOK
    BY DEF GCTypeOK
  <1>1. CASE UNCHANGED gcVars
    BY <1>1 DEF gcVars, vars, CallsSound, RowsHaveFiles, CreateSound, PruneSound, NumbersOnce,
                Counting, Collecting, CreateInFlight, Numbers
  <1>2. CASE VersionStep
    <2>1. UNCHANGED collector
      BY <1>2 DEF VersionStep
    <2>2. ASSUME NEW p \in Creators, CreateStep(p), ~ Collecting
          PROVE  CallsSound'
      BY <1>0, <2>1, <2>2, CreateStepSound
    <2>3. ASSUME NEW q \in Pruners, PruneStep(q)
          PROVE  CallsSound'
      BY <1>0, <2>1, <2>3, PruneStepSound
    <2>4. CASE EnvironmentStep
      BY <1>0, <2>1, <2>4, EnvironmentStepSound
    <2>5. QED
      BY <1>2, <2>2, <2>3, <2>4 DEF VersionStep, EnvironmentStep, NoOverlap
  <1>3. ASSUME NEW c \in Chunks, StoreChunk(c)
        PROVE  CallsSound'
    BY <1>0, <1>3, EnvironmentStepSound DEF StoreChunk, EnvironmentStep
  <1>4. ASSUME NEW g \in Collectors, CollectStep(g) \/ SkipOrphan(g) \/ CollectAborts(g)
        PROVE  CallsSound'
    <2>1. UNCHANGED <<files, versions, creator, pruner>>
      BY <1>4, CollectorKeeps
    <2>2. Collecting' => ~ CreateInFlight
      <3>1. ListOrphans(g) => ~ CreateInFlight
        BY DEF ListOrphans, NoOverlap
      <3>2. ~ ListOrphans(g) => Collecting
        BY <1>4 DEF CollectStep, DeleteFromNode, DeleteChunkRow, SkipOrphan, CollectAborts, Collecting
      <3>3. QED
        BY <3>1, <3>2 DEF CallsSound
    <2>3. CreateInFlight' = CreateInFlight
      BY <2>1 DEF CreateInFlight
    <2>4. chunks' = chunks \/ ~ CreateInFlight
      <3>1. chunks' = chunks \/ Collecting
        BY <1>4 DEF CollectStep, DeleteFromNode, DeleteChunkRow, SkipOrphan, CollectAborts, Collecting, ListOrphans, tables, vars
      <3>2. QED
        BY <3>1 DEF CallsSound
    <2>5. \A p \in Creators : CreateSound(creator[p])'
      BY <2>1, <2>4 DEF CallsSound, CreateSound, CreateInFlight, Numbers
    <2>6. \A q \in Pruners : PruneSound(pruner[q])'
      BY <2>1 DEF CallsSound, PruneSound, Numbers
    <2>7. NumbersOnce' /\ RowsHaveFiles'
      BY <2>1 DEF CallsSound, NumbersOnce, RowsHaveFiles, Counting, Numbers
    <2>8. QED
      BY <2>2, <2>3, <2>5, <2>6, <2>7 DEF CallsSound
  <1>5. QED
    BY <1>1, <1>2, <1>3, <1>4 DEF GCNext

-----------------------------------------------------------------------------
\* A call of createVersion has not counted place k of version n of file f yet.
Awaits(call, f, n, k) ==
    call.at \in {"count", "update"} /\ call.file = f /\ call.next = n /\ call.i <= k

\* A call of pruneVersions has released that place and not deleted the row yet.
Freed(call, f, n, k) ==
    /\ call # Idle /\ call.file = f
    /\ n \in DOMAIN call.todo /\ \A m \in DOMAIN call.todo : n <= m
    /\ call.i > k

\* A call of pruneVersions has the place, which uses chunk c, on its list.
Lists(call, c, f, n, k) ==
    /\ call # Idle /\ call.file = f
    /\ n \in DOMAIN call.todo
    /\ k \in 1..Len(call.todo[n].hashes) /\ call.todo[n].hashes[k] = c

\* Place k of version n of file f uses chunk c, by the table or by the list of
\* a call that prunes, and its use has been counted and not been released.
Uses(c, f, n, k) ==
    /\ \A q \in Pruners : ~ Freed(pruner[q], f, n, k)
    /\ \/ /\ n \in Numbers(f)
          /\ k \in 1..Len(versions[f][n].hashes) /\ versions[f][n].hashes[k] = c
          /\ \A p \in Creators : ~ Awaits(creator[p], f, n, k)
       \/ \E q \in Pruners : Lists(pruner[q], c, f, n, k)

\* Places where a version may use a chunk: a file, a version, an index.
Places == Files \X VersionNumbers \X (Nat \ {0})
\* The places that hold chunk c.
Held(c) == {u \in Places : Uses(c, u[1], u[2], u[3])}

\* Which places are held, before and after a step.
LEMMA HeldMembers ==
    ASSUME NEW c, NEW f \in Files, NEW n \in VersionNumbers, NEW k \in Nat \ {0}
    PROVE  /\ <<f, n, k>> \in Held(c) <=> Uses(c, f, n, k)
           /\ (<<f, n, k>> \in Held(c))' <=> Uses(c, f, n, k)'
  BY DEF Held, Places

\* A step that adds no use adds no place, and one that keeps the uses keeps
\* the places.
LEMMA HeldShrinks ==
    ASSUME NEW c, \A f \in Files, n \in VersionNumbers, k \in Nat \ {0} :
                      Uses(c, f, n, k)' => Uses(c, f, n, k)
    PROVE  Held(c)' \subseteq Held(c)
  <1>1. \A u \in Places : u[1] \in Files /\ u[2] \in VersionNumbers /\ u[3] \in Nat \ {0}
    BY DEF Places
  <1>2. QED
    BY <1>1 DEF Held

\* A step that changes no use changes no held place.
LEMMA HeldSame ==
    ASSUME NEW c, \A f \in Files, n \in VersionNumbers, k \in Nat \ {0} :
                      Uses(c, f, n, k)' <=> Uses(c, f, n, k)
    PROVE  Held(c)' = Held(c)
  <1>1. \A u \in Places : u[1] \in Files /\ u[2] \in VersionNumbers /\ u[3] \in Nat \ {0}
    BY DEF Places
  <1>2. QED
    BY <1>1 DEF Held

\* The places that the count of a chunk should stand for are held, and as
\* long as no file is deleted no others are.
LEMMA CountedAreHeld ==
    ASSUME TypeOK, CallsSound, NEW c
    PROVE  /\ CountedPlaces(c) \subseteq Held(c)
           /\ files = Files => Held(c) \subseteq CountedPlaces(c)
  <1>1. ASSUME NEW f \in Files, NEW n \in Numbers(f), NEW k \in 1..Len(versions[f][n].hashes),
               versions[f][n].hashes[k] = c, ~ Uncounted(f, n, k), ~ Released(f, n, k)
        PROVE  <<f, n, k>> \in Held(c)
    <2>1. n \in VersionNumbers /\ k \in Nat \ {0}
      <3>1. versions[f][n] \in VersionRow
        BY DEF TypeOK, IsTable, Numbers
      <3>2. Len(versions[f][n].hashes) \in Nat
        BY <3>1, ContentsAssumption DEF VersionRow
      <3>3. QED
        BY <3>2 DEF TypeOK, IsTable, Numbers
    <2>2. Uses(c, f, n, k)
      BY <1>1 DEF Uses, Uncounted, Released, Awaits, Freed, IsTarget, Remaining
    <2>3. QED
      BY <2>1, <2>2, HeldMembers
  <1>2. ASSUME files = Files, NEW u \in Held(c)
        PROVE  u \in CountedPlaces(c)
    <2>1. PICK f \in Files, n \in VersionNumbers, k \in Nat \ {0} : u = <<f, n, k>> /\ Uses(c, f, n, k)
      BY <1>2 DEF Held, Places
    <2>2. ASSUME NEW q \in Pruners, Lists(pruner[q], c, f, n, k)
          PROVE  /\ n \in Numbers(f)
                 /\ k \in 1..Len(versions[f][n].hashes) /\ versions[f][n].hashes[k] = c
                 /\ \A p \in Creators : ~ Awaits(creator[p], f, n, k)
      <3>1. PruneSound(pruner[q])
        BY DEF CallsSound
      <3>2. n \in Numbers(f) /\ versions[f][n] = pruner[q].todo[n] /\ versions[f][n].old
        BY <1>2, <2>2, <3>1 DEF Lists, PruneSound
      <3>3. ASSUME NEW p \in Creators, Awaits(creator[p], f, n, k)
            PROVE  FALSE
        <4>1. CreateSound(creator[p]) /\ creator[p] # Idle
          BY <3>3, IdleIsNoCall DEF CallsSound, Awaits
        <4>2. versions[f][n] = [hashes |-> creator[p].hashes, old |-> FALSE]
          BY <1>2, <3>3, <4>1 DEF CreateSound, Awaits
        <4>3. QED
          BY <3>2, <4>2
      <3>4. QED
        BY <2>2, <3>2, <3>3 DEF Lists
    <2>3. /\ n \in Numbers(f)
          /\ k \in 1..Len(versions[f][n].hashes) /\ versions[f][n].hashes[k] = c
          /\ ~ Uncounted(f, n, k)
      BY <2>1, <2>2 DEF Uses, Awaits, Uncounted
    <2>4. ~ Released(f, n, k)
      BY <2>1 DEF Uses, Freed, Released, IsTarget, Remaining
    <2>5. QED
      BY <2>1, <2>3, <2>4 DEF CountedPlaces
  <1>3. CountedPlaces(c) \subseteq Held(c)
    BY <1>1 DEF CountedPlaces
  <1>4. QED
    BY <1>2, <1>3

-----------------------------------------------------------------------------
\* Unless it counts a use or fails, a step of createVersion keeps the uses.
LEMMA CreateKeepsHeld ==
    ASSUME TypeOK, CallsSound, NEW p \in Creators, CreateStep(p), failures' = 0,
           ~ IncrementChunk(p), NEW c
    PROVE  Held(c)' = Held(c)
  <1> DEFINE call == creator[p]
  <1>0. /\ \A f \in Files, n \in VersionNumbers, k \in Nat \ {0} :
               (\A q \in Pruners : ~ Freed(pruner[q], f, n, k))' <=> (\A q \in Pruners : ~ Freed(pruner[q], f, n, k))
        /\ \A f \in Files, n \in VersionNumbers, k \in Nat \ {0} :
               (\E q \in Pruners : Lists(pruner[q], c, f, n, k))' <=> (\E q \in Pruners : Lists(pruner[q], c, f, n, k))
    <2>1. UNCHANGED pruner
      BY CreateEffect, InsertEffect
    <2>2. QED
      BY <2>1
  <1>1. call # Idle => call \in CreateCall
    BY CreateCallType
  <1>2. call.at # "idle" => call # Idle
    BY IdleIsNoCall
  <1>3. ASSUME ~ InsertVersion(p),
               \A f \in Files : \A n \in Numbers(f) : \A k \in 1..Len(versions[f][n].hashes) :
                   Awaits(creator'[p], f, n, k) <=> Awaits(call, f, n, k)
        PROVE  Held(c)' = Held(c)
    <2>1. UNCHANGED <<files, versions>>
      BY <1>3, CreateEffect
    <2>2. \A r \in Creators \ {p} : creator'[r] = creator[r]
      BY <1>3, CreateSoundStep DEF TypeOK
    <2>3. \A f \in Files, n \in VersionNumbers, k \in Nat \ {0} : Uses(c, f, n, k)' <=> Uses(c, f, n, k)
      BY <1>0, <1>3, <2>1, <2>2 DEF Uses, Numbers
    <2>4. QED
      BY <2>3, HeldSame
  <1>4. ASSUME NEW f \in Files, NEW hashes \in Contents, ListVersions(p, f, hashes)
        PROVE  Held(c)' = Held(c)
    <2>1. ~ InsertVersion(p)
      BY <1>4, IdleIsNoCall DEF ListVersions, InsertVersion
    <2>2. call = Idle /\ creator'[p].at = "insert"
      BY <1>4 DEF ListVersions, TypeOK
    <2>3. QED
      BY <1>3, <2>1, <2>2, IdleIsNoCall DEF Awaits
  <1>5. CASE InsertRejected(p)
    <2>1. ~ InsertVersion(p)
      BY <1>5 DEF InsertRejected, InsertVersion
    <2>2. call.at = "insert" /\ creator'[p] = Idle
      BY <1>5 DEF InsertRejected, TypeOK
    <2>3. QED
      BY <1>3, <2>1, <2>2, IdleIsNoCall DEF Awaits
  <1>6. CASE PublishVersion(p)
    <2>1. call.at = "count" /\ call.i > Len(call.hashes) /\ creator'[p] = Idle /\ call \in CreateCall
      BY <1>1, <1>2, <1>6 DEF PublishVersion, AllCounted, TypeOK
    <2>2. ~ InsertVersion(p)
      BY <2>1 DEF InsertVersion
    <2>3. ASSUME NEW f \in Files, NEW n \in Numbers(f), NEW k \in 1..Len(versions[f][n].hashes),
                 Awaits(call, f, n, k)
          PROVE  FALSE
      <3>1. f \in files /\ CreateSound(call)
        BY DEF CallsSound, RowsHaveFiles
      <3>2. versions[f][n].hashes = call.hashes
        BY <2>1, <2>3, <3>1, IdleIsNoCall DEF Awaits, CreateSound
      <3>3. Len(call.hashes) \in Nat /\ call.i \in Nat
        BY <2>1, ContentsAssumption DEF CreateCall
      <3>4. QED
        BY <2>1, <2>3, <3>2, <3>3 DEF Awaits
    <2>4. QED
      BY <1>3, <2>1, <2>2, <2>3, IdleIsNoCall DEF Awaits
  <1>7. CASE CheckChunk(p)
    <2>1. call.at = "count" /\ call \in CreateCall /\ call # Idle
      BY <1>1, <1>2, <1>7 DEF CheckChunk
    <2>2. ~ InsertVersion(p)
      BY <2>1 DEF InsertVersion
    <2>3. call.hashes[call.i] \in chunks
      <3>1. ~ (call.i > Len(call.hashes)) /\ call.i \in Nat \ {0} /\ Len(call.hashes) \in Nat
        BY <1>7, <2>1, ContentsAssumption DEF CheckChunk, AllCounted, CreateCall
      <3>2. call.i \in 1..Len(call.hashes)
        BY <3>1
      <3>3. QED
        BY <2>1, <3>2 DEF CallsSound, CreateSound
    <2>4. creator'[p] = [call EXCEPT !.at = "update"]
      BY <1>7, <2>3 DEF CheckChunk, TypeOK
    <2>5. /\ creator'[p].at = "update" /\ creator'[p].file = call.file
          /\ creator'[p].next = call.next /\ creator'[p].i = call.i
      BY <2>1, <2>4 DEF CreateCall
    <2>6. QED
      BY <1>3, <2>1, <2>2, <2>5 DEF Awaits
  <1>8. CASE InsertVersion(p)
    <2> DEFINE F == call.file
               N == call.next
    <2>1. /\ call \in CreateCall /\ call.at = "insert"
          /\ F \in files /\ F \in Files /\ N \notin Numbers(F)
          /\ DOMAIN versions'[F] = Numbers(F) \cup {N}
          /\ versions'[F][N] = [hashes |-> call.hashes, old |-> FALSE]
          /\ \A m \in Numbers(F) : versions'[F][m] = versions[F][m]
          /\ \A f \in Files : f # F => versions'[f] = versions[f]
          /\ creator' = [creator EXCEPT ![p] = [call EXCEPT !.at = "count"]]
      BY <1>8, InsertEffect
    <2>2. /\ creator'[p].at = "count" /\ creator'[p].file = F /\ creator'[p].next = N
          /\ creator'[p].i = call.i
      BY <2>1 DEF TypeOK, CreateCall
    <2>3. call.i = 1
      BY <2>1, IdleIsNoCall DEF CallsSound, CreateSound
    <2>4. \A r \in Creators \ {p} : creator'[r] = creator[r]
      BY <2>1 DEF TypeOK
    <2>5. ASSUME NEW f \in Files, NEW n \in VersionNumbers, NEW k \in Nat \ {0}
          PROVE  Uses(c, f, n, k)' <=> Uses(c, f, n, k)
      <3>1. CASE f = F /\ n = N
        <4>1. Awaits(creator'[p], f, n, k)
          BY <2>2, <2>3, <3>1 DEF Awaits
        <4>2. QED
          BY <1>0, <2>1, <3>1, <4>1 DEF Uses, Numbers
      <3>2. CASE ~ (f = F /\ n = N)
        <4>1. ~ Awaits(creator'[p], f, n, k) /\ ~ Awaits(creator[p], f, n, k)
          BY <2>1, <2>2, <3>2 DEF Awaits
        <4>2. /\ n \in DOMAIN versions'[f] <=> n \in Numbers(f)
              /\ n \in Numbers(f) => versions'[f][n] = versions[f][n]
          BY <2>1, <3>2 DEF Numbers
        <4>3. QED
          BY <1>0, <2>4, <4>1, <4>2 DEF Uses, Numbers
      <3>3. QED
        BY <3>1, <3>2
    <2>6. QED
      BY <2>5, HeldSame
  <1>9. ~ IncrementFails(p) /\ ~ CreateAborts(p)
    BY DEF IncrementFails, CreateAborts, Failure, TypeOK
  <1>10. QED
    BY <1>4, <1>5, <1>6, <1>7, <1>8, <1>9 DEF CreateStep

\* Counting a use adds its place, if the row of the version is still there.
LEMMA IncrementAddsPlace ==
    ASSUME TypeOK, CallsSound, NEW p \in Creators, IncrementChunk(p)
    PROVE  \E hash \in chunks : \E place :
               /\ refCount' = [refCount EXCEPT ![hash] = @ + 1]
               /\ UNCHANGED <<files, chunks, failures>>
               /\ \A c : c # hash => Held(c)' = Held(c)
               /\ \/ place \notin Held(hash) /\ Held(hash)' = Held(hash) \cup {place}
                  \/ creator[p].file \in Files \ files /\ Held(hash)' = Held(hash)
  <1> DEFINE call == creator[p]
             F == call.file
             N == call.next
  <1>0. PICK hash, place : hash = call.hashes[call.i] /\ place = <<F, N, call.i>>
    OBVIOUS
  <1>1. call.at = "update" /\ call \in CreateCall /\ call # Idle
    BY CreateCallType, IdleIsNoCall DEF IncrementChunk
  <1>2. /\ call.i \in 1..Len(call.hashes) /\ call.i \in Nat \ {0} /\ F \in Files
        /\ N \in VersionNumbers /\ Len(call.hashes) \in Nat /\ CreateSound(call)
    <2>1. call.i \in Nat \ {0} /\ Len(call.hashes) \in Nat /\ CreateSound(call)
      BY <1>1, ContentsAssumption DEF CreateCall, CallsSound
    <2>2. QED
      BY <1>1, <2>1 DEF CreateCall, CreateSound
  <1>3. hash \in chunks
    BY <1>0, <1>1, <1>2 DEF CreateSound
  <1>4. refCount' = [refCount EXCEPT ![hash] = @ + 1] /\ UNCHANGED <<files, versions, chunks, failures, pruner>>
    BY <1>0, <1>3 DEF IncrementChunk, AddToCount
  <1>5. /\ creator'[p].at = "count" /\ creator'[p].file = F /\ creator'[p].next = N
        /\ creator'[p].i = call.i + 1
        /\ \A r \in Creators \ {p} : creator'[r] = creator[r]
    BY <1>1 DEF IncrementChunk, TypeOK, CreateCall
  <1>6. ASSUME NEW c, NEW f \in Files, NEW n \in VersionNumbers, NEW k \in Nat \ {0}
        PROVE  Uses(c, f, n, k)' <=> \/ Uses(c, f, n, k)
                                     \/ /\ c = hash /\ F \in files
                                        /\ f = F /\ n = N /\ k = call.i
    <2>1. CASE f = F /\ n = N /\ k = call.i /\ F \in files
      <3>1. /\ n \in Numbers(f) /\ versions[f][n].hashes = call.hashes /\ ~ versions[f][n].old
        BY <1>1, <1>2, <2>1 DEF CreateSound
      <3>2. ASSUME NEW q \in Pruners
            PROVE  ~ Freed(pruner[q], f, n, k) /\ ~ Lists(pruner[q], c, f, n, k)
        <4>1. PruneSound(pruner[q])
          BY DEF CallsSound
        <4>2. QED
          BY <2>1, <3>1, <4>1 DEF PruneSound, Freed, Lists
      <3>3. ASSUME NEW r \in Creators
            PROVE  ~ Awaits(creator'[r], f, n, k)
        <4>1. CASE r = p
          BY <1>2, <1>5, <2>1, <4>1 DEF Awaits
        <4>2. CASE r # p
          BY <1>1, <1>5, <2>1, <4>2 DEF Awaits, CallsSound, NumbersOnce, Counting
        <4>3. QED
          BY <4>1, <4>2
      <3>4. Awaits(creator[p], f, n, k)
        BY <1>1, <1>2, <2>1 DEF Awaits
      <3>5. ~ Uses(c, f, n, k)
        BY <3>2, <3>4 DEF Uses
      <3>6. Uses(c, f, n, k)' <=> c = hash
        BY <1>0, <1>2, <1>4, <2>1, <3>1, <3>2, <3>3 DEF Uses, Numbers
      <3>7. QED
        BY <2>1, <3>5, <3>6
    <2>2. CASE ~ (f = F /\ n = N /\ k = call.i)
      <3>1. Awaits(creator'[p], f, n, k) <=> Awaits(creator[p], f, n, k)
        BY <1>1, <1>2, <1>5, <2>2 DEF Awaits
      <3>2. QED
        BY <1>4, <1>5, <2>2, <3>1 DEF Uses, Numbers
    <2>3. CASE F \notin files /\ f = F
      <3>1. Numbers(f) = {}
        BY <2>3 DEF CallsSound, RowsHaveFiles
      <3>2. QED
        BY <1>4, <2>3, <3>1 DEF Uses, Numbers
    <2>4. QED
      BY <2>1, <2>2, <2>3
  <1>7. \A u \in Places : u = <<u[1], u[2], u[3]>> /\ u[1] \in Files /\ u[2] \in VersionNumbers /\ u[3] \in Nat \ {0}
    BY DEF Places
  <1>8. \A c : c # hash => Held(c)' = Held(c)
    BY <1>6, HeldSame
  <1>9. CASE F \in files
    <2>1. place \notin Held(hash)
      <3>1. Awaits(creator[p], F, N, call.i)
        BY <1>1, <1>2 DEF Awaits
      <3>2. ASSUME NEW q \in Pruners
            PROVE  ~ Lists(pruner[q], hash, F, N, call.i)
        <4>1. PruneSound(pruner[q])
          BY DEF CallsSound
        <4>2. versions[F][N] = [hashes |-> call.hashes, old |-> FALSE]
          BY <1>1, <1>2, <1>9 DEF CreateSound
        <4>3. QED
          BY <1>9, <4>1, <4>2 DEF PruneSound, Lists
      <3>3. ~ Uses(hash, F, N, call.i)
        BY <3>1, <3>2 DEF Uses
      <3>4. QED
        BY <1>0, <1>2, <3>3, HeldMembers
    <2>2. Held(hash)' = Held(hash) \cup {place}
      <3>1. place \in Places
        BY <1>0, <1>2 DEF Places
      <3>2. \A u \in Places : u \in Held(hash)' <=> u \in Held(hash) \/ u = place
        <4>1. ASSUME NEW u \in Places
              PROVE  u \in Held(hash)' <=> u \in Held(hash) \/ u = place
          <5>1. Uses(hash, u[1], u[2], u[3])' <=>
                    Uses(hash, u[1], u[2], u[3]) \/ (u[1] = F /\ u[2] = N /\ u[3] = call.i)
            BY <1>6, <1>7, <1>9
          <5>2. u = place <=> u[1] = F /\ u[2] = N /\ u[3] = call.i
            BY <1>0, <1>7
          <5>3. QED
            BY <5>1, <5>2 DEF Held
        <4>2. QED
          BY <4>1
      <3>3. QED
        BY <3>1, <3>2 DEF Held
    <2>3. QED
      BY <1>3, <1>4, <1>8, <1>9, <2>1, <2>2
  <1>10. CASE F \notin files
    <2>1. Held(hash)' = Held(hash)
      BY <1>6, <1>10, HeldSame
    <2>2. QED
      BY <1>2, <1>3, <1>4, <1>8, <1>10, <2>1
  <1>11. QED
    BY <1>9, <1>10

-----------------------------------------------------------------------------
\* As long as no call fails, a chunk is counted at least as often as it is
\* held, and exactly as often until a file is deleted.
CountsHeld ==
    \A c \in Chunks :
        /\ IsFiniteSet(Held(c))
        /\ c \in chunks => /\ refCount[c] >= Cardinality(Held(c))
                           /\ files = Files => refCount[c] = Cardinality(Held(c))
        /\ c \notin chunks => Held(c) = {}

\* What is held may be released.
LEMMA HeldMayDecrement ==
    ASSUME TypeOK, CountsHeld, NEW c \in Chunks, Held(c) # {}
    PROVE  MayDecrement(c)
  <1>1. IsFiniteSet(Held(c)) /\ c \in chunks /\ refCount[c] >= Cardinality(Held(c))
    BY DEF CountsHeld
  <1>2. Cardinality(Held(c)) \in Nat /\ Cardinality(Held(c)) # 0
    BY <1>1, FS_CardinalityType, FS_EmptySet
  <1>3. refCount[c] \in Int
    BY DEF TypeOK
  <1>4. QED
    BY <1>1, <1>2, <1>3 DEF MayDecrement

\* A place on the list of the pruner that it has not passed is held.
LEMMA ListedIsHeld ==
    ASSUME TypeOK, OnePruner, NEW q \in Pruners, NEW v \in Remaining(q), IsTarget(q, v),
           pruner[q].i <= Len(pruner[q].todo[v].hashes)
    PROVE  LET call == pruner[q] IN
           /\ IsPruneCall(call) /\ call # Idle /\ Remaining(q) = DOMAIN call.todo
           /\ call.file \in Files /\ v \in VersionNumbers /\ v \in DOMAIN call.todo
           /\ call.i \in Nat \ {0} /\ call.i \in 1..Len(call.todo[v].hashes)
           /\ call.todo[v].hashes[call.i] \in Chunks
           /\ \A w \in DOMAIN call.todo : (\A m \in DOMAIN call.todo : w <= m) => w = v
           /\ \A m \in DOMAIN call.todo : v <= m
           /\ <<call.file, v, call.i>> \in Held(call.todo[v].hashes[call.i])
  <1> DEFINE call == pruner[q]
  <1>1. /\ IsPruneCall(call) /\ call # Idle /\ Remaining(q) = DOMAIN call.todo
        /\ call.file \in Files /\ v \in VersionNumbers /\ call.i \in Nat \ {0}
        /\ DOMAIN call.todo \subseteq Nat /\ v \in DOMAIN call.todo
        /\ call.todo[v] \in VersionRow
    BY DEF Remaining, TypeOK, IsPruneCall, IsTable, VersionNumbers
  <1>2. call.todo[v].hashes \in Seq(Chunks)
    BY <1>1, ContentsAssumption DEF VersionRow
  <1>3. Len(call.todo[v].hashes) \in Nat
    BY <1>2
  <1>4. call.i \in 1..Len(call.todo[v].hashes)
    BY <1>1, <1>3
  <1>5. call.todo[v].hashes[call.i] \in Chunks
    BY <1>2, <1>4
  <1>6. /\ \A w \in DOMAIN call.todo : (\A m \in DOMAIN call.todo : w <= m) => w = v
        /\ \A m \in DOMAIN call.todo : v <= m
    BY <1>1 DEF IsTarget
  <1>7. Uses(call.todo[v].hashes[call.i], call.file, v, call.i)
    <2>1. Lists(call, call.todo[v].hashes[call.i], call.file, v, call.i)
      BY <1>1, <1>4 DEF Lists
    <2>2. \A r \in Pruners : ~ Freed(pruner[r], call.file, v, call.i)
      BY <1>1 DEF Freed, OnePruner
    <2>3. QED
      BY <2>1, <2>2 DEF Uses
  <1>8. <<call.file, v, call.i>> \in Held(call.todo[v].hashes[call.i])
    BY <1>1, <1>7, HeldMembers
  <1>9. QED
    BY <1>1, <1>4, <1>5, <1>6, <1>8

\* Unless it releases a use or fails, a step of pruneVersions keeps the uses.
LEMMA PruneKeepsHeld ==
    ASSUME TypeOK, OnePruner, CallsSound, CountsHeld, NEW q \in Pruners, PruneStep(q), failures' = 0,
           \A v \in Remaining(q) : ~ DecrementChunk(q, v), NEW c
    PROVE  Held(c)' = Held(c)
  <1> DEFINE call == pruner[q]
  <1>1. \A r \in Pruners : r = q
    BY DEF OnePruner
  <1>2. UNCHANGED <<files, chunks, creator>>
    BY DEF PruneStep, SnapshotVersions, PruneAborts, CheckCount, DecrementChunk, DeleteVersion,
           DecrementFails, tables
  <1>3. \A f \in Files, n \in VersionNumbers, k \in Nat \ {0} :
            (\A p \in Creators : ~ Awaits(creator[p], f, n, k))' <=> (\A p \in Creators : ~ Awaits(creator[p], f, n, k))
    BY <1>2
  <1>4. \A f \in Files, n \in VersionNumbers, k \in Nat \ {0} :
            /\ Uses(c, f, n, k) <=>
                  /\ ~ Freed(pruner[q], f, n, k)
                  /\ \/ /\ n \in Numbers(f)
                        /\ k \in 1..Len(versions[f][n].hashes) /\ versions[f][n].hashes[k] = c
                        /\ \A p \in Creators : ~ Awaits(creator[p], f, n, k)
                     \/ Lists(pruner[q], c, f, n, k)
            /\ Uses(c, f, n, k)' <=>
                  /\ ~ Freed(pruner'[q], f, n, k)
                  /\ \/ /\ n \in DOMAIN versions'[f]
                        /\ k \in 1..Len(versions'[f][n].hashes) /\ versions'[f][n].hashes[k] = c
                        /\ \A p \in Creators : ~ Awaits(creator[p], f, n, k)
                     \/ Lists(pruner'[q], c, f, n, k)
    BY <1>1, <1>3 DEF Uses, Numbers
  <1>5. ASSUME NEW f \in Files, SnapshotVersions(q, f)
        PROVE  Held(c)' = Held(c)
    <2> DEFINE expired == {n \in Numbers(f) : Prunable(f, n)}
    <2>1. PICK new : new = [at |-> "count", file |-> f, todo |-> [n \in expired |-> versions[f][n]], i |-> 1]
      OBVIOUS
    <2>2. pruner'[q] = new /\ UNCHANGED versions /\ call = Idle
      BY <1>5, <2>1 DEF SnapshotVersions, tables, TypeOK
    <2>3. /\ new.file = f /\ new.i = 1 /\ DOMAIN new.todo = expired
          /\ \A n \in expired : /\ n \in Numbers(f) /\ versions[f][n].old
                                /\ new.todo[n] = versions[f][n]
      BY <2>1 DEF Prunable
    <2>4. ASSUME NEW n \in expired, NEW k, NEW p \in Creators
          PROVE  ~ Awaits(creator[p], f, n, k)
      <3>1. CreateSound(creator[p]) /\ f \in files
        BY <2>3 DEF CallsSound, RowsHaveFiles
      <3>2. ASSUME Awaits(creator[p], f, n, k)
            PROVE  versions[f][n] = [hashes |-> creator[p].hashes, old |-> FALSE]
        BY <3>1, <3>2, IdleIsNoCall DEF CreateSound, Awaits
      <3>3. QED
        BY <2>3, <3>2
    <2>5. \A g \in Files, n \in VersionNumbers, k \in Nat \ {0} :
              ~ Freed(new, g, n, k) /\ ~ Freed(call, g, n, k) /\ ~ Lists(call, c, g, n, k)
      BY <2>2, <2>3 DEF Freed, Lists
    <2>6. \A g \in Files, n \in VersionNumbers, k \in Nat \ {0} :
              Lists(new, c, g, n, k) => /\ g = f /\ n \in Numbers(f)
                                        /\ k \in 1..Len(versions[f][n].hashes) /\ versions[f][n].hashes[k] = c
                                        /\ \A p \in Creators : ~ Awaits(creator[p], f, n, k)
      BY <2>3, <2>4 DEF Lists
    <2>7. \A g \in Files, n \in VersionNumbers, k \in Nat \ {0} : Uses(c, g, n, k)' <=> Uses(c, g, n, k)
      BY <1>4, <2>2, <2>5, <2>6 DEF Numbers
    <2>8. QED
      BY <2>7, HeldSame
  <1>6. ASSUME NEW v \in Remaining(q), CheckCount(q, v)
        PROVE  Held(c)' = Held(c)
    <2>1. IsTarget(q, v) /\ call.at = "count" /\ ~ (call.i > Len(call.todo[v].hashes))
      BY <1>6 DEF CheckCount, AllReleased
    <2>2. call.i <= Len(call.todo[v].hashes)
      <3>1. IsPruneCall(call) /\ call.todo[v] \in VersionRow
        BY <1>6 DEF Remaining, TypeOK, IsPruneCall, IsTable
      <3>2. call.i \in Nat /\ Len(call.todo[v].hashes) \in Nat
        BY <3>1, ContentsAssumption DEF IsPruneCall, VersionRow
      <3>3. QED
        BY <2>1, <3>2
    <2>3. /\ IsPruneCall(call) /\ call.todo[v].hashes[call.i] \in Chunks
          /\ <<call.file, v, call.i>> \in Held(call.todo[v].hashes[call.i])
      BY <2>1, <2>2, ListedIsHeld
    <2>4. MayDecrement(call.todo[v].hashes[call.i])
      BY <2>3, HeldMayDecrement
    <2>5. pruner'[q] = [call EXCEPT !.at = "update"] /\ UNCHANGED versions
      BY <1>6, <2>4 DEF CheckCount, tables, TypeOK
    <2>6. PICK new : new = [call EXCEPT !.at = "update"]
      OBVIOUS
    <2>7. /\ new.file = call.file /\ new.todo = call.todo /\ new.i = call.i
          /\ new # Idle /\ call # Idle
      BY <2>3, <2>6, PruneCallUpdates, IdleIsNoCall DEF IsPruneCall
    <2>8. \A f \in Files, n \in VersionNumbers, k \in Nat \ {0} :
              /\ Freed(new, f, n, k) <=> Freed(call, f, n, k)
              /\ Lists(new, c, f, n, k) <=> Lists(call, c, f, n, k)
      BY <2>7 DEF Freed, Lists
    <2>9. \A f \in Files, n \in VersionNumbers, k \in Nat \ {0} : Uses(c, f, n, k)' <=> Uses(c, f, n, k)
      BY <1>4, <2>5, <2>6, <2>8 DEF Numbers
    <2>10. QED
      BY <2>9, HeldSame
  <1>7. ASSUME NEW v \in Remaining(q), DeleteVersion(q, v)
        PROVE  Held(c)' = Held(c)
    <2> DEFINE F == call.file
    <2>1. /\ IsPruneCall(call) /\ call # Idle /\ Remaining(q) = DOMAIN call.todo
          /\ F \in Files /\ DOMAIN call.todo \subseteq Nat /\ v \in DOMAIN call.todo
          /\ call.todo[v] \in VersionRow /\ call.i \in Nat
      BY <1>7 DEF Remaining, TypeOK, IsPruneCall, IsTable, VersionNumbers
    <2>2. /\ \A m \in DOMAIN call.todo : v <= m
          /\ \A w \in DOMAIN call.todo : (\A m \in DOMAIN call.todo : w <= m) => w = v
      BY <1>7, <2>1 DEF DeleteVersion, IsTarget
    <2>3. Len(call.todo[v].hashes) \in Nat /\ call.i > Len(call.todo[v].hashes)
      BY <1>7, <2>1, ContentsAssumption DEF DeleteVersion, AllReleased, VersionRow
    <2>4. /\ DOMAIN versions'[F] = Numbers(F) \ {v}
          /\ \A n \in Numbers(F) \ {v} : versions'[F][n] = versions[F][n]
          /\ \A f \in Files : f # F => versions'[f] = versions[f]
      BY <1>7, <2>1 DEF DeleteVersion, DeleteRows, Numbers, TypeOK
    <2>5. \/ pruner'[q] = Idle /\ DOMAIN call.todo = {v}
          \/ pruner'[q] = [at |-> "count", file |-> F, todo |-> DeleteRows(call.todo, {v}), i |-> 1]
      BY <1>7, <2>1 DEF DeleteVersion, TypeOK
    <2>6. PICK new : new = pruner'[q]
      OBVIOUS
    <2>7. \A f \in Files, n \in VersionNumbers, k \in Nat \ {0} :
              /\ ~ Freed(new, f, n, k)
              /\ Lists(new, c, f, n, k) <=> n # v /\ Lists(call, c, f, n, k)
      <3>1. CASE new = Idle /\ DOMAIN call.todo = {v}
        BY <3>1 DEF Freed, Lists
      <3>2. CASE new = [at |-> "count", file |-> F, todo |-> DeleteRows(call.todo, {v}), i |-> 1]
        <4>1. /\ new.file = F /\ new.i = 1 /\ DOMAIN new.todo = DOMAIN call.todo \ {v}
              /\ \A n \in DOMAIN call.todo \ {v} : new.todo[n] = call.todo[n]
              /\ new # Idle
          <5>1. new.at = "count" /\ Idle.at = "idle"
            BY <3>2 DEF Idle
          <5>2. QED
            BY <3>2, <5>1 DEF DeleteRows
        <4>2. \A f \in Files, n \in VersionNumbers, k \in Nat \ {0} : ~ Freed(new, f, n, k)
          BY <4>1 DEF Freed
        <4>3. \A f \in Files, n \in VersionNumbers, k \in Nat \ {0} :
                  Lists(new, c, f, n, k) <=> n # v /\ Lists(call, c, f, n, k)
          BY <2>1, <4>1 DEF Lists
        <4>4. QED
          BY <4>2, <4>3
      <3>3. QED
        BY <2>5, <2>6, <3>1, <3>2
    <2>8. \A f \in Files, n \in VersionNumbers, k \in Nat \ {0} :
              Freed(call, f, n, k) <=> f = F /\ n = v /\ call.i > k
      BY <2>1, <2>2 DEF Freed
    <2>9. F \in files /\ v \in Numbers(F) => versions[F][v] = call.todo[v]
      BY <2>1 DEF CallsSound, PruneSound
    <2>10. v \in Numbers(F) => F \in files
      BY <2>1 DEF CallsSound, RowsHaveFiles
    <2>11. ASSUME NEW f \in Files, NEW n \in VersionNumbers, NEW k \in Nat \ {0}
           PROVE  Uses(c, f, n, k)' <=> Uses(c, f, n, k)
      <3>1. CASE f = F /\ n = v
        <4>1. ~ Uses(c, f, n, k)'
          BY <1>4, <2>4, <2>6, <2>7, <3>1
        <4>2. k \in 1..Len(call.todo[v].hashes) => Freed(call, f, n, k)
          BY <2>1, <2>3, <2>8, <3>1
        <4>3. n \in Numbers(f) => versions[f][n] = call.todo[v]
          BY <2>9, <2>10, <3>1
        <4>4. Lists(call, c, f, n, k) => k \in 1..Len(call.todo[v].hashes)
          BY <3>1 DEF Lists
        <4>5. ~ Uses(c, f, n, k)
          BY <1>4, <4>2, <4>3, <4>4
        <4>6. QED
          BY <4>1, <4>5
      <3>2. CASE f # F \/ n # v
        <4>1. /\ n \in DOMAIN versions'[f] <=> n \in Numbers(f)
              /\ n \in Numbers(f) => versions'[f][n] = versions[f][n]
          BY <2>4, <3>2 DEF Numbers
        <4>2. Lists(call, c, f, n, k) => f = F
          BY DEF Lists
        <4>3. QED
          BY <1>4, <2>6, <2>7, <2>8, <3>2, <4>1, <4>2
      <3>3. QED
        BY <3>1, <3>2
    <2>12. QED
      BY <2>11, HeldSame
  <1>8. ~ PruneAborts(q) /\ \A v \in Remaining(q) : ~ DecrementFails(q, v)
    BY DEF PruneAborts, DecrementFails, Failure, TypeOK
  <1>9. QED
    BY <1>5, <1>6, <1>7, <1>8 DEF PruneStep

\* Releasing a use removes its place.
LEMMA DecrementRemovesPlace ==
    ASSUME TypeOK, OnePruner, CallsSound, CountsHeld,
           NEW q \in Pruners, NEW v \in Remaining(q), DecrementChunk(q, v)
    PROVE  \E hash \in chunks : \E place \in Held(hash) :
               /\ refCount' = [refCount EXCEPT ![hash] = @ - 1]
               /\ UNCHANGED <<files, chunks, failures>>
               /\ \A c : c # hash => Held(c)' = Held(c)
               /\ Held(hash)' = Held(hash) \ {place}
  <1> DEFINE call == pruner[q]
             F == call.file
  <1>1. IsTarget(q, v) /\ call.at = "update"
    BY DEF DecrementChunk
  <1>2. call.i <= Len(call.todo[v].hashes)
    <2>1. PruneSound(call) /\ call # Idle /\ Remaining(q) = DOMAIN call.todo
      BY DEF CallsSound, Remaining
    <2>2. QED
      BY <1>1, <2>1 DEF PruneSound, IsTarget
  <1>3. /\ IsPruneCall(call) /\ call # Idle
        /\ F \in Files /\ v \in VersionNumbers /\ v \in DOMAIN call.todo
        /\ call.i \in Nat \ {0} /\ call.i \in 1..Len(call.todo[v].hashes)
        /\ call.todo[v].hashes[call.i] \in Chunks
        /\ \A w \in DOMAIN call.todo : (\A m \in DOMAIN call.todo : w <= m) => w = v
        /\ \A m \in DOMAIN call.todo : v <= m
        /\ <<F, v, call.i>> \in Held(call.todo[v].hashes[call.i])
    BY <1>1, <1>2, ListedIsHeld
  <1>4. PICK hash, place : hash = call.todo[v].hashes[call.i] /\ place = <<F, v, call.i>>
    OBVIOUS
  <1>5. hash \in chunks
    BY <1>3, <1>4, HeldMayDecrement DEF MayDecrement
  <1>6. refCount' = [refCount EXCEPT ![hash] = @ - 1] /\ UNCHANGED <<files, versions, chunks, failures, creator>>
    <2>1. refCount' = [refCount EXCEPT ![hash] = @ + -1]
      BY <1>4, <1>5 DEF DecrementChunk, AddToCount
    <2>2. refCount[hash] + -1 = refCount[hash] - 1
      BY <1>3, <1>4 DEF TypeOK
    <2>3. QED
      BY <2>1, <2>2 DEF DecrementChunk
  <1>7. \A r \in Pruners : r = q
    BY DEF OnePruner
  <1>8. PICK new : new = [call EXCEPT !.at = "count", !.i = @ + 1]
    OBVIOUS
  <1>9. pruner'[q] = new
    BY <1>8 DEF DecrementChunk, TypeOK
  <1>10. new.file = F /\ new.todo = call.todo /\ new.i = call.i + 1 /\ new # Idle
    <2>1. new.at = "count" /\ Idle.at = "idle"
      BY <1>3, <1>8 DEF IsPruneCall, Idle
    <2>2. QED
      BY <1>3, <1>8, <2>1 DEF IsPruneCall
  <1>11. ASSUME NEW c, NEW f \in Files, NEW n \in VersionNumbers, NEW k \in Nat \ {0}
         PROVE  Uses(c, f, n, k)' <=> Uses(c, f, n, k) /\ <<f, n, k>> # place
    <2>1. Freed(new, f, n, k) <=> Freed(call, f, n, k) \/ <<f, n, k>> = place
      <3>1. <<f, n, k>> = place <=> f = F /\ n = v /\ k = call.i
        BY <1>4
      <3>2. call.i + 1 > k <=> call.i > k \/ k = call.i
        BY <1>3
      <3>3. QED
        BY <1>3, <1>10, <3>1, <3>2 DEF Freed
    <2>2. Lists(new, c, f, n, k) <=> Lists(call, c, f, n, k)
      BY <1>3, <1>10 DEF Lists
    <2>3. QED
      BY <1>6, <1>7, <1>9, <2>1, <2>2 DEF Uses, Numbers
  <1>12. \A u \in Places : u = <<u[1], u[2], u[3]>> /\ u[1] \in Files /\ u[2] \in VersionNumbers /\ u[3] \in Nat \ {0}
    BY DEF Places
  <1>13. \A c : Held(c)' = Held(c) \ {place}
    <2>1. ASSUME NEW c, NEW u \in Places
          PROVE  u \in Held(c)' <=> u \in Held(c) /\ u # place
      <3>1. Uses(c, u[1], u[2], u[3])' <=> Uses(c, u[1], u[2], u[3]) /\ u # place
        BY <1>11, <1>12
      <3>2. QED
        BY <3>1 DEF Held
    <2>2. QED
      BY <2>1 DEF Held
  <1>14. \A c : c # hash => place \notin Held(c)
    <2>1. ASSUME NEW c, Uses(c, F, v, call.i)
          PROVE  c = hash
      <3>1. \A r \in Pruners : Lists(pruner[r], c, F, v, call.i) => c = hash
        BY <1>4, <1>7 DEF Lists
      <3>2. ASSUME v \in Numbers(F)
            PROVE  versions[F][v] = call.todo[v]
        BY <1>3, <3>2 DEF CallsSound, PruneSound, RowsHaveFiles
      <3>3. QED
        BY <1>4, <2>1, <3>1, <3>2 DEF Uses
    <2>2. QED
      BY <1>3, <1>4, <2>1, HeldMembers
  <1>15. place \in Held(hash)
    BY <1>3, <1>4
  <1>16. \A c : c # hash => Held(c)' = Held(c)
    BY <1>13, <1>14
  <1>17. QED
    BY <1>5, <1>6, <1>13, <1>15, <1>16

-----------------------------------------------------------------------------
\* What the collectors are about to delete is held nowhere.
OrphansUnheld ==
    \A g \in Collectors :
        collector[g] # Idle => /\ Held(collector[g].chunk) = {}
                               /\ \A c \in collector[g].todo : Held(c) = {}

\* A chunk with a row has its bytes on all nodes, unless a collector is deleting
\* them.
BytesKept ==
    \A c \in chunks :
        \/ \A n \in Nodes : c \in stored[n]
        \/ \E g \in Collectors : collector[g] # Idle /\ collector[g].chunk = c

\* As long as no call has failed, counts and bytes match what is held.
ExactInv == failures = 0 => CountsHeld /\ OrphansUnheld /\ BytesKept

\* A step of the version manager, or the storing of a chunk, keeps the counts
\* in step with what is held; while a collection runs nothing new is held.
LEMMA VersionStepCounts ==
    ASSUME TypeOK, OnePruner, CallsSound, CountsHeld, [Next]_vars, failures = 0, failures' = 0
    PROVE  /\ CountsHeld'
           /\ (\E q \in Pruners : PruneStep(q)) \/ EnvironmentStep \/ UNCHANGED vars =>
                  \A c : Held(c)' \subseteq Held(c)
  <1>2. ASSUME UNCHANGED <<files, chunks, refCount>>, \A c : Held(c)' = Held(c)
        PROVE  CountsHeld' /\ \A c : Held(c)' \subseteq Held(c)
    BY <1>2 DEF CountsHeld
  <1>3. CASE UNCHANGED vars
    <2>1. \A c : Held(c)' = Held(c)
      BY <1>3 DEF vars, Held, Uses, Numbers, Places
    <2>2. QED
      BY <1>2, <1>3, <2>1 DEF vars
  <1>4. ASSUME NEW p \in Creators, CreateStep(p)
        PROVE  CountsHeld'
    <2>1. CASE ~ IncrementChunk(p)
      <3>1. \A c : Held(c)' = Held(c)
        BY <1>4, <2>1, CreateKeepsHeld
      <3>2. UNCHANGED <<files, chunks, refCount>>
        BY <1>4, <2>1 DEF CreateStep, ListVersions, InsertVersion, InsertRejected, CheckChunk,
             PublishVersion, IncrementFails, CreateAborts, tables
      <3>3. QED
        BY <1>2, <3>1, <3>2
    <2>2. CASE IncrementChunk(p)
      <3>1. PICK hash, place :
               /\ hash \in chunks
               /\ refCount' = [refCount EXCEPT ![hash] = @ + 1]
               /\ UNCHANGED <<files, chunks, failures>>
               /\ \A c : c # hash => Held(c)' = Held(c)
               /\ \/ place \notin Held(hash) /\ Held(hash)' = Held(hash) \cup {place}
                  \/ creator[p].file \in Files \ files /\ Held(hash)' = Held(hash)
        BY <2>2, IncrementAddsPlace
      <3>2. hash \in Chunks /\ refCount[hash] \in Int /\ refCount'[hash] = refCount[hash] + 1
            /\ \A c \in Chunks : c # hash => refCount'[c] = refCount[c]
        BY <3>1 DEF TypeOK
      <3>3. /\ IsFiniteSet(Held(hash)) /\ refCount[hash] >= Cardinality(Held(hash))
            /\ files = Files => refCount[hash] = Cardinality(Held(hash))
            /\ Cardinality(Held(hash)) \in Nat
        BY <3>1, <3>2, FS_CardinalityType DEF CountsHeld
      <3>4. /\ IsFiniteSet(Held(hash)')
            /\ refCount'[hash] >= Cardinality(Held(hash)')
            /\ files = Files => refCount'[hash] = Cardinality(Held(hash)')
        <4>1. CASE place \notin Held(hash) /\ Held(hash)' = Held(hash) \cup {place}
          <5>1. IsFiniteSet(Held(hash)') /\ Cardinality(Held(hash)') = Cardinality(Held(hash)) + 1
            BY <3>3, <4>1, FS_AddElement
          <5>2. QED
            BY <3>2, <3>3, <5>1
        <4>2. CASE creator[p].file \in Files \ files /\ Held(hash)' = Held(hash)
          BY <3>2, <3>3, <4>2
        <4>3. QED
          BY <3>1, <4>1, <4>2
      <3>5. ASSUME NEW c \in Chunks
            PROVE  /\ IsFiniteSet(Held(c)')
                   /\ c \in chunks' => /\ refCount'[c] >= Cardinality(Held(c)')
                                       /\ files' = Files => refCount'[c] = Cardinality(Held(c)')
                   /\ c \notin chunks' => Held(c)' = {}
        <4>1. CASE c = hash
          BY <3>1, <3>4, <4>1
        <4>2. CASE c # hash
          BY <3>1, <3>2, <4>2 DEF CountsHeld
        <4>3. QED
          BY <4>1, <4>2
      <3>6. QED
        BY <3>5 DEF CountsHeld
    <2>3. QED
      BY <2>1, <2>2
  <1>5. ASSUME NEW q \in Pruners, PruneStep(q)
        PROVE  CountsHeld' /\ \A c : Held(c)' \subseteq Held(c)
    <2>1. CASE \A v \in Remaining(q) : ~ DecrementChunk(q, v)
      <3>1. \A c : Held(c)' = Held(c)
        BY <1>5, <2>1, PruneKeepsHeld
      <3>2. UNCHANGED <<files, chunks, refCount>>
        BY <1>5, <2>1 DEF PruneStep, SnapshotVersions, PruneAborts, CheckCount, DeleteVersion,
             DecrementFails, tables
      <3>3. QED
        BY <1>2, <3>1, <3>2
    <2>2. ASSUME NEW v \in Remaining(q), DecrementChunk(q, v)
          PROVE  CountsHeld' /\ \A c : Held(c)' \subseteq Held(c)
      <3>1. PICK hash \in chunks : \E place \in Held(hash) :
               /\ refCount' = [refCount EXCEPT ![hash] = @ - 1]
               /\ UNCHANGED <<files, chunks, failures>>
               /\ \A c : c # hash => Held(c)' = Held(c)
               /\ Held(hash)' = Held(hash) \ {place}
        BY <2>2, DecrementRemovesPlace
      <3>2. PICK place \in Held(hash) : Held(hash)' = Held(hash) \ {place}
        BY <3>1
      <3>3. hash \in Chunks /\ refCount[hash] \in Int /\ refCount'[hash] = refCount[hash] - 1
            /\ \A c \in Chunks : c # hash => refCount'[c] = refCount[c]
        BY <3>1 DEF TypeOK
      <3>4. /\ IsFiniteSet(Held(hash)) /\ refCount[hash] >= Cardinality(Held(hash))
            /\ files = Files => refCount[hash] = Cardinality(Held(hash))
            /\ Cardinality(Held(hash)) \in Nat
        BY <3>1, <3>3, FS_CardinalityType DEF CountsHeld
      <3>5. IsFiniteSet(Held(hash)') /\ Cardinality(Held(hash)') = Cardinality(Held(hash)) - 1
        BY <3>2, <3>4, FS_RemoveElement
      <3>6. /\ refCount'[hash] >= Cardinality(Held(hash)')
            /\ files = Files => refCount'[hash] = Cardinality(Held(hash)')
        BY <3>3, <3>4, <3>5
      <3>7. ASSUME NEW c \in Chunks
            PROVE  /\ IsFiniteSet(Held(c)')
                   /\ c \in chunks' => /\ refCount'[c] >= Cardinality(Held(c)')
                                       /\ files' = Files => refCount'[c] = Cardinality(Held(c)')
                   /\ c \notin chunks' => Held(c)' = {}
        <4>1. CASE c = hash
          BY <3>1, <3>5, <3>6, <4>1
        <4>2. CASE c # hash
          BY <3>1, <3>3, <4>2 DEF CountsHeld
        <4>3. QED
          BY <4>1, <4>2
      <3>8. \A c : Held(c)' \subseteq Held(c)
        BY <3>1
      <3>9. QED
        BY <3>7, <3>8 DEF CountsHeld
    <2>3. QED
      BY <2>1, <2>2
  <1>6. ASSUME NEW d \in Chunks, RegisterChunk(d)
        PROVE  CountsHeld' /\ \A c : Held(c)' \subseteq Held(c)
    <2>1. UNCHANGED <<files, versions, creator, pruner>>
      BY <1>6 DEF RegisterChunk
    <2>2. \A c : Held(c)' = Held(c)
      BY <2>1 DEF Held, Uses, Numbers, Places
    <2>3. /\ d \notin chunks /\ chunks' = chunks \cup {d} /\ refCount'[d] = 0
          /\ \A c \in Chunks : c # d => refCount'[c] = refCount[c]
      BY <1>6 DEF RegisterChunk, TypeOK
    <2>4. Held(d) = {} /\ Cardinality(Held(d)) = 0
      BY <2>3, FS_EmptySet DEF CountsHeld
    <2>5. QED
      BY <2>1, <2>2, <2>3, <2>4 DEF CountsHeld
  <1>7. ASSUME NEW F \in Files, DeleteFile(F)
        PROVE  CountsHeld' /\ \A c : Held(c)' \subseteq Held(c)
    <2>1. /\ UNCHANGED <<chunks, refCount, creator, pruner>>
          /\ files' = files \ {F} /\ F \in files
          /\ \A f \in Files : versions'[f] = IF f = F THEN EmptyTable ELSE versions[f]
      BY <1>7 DEF DeleteFile, TypeOK
    <2>2. DOMAIN EmptyTable = {}
      BY DEF EmptyTable
    <2>3. \A c : \A f \in Files, n \in VersionNumbers, k \in Nat \ {0} : Uses(c, f, n, k)' => Uses(c, f, n, k)
      BY <2>1, <2>2 DEF Uses, Numbers
    <2>4. \A c : Held(c)' \subseteq Held(c)
      BY <2>3, HeldShrinks
    <2>5. \A c \in Chunks : IsFiniteSet(Held(c)') /\ Cardinality(Held(c)') <= Cardinality(Held(c))
                            /\ Cardinality(Held(c)') \in Nat /\ Cardinality(Held(c)) \in Nat
      BY <2>4, FS_Subset, FS_CardinalityType DEF CountsHeld
    <2>6. files' # Files
      BY <2>1
    <2>7. ASSUME NEW c \in Chunks
          PROVE  /\ IsFiniteSet(Held(c)')
                 /\ c \in chunks' => /\ refCount'[c] >= Cardinality(Held(c)')
                                     /\ files' = Files => refCount'[c] = Cardinality(Held(c)')
                 /\ c \notin chunks' => Held(c)' = {}
      <3>1. refCount[c] \in Int
        BY DEF TypeOK
      <3>2. c \in chunks => refCount[c] >= Cardinality(Held(c))
        BY DEF CountsHeld
      <3>3. c \in chunks => refCount[c] >= Cardinality(Held(c)')
        BY <2>5, <3>1, <3>2
      <3>4. c \notin chunks => Held(c)' = {}
        BY <2>4 DEF CountsHeld
      <3>5. QED
        BY <2>1, <2>5, <2>6, <3>3, <3>4
    <2>8. QED
      BY <2>4, <2>7 DEF CountsHeld
  <1>8. CASE RetentionPasses
    <2>1. /\ UNCHANGED <<files, chunks, refCount, creator, pruner>>
          /\ \A f \in Files : DOMAIN versions'[f] = Numbers(f)
          /\ \A f \in Files : \A n \in Numbers(f) : versions'[f][n] = [versions[f][n] EXCEPT !.old = TRUE]
      BY <1>8 DEF RetentionPasses, Numbers
    <2>2. \A f \in Files : \A n \in Numbers(f) : versions'[f][n].hashes = versions[f][n].hashes
      <3>1. \A f \in Files : \A n \in Numbers(f) : versions[f][n] \in VersionRow
        BY DEF TypeOK, IsTable, Numbers
      <3>2. \A row \in VersionRow : [row EXCEPT !.old = TRUE].hashes = row.hashes
        BY DEF VersionRow
      <3>3. QED
        BY <2>1, <3>1, <3>2
    <2>3. \A c : \A f \in Files, n \in VersionNumbers, k \in Nat \ {0} : Uses(c, f, n, k)' <=> Uses(c, f, n, k)
      BY <2>1, <2>2 DEF Uses, Numbers
    <2>4. \A c : Held(c)' = Held(c)
      BY <2>3, HeldSame
    <2>5. QED
      BY <1>2, <2>1, <2>4
  <1>9. QED
    BY <1>2, <1>3, <1>4, <1>5, <1>6, <1>7, <1>8 DEF Next, EnvironmentStep

\* The collectors release nothing, and delete only what nobody holds.
LEMMA CollectorCounts ==
    ASSUME GCTypeOK, OnePruner, CallsSound, CountsHeld, OrphansUnheld, BytesKept,
           failures = 0, failures' = 0,
           NEW g \in Collectors, CollectStep(g) \/ SkipOrphan(g) \/ CollectAborts(g)
    PROVE  CountsHeld' /\ OrphansUnheld' /\ BytesKept'
  <1> DEFINE call == collector[g]
  <1>1. call # Idle => call \in CollectCall
    BY DEF GCTypeOK
  <1>2. UNCHANGED <<files, currentVersion, versions, refCount, creator, pruner>>
    BY CollectorKeeps
  <1>3. \A c : Held(c)' = Held(c)
    BY <1>2 DEF Held, Uses, Numbers, Places
  <1>4. chunks' \subseteq chunks /\ chunks \subseteq Chunks
    BY CollectorKeeps DEF GCTypeOK, TypeOK
  <1>5. ASSUME \A c \in chunks \ chunks' : Held(c) = {}
        PROVE  CountsHeld'
    BY <1>2, <1>3, <1>4, <1>5 DEF CountsHeld
  <1>6. ASSUME NEW todo \in SUBSET Chunks, NextOrphan(g, todo), \A c \in todo : Held(c) = {}
        PROVE  OrphansUnheld'
    <2>1. \A h \in Collectors \ {g} : collector'[h] = collector[h]
      BY <1>6 DEF NextOrphan, GCTypeOK
    <2>2. collector'[g] # Idle => /\ collector'[g].chunk \in todo
                                  /\ collector'[g].todo \subseteq todo
      BY <1>6 DEF NextOrphan, GCTypeOK
    <2>3. QED
      BY <1>3, <1>6, <2>1, <2>2 DEF OrphansUnheld
  <1>7. CASE ListOrphans(g)
    <2>1. UNCHANGED <<chunks, stored>> /\ NextOrphan(g, Orphans) /\ Orphans \in SUBSET Chunks
      BY <1>4, <1>7 DEF ListOrphans, Orphans, vars
    <2>2. \A c \in Orphans : Held(c) = {}
      <3>1. ASSUME NEW c \in Chunks, c \in chunks, refCount[c] = 0
            PROVE  Held(c) = {}
        <4>1. IsFiniteSet(Held(c)) /\ 0 >= Cardinality(Held(c))
          BY <3>1 DEF CountsHeld
        <4>2. Cardinality(Held(c)) \in Nat
          BY <4>1, FS_CardinalityType
        <4>3. Cardinality(Held(c)) = 0
          BY <4>1, <4>2
        <4>4. QED
          BY <4>1, <4>3, FS_EmptySet
      <3>2. QED
        BY <1>4, <3>1 DEF Orphans
    <2>3. BytesKept'
      <3>1. collector[g] = Idle /\ \A h \in Collectors \ {g} : collector'[h] = collector[h]
        BY <1>7, <2>1 DEF ListOrphans, NextOrphan, GCTypeOK
      <3>2. QED
        BY <2>1, <3>1 DEF BytesKept
    <2>4. QED
      BY <1>5, <1>6, <2>1, <2>2, <2>3
  <1>8. ASSUME NEW n \in Nodes, DeleteFromNode(g, n)
        PROVE  CountsHeld' /\ OrphansUnheld' /\ BytesKept'
    <2>1. /\ call # Idle /\ call \in CollectCall
          /\ collector' = [collector EXCEPT ![g].asked = @ \cup {n}]
          /\ stored' = [stored EXCEPT ![n] = @ \ {call.chunk}]
          /\ UNCHANGED chunks
      BY <1>1, <1>8 DEF DeleteFromNode, tables, Failure
    <2>2. /\ \A h \in Collectors \ {g} : collector'[h] = collector[h]
          /\ collector'[g].chunk = call.chunk /\ collector'[g].todo = call.todo
          /\ collector'[g] # Idle
      <3>1. collector'[g] = [call EXCEPT !.asked = @ \cup {n}]
        BY <2>1 DEF GCTypeOK
      <3>2. [call EXCEPT !.asked = @ \cup {n}].at = "delete" /\ Idle.at = "idle"
        BY <2>1 DEF CollectCall, Idle
      <3>3. QED
        BY <2>1, <3>1, <3>2 DEF CollectCall, GCTypeOK
    <2>3. OrphansUnheld'
      BY <1>3, <2>1, <2>2 DEF OrphansUnheld
    <2>4. BytesKept'
      BY <2>1, <2>2 DEF BytesKept, GCTypeOK
    <2>5. QED
      BY <1>5, <2>1, <2>3, <2>4
  <1>9. CASE DeleteChunkRow(g)
    <2>1. /\ call # Idle /\ call \in CollectCall /\ chunks' = chunks \ {call.chunk}
          /\ NextOrphan(g, call.todo) /\ UNCHANGED stored
      BY <1>1, <1>9 DEF DeleteChunkRow
    <2>2. Held(call.chunk) = {} /\ \A c \in call.todo : Held(c) = {}
      BY <2>1 DEF OrphansUnheld
    <2>3. \A h \in Collectors \ {g} : collector'[h] = collector[h]
      BY <2>1 DEF NextOrphan, GCTypeOK
    <2>4. BytesKept'
      BY <2>1, <2>3 DEF BytesKept
    <2>5. call.todo \in SUBSET Chunks
      BY <2>1 DEF CollectCall
    <2>6. QED
      BY <1>5, <1>6, <2>1, <2>2, <2>4, <2>5
  <1>10. ~ SkipOrphan(g) /\ ~ CollectAborts(g)
    BY DEF SkipOrphan, CollectAborts, Failure, GCTypeOK, TypeOK
  <1>11. QED
    BY <1>7, <1>8, <1>9, <1>10 DEF CollectStep

\* The inductive invariant of runs in which collections are kept apart.
QuietInv == GCTypeOK /\ CallsSound /\ ExactInv

\* It holds at the start.
LEMMA QuietInvInit == GCInit => QuietInv
  <1> SUFFICES ASSUME GCInit
               PROVE  QuietInv
    OBVIOUS
  <1>1. GCTypeOK
    BY GCInitType
  <1>2. \A f \in Files : Numbers(f) = {}
    BY EmptyTableIsTable DEF GCInit, Init, Numbers
  <1>3. CallsSound
    BY <1>2, IdleIsNoCall DEF GCInit, Init, CallsSound, RowsHaveFiles, CreateSound, PruneSound,
                  NumbersOnce, Counting, CreateInFlight
  <1>4. \A c : Held(c) = {}
    <2>1. \A c : \A f \in Files, n \in VersionNumbers, k \in Nat \ {0} : ~ Uses(c, f, n, k)
      BY <1>2 DEF GCInit, Init, Uses, Lists
    <2>2. \A u \in Places : u[1] \in Files /\ u[2] \in VersionNumbers /\ u[3] \in Nat \ {0}
      BY DEF Places
    <2>3. QED
      BY <2>1, <2>2 DEF Held
  <1>5. chunks = {}
    BY DEF GCInit, Init
  <1>6. CountsHeld
    BY <1>4, <1>5, FS_EmptySet DEF CountsHeld
  <1>7. OrphansUnheld /\ BytesKept
    BY <1>4, <1>5 DEF OrphansUnheld, BytesKept
  <1>8. QED
    BY <1>1, <1>3, <1>6, <1>7 DEF QuietInv, ExactInv

\* Every step keeps it.
LEMMA QuietInvStep ==
    ASSUME OnePruner, NoOverlap, QuietInv, [GCNext]_gcVars
    PROVE  QuietInv'
  <1>1. GCTypeOK' /\ CallsSound' /\ GCTypeOK /\ CallsSound /\ TypeOK
    BY GCStepType, CallsSoundStep DEF QuietInv, GCTypeOK
  <1>2. ASSUME failures' = 0
        PROVE  failures = 0
    <2>1. failures' = failures \/ failures' = failures + 1
      BY DEF GCNext, VersionStep, CreateStep, ListVersions, InsertVersion, InsertRejected, CheckChunk,
         IncrementChunk, PublishVersion, IncrementFails, CreateAborts, PruneStep,
         SnapshotVersions, CheckCount, DecrementChunk, DeleteVersion, DecrementFails,
         PruneAborts, DeleteFile, RetentionPasses, tables, vars, gcVars, StoreChunk, RegisterChunk,
         CollectStep, ListOrphans, DeleteFromNode, DeleteChunkRow, SkipOrphan, CollectAborts, Failure
    <2>2. QED
      BY <1>1, <1>2, <2>1 DEF TypeOK
  <1>3. ASSUME failures = 0, failures' = 0
        PROVE  CountsHeld' /\ OrphansUnheld' /\ BytesKept'
    <2>1. CountsHeld /\ OrphansUnheld /\ BytesKept
      BY <1>3 DEF QuietInv, ExactInv
    <2>2. CASE UNCHANGED gcVars \/ VersionStep
      <3>1. [Next]_vars /\ UNCHANGED <<chunks, stored, collector>>
        BY <1>3, <2>2, VersionSteps, VersionStepKeepsChunks DEF gcVars, vars
      <3>2. /\ CountsHeld'
            /\ (\E q \in Pruners : PruneStep(q)) \/ EnvironmentStep \/ UNCHANGED vars =>
                   \A c : Held(c)' \subseteq Held(c)
        BY <1>1, <1>3, <2>1, <3>1, VersionStepCounts
      <3>3. BytesKept'
        BY <2>1, <3>1 DEF BytesKept
      <3>4. OrphansUnheld'
        <4>1. CASE ~ Collecting
          BY <3>1, <4>1 DEF OrphansUnheld, Collecting
        <4>2. CASE Collecting
          <5>1. (\E q \in Pruners : PruneStep(q)) \/ EnvironmentStep \/ UNCHANGED vars
            BY <2>2, <4>2 DEF VersionStep, EnvironmentStep, NoOverlap, gcVars
          <5>2. QED
            BY <2>1, <3>1, <3>2, <5>1 DEF OrphansUnheld
        <4>3. QED
          BY <4>1, <4>2
      <3>5. QED
        BY <3>2, <3>3, <3>4
    <2>3. ASSUME NEW d \in Chunks, StoreChunk(d)
          PROVE  CountsHeld' /\ OrphansUnheld' /\ BytesKept'
      <3>1. [Next]_vars /\ ~ Collecting /\ UNCHANGED collector /\ chunks' = chunks \cup {d}
            /\ \A n \in Nodes : stored'[n] = stored[n] \cup {d}
        BY <2>3, VersionSteps DEF StoreChunk, RegisterChunk, NoOverlap
      <3>2. CountsHeld'
        BY <1>1, <1>3, <2>1, <3>1, VersionStepCounts
      <3>3. OrphansUnheld'
        BY <3>1 DEF OrphansUnheld, Collecting
      <3>4. BytesKept'
        BY <2>1, <3>1 DEF BytesKept
      <3>5. QED
        BY <3>2, <3>3, <3>4
    <2>4. ASSUME NEW g \in Collectors, CollectStep(g) \/ SkipOrphan(g) \/ CollectAborts(g)
          PROVE  CountsHeld' /\ OrphansUnheld' /\ BytesKept'
      BY <1>1, <1>3, <2>1, <2>4, CollectorCounts
    <2>5. QED
      BY <2>2, <2>3, <2>4 DEF GCNext
  <1>4. QED
    BY <1>1, <1>2, <1>3 DEF QuietInv, ExactInv

\* As long as no call fails, the count of a chunk covers the places where the
\* versions use it, and is exact until a file is deleted, for any number of
\* creators and collectors, one pruner, and collections kept apart from
\* createVersion.
THEOREM CountsStayExact ==
    ASSUME OnePruner, NoOverlap
    PROVE  GCSpec => []CountsExact
  <1>1. QuietInv /\ [GCNext]_gcVars => QuietInv'
    BY QuietInvStep
  <1>2. QuietInv => CountsExact
    <2>1. SUFFICES ASSUME QuietInv, failures = 0, NEW c \in chunks
                   PROVE  /\ refCount[c] >= Cardinality(CountedPlaces(c))
                          /\ files = Files => refCount[c] = Cardinality(CountedPlaces(c))
      BY DEF CountsExact
    <2>2. c \in Chunks /\ TypeOK /\ CallsSound /\ CountsHeld /\ refCount[c] \in Int
      BY <2>1 DEF QuietInv, ExactInv, GCTypeOK, TypeOK
    <2>3. /\ CountedPlaces(c) \subseteq Held(c)
          /\ files = Files => CountedPlaces(c) = Held(c)
      BY <2>2, CountedAreHeld
    <2>4. /\ IsFiniteSet(Held(c)) /\ refCount[c] >= Cardinality(Held(c))
          /\ files = Files => refCount[c] = Cardinality(Held(c))
      BY <2>1, <2>2 DEF CountsHeld
    <2>5. /\ Cardinality(CountedPlaces(c)) <= Cardinality(Held(c))
          /\ Cardinality(CountedPlaces(c)) \in Nat /\ Cardinality(Held(c)) \in Nat
      BY <2>3, <2>4, FS_Subset, FS_CardinalityType
    <2>6. QED
      BY <2>2, <2>3, <2>4, <2>5
  <1>3. QED
    BY QuietInvInit, <1>1, <1>2, PTL DEF GCSpec

\* Under the same conditions no chunk that a version counts on loses its row
\* or its bytes on any node.
THEOREM UsedContentIsKept ==
    ASSUME OnePruner, NoOverlap
    PROVE  GCSpec => []ContentKept
  <1>1. QuietInv /\ [GCNext]_gcVars => QuietInv'
    BY QuietInvStep
  <1>2. QuietInv => ContentKept
    <2>1. SUFFICES ASSUME QuietInv, failures = 0, NEW c \in Chunks, CountedPlaces(c) # {}
                   PROVE  c \in chunks /\ \A n \in Nodes : c \in stored[n]
      BY DEF ContentKept
    <2>2. TypeOK /\ CallsSound /\ CountsHeld /\ OrphansUnheld /\ BytesKept
      BY <2>1 DEF QuietInv, ExactInv, GCTypeOK
    <2>3. Held(c) # {}
      BY <2>1, <2>2, CountedAreHeld
    <2>4. QED
      BY <2>2, <2>3 DEF CountsHeld, OrphansUnheld, BytesKept
  <1>3. QED
    BY QuietInvInit, <1>1, <1>2, PTL DEF GCSpec
=============================================================================
