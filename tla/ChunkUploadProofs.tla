------------------------- MODULE ChunkUploadProofs --------------------------
(***************************************************************************)
(* Proofs about ChunkUpload, for any callers, chunks, thresholds, timeouts *)
(* and numbers of attempts and failures.                                   *)
(***************************************************************************)
EXTENDS ChunkUpload, FiniteSetTheorems, TLAPS

-----------------------------------------------------------------------------
(* The breaker *)

\* The breaker is closed as long as the count is below the threshold, although
\* answers of calls that began in another state keep coming in; it half-opens
\* after the timeout only, and every failure then opens it again.
BreakerInv ==
    /\ state \in {"closed", "open", "half-open"}
    /\ failureCount \in Nat
    /\ sinceFailure \in 0..ResetTimeout
    /\ state = "closed" <=> failureCount < Threshold
    /\ state = "half-open" => sinceFailure = ResetTimeout

LEMMA BreakerInitInv ==
    ASSUME Init
    PROVE  BreakerInv
  BY BreakerAssumption DEF Init, BreakerInit, BreakerInv

LEMMA BreakerUnchanged ==
    ASSUME BreakerInv, UNCHANGED breakerVars
    PROVE  BreakerInv'
  BY DEF BreakerInv, breakerVars

LEMMA BreakerStepInv ==
    ASSUME BreakerInv, [Next]_vars
    PROVE  BreakerInv'
  <1>1. CASE \E c \in Callers, method \in Methods, h \in Chunks : Attempt(c, method, h)
    <2>1. PICK c \in Callers : Reject(c) \/ LetThrough(c)
      BY <1>1 DEF Attempt
    <2>2. CASE Reject(c)
      BY <2>2, BreakerUnchanged DEF Reject
    <2>3. CASE LetThrough(c)
      BY <2>3, BreakerAssumption DEF LetThrough, Refuses, BreakerInv
    <2>4. QED
      BY <2>1, <2>2, <2>3
  <1>2. CASE \E c \in Callers : Report(c)
    <2>1. PICK c \in Callers : Succeed(c) \/ Fail(c)
      BY <1>2 DEF Report
    <2>2. CASE Succeed(c)
      BY <2>2, BreakerAssumption DEF Succeed, BreakerInv
    <2>3. CASE Fail(c)
      <3> DEFINE count == IF failureCount < MaxFailureCount THEN failureCount + 1 ELSE failureCount
      <3>1. /\ failureCount' = count /\ sinceFailure' = 0
            /\ state' = IF count >= Threshold THEN "open" ELSE state
        BY <2>3 DEF Fail, Opens
      <3>2. count \in Nat /\ (count < Threshold => failureCount < Threshold)
        BY BreakerAssumption DEF BreakerInv, MaxFailureCount
      <3>3. CASE count >= Threshold
        BY <3>1, <3>2, <3>3, BreakerAssumption DEF BreakerInv
      <3>4. CASE ~ (count >= Threshold)
        <4>1. failureCount < Threshold /\ state = "closed"
          BY <3>2, <3>4, BreakerAssumption DEF BreakerInv
        <4>2. QED
          BY <3>1, <3>2, <3>4, <4>1, BreakerAssumption DEF BreakerInv
      <3>5. QED
        BY <3>3, <3>4
    <2>4. QED
      BY <2>1, <2>2, <2>3
  <1>3. CASE \E c \in Callers : Serve(c) \/ Disconnect(c)
    BY <1>3, BreakerUnchanged DEF Serve, Disconnect
  <1>4. CASE NodeRestarts \/ DiskDecays
    BY <1>4, BreakerUnchanged DEF NodeRestarts, DiskDecays
  <1>5. CASE TimePasses
    BY <1>5, BreakerAssumption DEF TimePasses, Tick, BreakerInv
  <1>6. CASE UNCHANGED vars
    BY <1>6, BreakerUnchanged DEF vars
  <1>7. QED
    BY <1>1, <1>2, <1>3, <1>4, <1>5, <1>6 DEF Next

\* Once the failures have reached the threshold nothing reaches the node before
\* the timeout has passed, for any number of callers in whatever state.
THEOREM OpenBreakerRests == Spec => OpenRests
  <1>1. BreakerInv /\ [Next]_vars =>
            [\A c \in Callers :
                LetThrough(c) => failureCount < Threshold \/ sinceFailure = ResetTimeout]_vars
    BY BreakerAssumption DEF BreakerInv, LetThrough, Refuses
  <1>2. QED
    BY <1>1, BreakerInitInv, BreakerStepInv, PTL DEF Spec, OpenRests

-----------------------------------------------------------------------------
(* The calls *)

\* A call that sleeps has an attempt left.
CallStates ==
    {Idle} \cup [at : {"operation"}, attempt : 1..MaxAttempts]
           \cup [at : {"sleep"}, attempt : 1..(MaxAttempts - 1), wait : Nat]

CallsTyped == call \in [Callers -> CallStates]

\* An attempt that fails is the last, or another one follows after its delay.
LEMMA AfterFailure ==
    ASSUME CallsTyped, NEW c \in Callers, NEW attempt \in 1..MaxAttempts, GiveUpOrSleep(c, attempt)
    PROVE  CallsTyped' /\ \E new \in CallStates : call' = [call EXCEPT ![c] = new]
  <1> DEFINE asleep == [at |-> "sleep", attempt |-> attempt, wait |-> Delay(attempt)]
             new == IF attempt < MaxAttempts THEN asleep ELSE Idle
  <1>1. new \in CallStates
    <2>1. CASE attempt < MaxAttempts
      <3>1. attempt \in 1..(MaxAttempts - 1) /\ Delay(attempt) \in Nat
        BY <2>1, BreakerAssumption, DelayAssumption
      <3>2. QED
        BY <2>1, <3>1 DEF CallStates
    <2>2. CASE ~ (attempt < MaxAttempts)
      BY <2>2 DEF CallStates
    <2>3. QED
      BY <2>1, <2>2
  <1>2. call' = [call EXCEPT ![c] = new]
    BY DEF GiveUpOrSleep
  <1> HIDE DEF new
  <1>3. QED
    BY <1>1, <1>2 DEF CallsTyped

\* The attempt of a call that is due is one that withRetry makes.
LEMMA DueAttempt ==
    ASSUME CallsTyped, NEW c \in Callers, Due(c)
    PROVE  NextAttempt(c) \in 1..MaxAttempts
  <1>1. CASE call[c] = Idle
    BY <1>1, BreakerAssumption DEF NextAttempt
  <1>2. CASE call[c] # Idle
    <2>1. call[c] \in [at : {"sleep"}, attempt : 1..(MaxAttempts - 1), wait : Nat]
      BY <1>2 DEF CallsTyped, CallStates, Due
    <2>2. call[c].attempt \in 1..(MaxAttempts - 1)
      BY <2>1
    <2>3. QED
      BY <1>2, <2>2, BreakerAssumption DEF NextAttempt
  <1>3. QED
    BY <1>1, <1>2

LEMMA CallsStepTyped ==
    ASSUME CallsTyped, [Next]_vars
    PROVE  CallsTyped'
  <1>1. ASSUME NEW c \in Callers, Reject(c) \/ LetThrough(c)
        PROVE  CallsTyped'
    <2>1. NextAttempt(c) \in 1..MaxAttempts
      BY <1>1, DueAttempt DEF Reject, LetThrough
    <2>2. CASE Reject(c)
      BY <2>1, <2>2, AfterFailure DEF Reject
    <2>3. CASE LetThrough(c)
      <3> DEFINE new == [at |-> "operation", attempt |-> NextAttempt(c)]
      <3>1. new \in CallStates
        BY <2>1 DEF CallStates
      <3>2. call' = [call EXCEPT ![c] = new]
        BY <2>3 DEF LetThrough
      <3> HIDE DEF new
      <3>3. QED
        BY <3>1, <3>2 DEF CallsTyped
    <2>4. QED
      BY <1>1, <2>2, <2>3
  <1>2. ASSUME NEW c \in Callers, Succeed(c) \/ Fail(c)
        PROVE  CallsTyped'
    <2>1. CASE Succeed(c)
      BY <2>1 DEF Succeed, CallsTyped, CallStates
    <2>2. CASE Fail(c)
      <3>1. call[c].at = "operation" /\ GiveUpOrSleep(c, call[c].attempt)
        BY <2>2 DEF Fail
      <3>2. call[c].attempt \in 1..MaxAttempts
        BY <3>1 DEF CallsTyped, CallStates, Idle
      <3>3. QED
        BY <3>1, <3>2, AfterFailure
    <2>3. QED
      BY <1>2, <2>1, <2>2
  <1>3. CASE Tick
    <2>1. ASSUME NEW c \in Callers, call[c].at = "sleep", call[c].wait > 0
          PROVE  [call[c] EXCEPT !.wait = @ - 1] \in CallStates
      <3>1. call[c] \in [at : {"sleep"}, attempt : 1..(MaxAttempts - 1), wait : Nat]
        BY <2>1 DEF CallsTyped, CallStates, Idle
      <3>2. call[c].wait - 1 \in Nat
        BY <2>1, <3>1
      <3>3. QED
        BY <3>1, <3>2 DEF CallStates
    <2>2. QED
      BY <1>3, <2>1 DEF Tick, CallsTyped
  <1>4. CASE UNCHANGED call
    BY <1>4 DEF CallsTyped
  <1>5. QED
    BY <1>1, <1>2, <1>3, <1>4
       DEF Next, Attempt, Report, TimePasses, Serve, Disconnect, NodeRestarts, DiskDecays, vars

-----------------------------------------------------------------------------
(* The node *)

IsRequest(r) == r \in [method : Methods, chunk : Chunks, answer : Answers \cup {"none"}]

\* A file that does not have its hash was damaged, and what is promised exists.
ServerInv ==
    /\ disk \in [Chunks -> FileStates]
    /\ promised \subseteq Chunks
    /\ \A h \in Chunks : disk[h] = "bad" => h \in damaged
    /\ \A h \in promised : disk[h] # "none"

\* A call that goes on has a request, and no other has one.
CallsInv ==
    /\ CallsTyped
    /\ request = [c \in Callers |-> request[c]]
    /\ \A c \in Callers : call[c] # Idle => IsRequest(request[c])
    /\ \A c \in Callers : call[c] = Idle => request[c] = NoRequest

LEMMA NewAnswer ==
    ASSUME NEW r, IsRequest(r), NEW answer \in Answers
    PROVE  IsRequest([r EXCEPT !.answer = answer])
  BY DEF IsRequest

\* One caller's call and request change.
LEMMA OneCall ==
    ASSUME CallsInv, CallsTyped', NEW c \in Callers, NEW newCall, NEW newRequest,
           call' = [call EXCEPT ![c] = newCall],
           request' = [request EXCEPT ![c] = newRequest],
           newCall # Idle => IsRequest(newRequest),
           newCall = Idle => newRequest = NoRequest
    PROVE  CallsInv'
  BY DEF CallsInv, CallsTyped

LEMMA CallsStepInv ==
    ASSUME CallsInv, [Next]_vars
    PROVE  CallsInv'
  <1>0. CallsTyped /\ CallsTyped'
    BY CallsStepTyped DEF CallsInv
  <1>1. ASSUME NEW c \in Callers, NEW method \in Methods, NEW h \in Chunks, Attempt(c, method, h)
        PROVE  CallsInv'
    <2>1. PICK new : call' = [call EXCEPT ![c] = new]
      BY <1>1 DEF Attempt, Reject, LetThrough, GiveUpOrSleep
    <2>2. call'[c] = new
      BY <1>0, <2>1 DEF CallsTyped
    <2> DEFINE sent == [method |-> method, chunk |-> h, answer |-> "none"]
               r == IF new = Idle THEN NoRequest ELSE sent
    <2>3. request' = [request EXCEPT ![c] = r]
      BY <1>1, <2>2 DEF Attempt
    <2>4. new # Idle => IsRequest(r)
      BY DEF IsRequest
    <2>5. QED
      BY <1>0, <2>1, <2>3, <2>4, OneCall
  <1>2. ASSUME NEW c \in Callers, Report(c)
        PROVE  CallsInv'
    <2>1. PICK new : call' = [call EXCEPT ![c] = new]
      BY <1>2 DEF Report, Succeed, Fail, GiveUpOrSleep
    <2>2. call'[c] = new
      BY <1>0, <2>1 DEF CallsTyped
    <2> DEFINE r == IF new = Idle THEN NoRequest ELSE request[c]
    <2>3. request' = [request EXCEPT ![c] = r]
      BY <1>2, <2>2 DEF Report
    <2>4. IsRequest(request[c])
      BY <1>2 DEF Report, Answered, CallsInv, Idle
    <2>5. QED
      BY <1>0, <2>1, <2>3, <2>4, OneCall
  <1>3. ASSUME NEW c \in Callers, Serve(c) \/ Disconnect(c)
        PROVE  CallsInv'
    <2>1. PICK answer \in Answers : request' = [request EXCEPT ![c] = [request[c] EXCEPT !.answer = answer]]
      BY <1>3 DEF Serve, Disconnect, Answers
    <2>2. call[c].at = "operation" /\ UNCHANGED call
      BY <1>3 DEF Serve, Sent, Disconnect
    <2>3. IsRequest(request[c])
      BY <2>2 DEF CallsInv, Idle
    <2> DEFINE r == [request[c] EXCEPT !.answer = answer]
    <2>4. IsRequest(r)
      BY <2>3, NewAnswer
    <2> HIDE DEF r
    <2>5. request' = [request EXCEPT ![c] = r]
      BY <2>1 DEF r
    <2>6. call[c] # Idle
      BY <2>2 DEF Idle
    <2>7. QED
      BY <1>0, <2>2, <2>4, <2>5, <2>6 DEF CallsInv
  <1>4. CASE NodeRestarts
    <2>1. /\ UNCHANGED call
          /\ request' = [c \in Callers |->
                 IF call[c].at = "operation" THEN [request[c] EXCEPT !.answer = "error"]
                                             ELSE request[c]]
      BY <1>4 DEF NodeRestarts
    <2>2. ASSUME NEW c \in Callers, call[c] # Idle
          PROVE  IsRequest(request'[c])
      <3>1. IsRequest(request[c]) /\ "error" \in Answers
        BY <2>2 DEF CallsInv, Answers
      <3>2. IsRequest([request[c] EXCEPT !.answer = "error"])
        BY <3>1, NewAnswer
      <3>3. request'[c] \in {[request[c] EXCEPT !.answer = "error"], request[c]}
        BY <2>1
      <3>4. QED
        BY <3>1, <3>2, <3>3
    <2>3. request' = [c \in Callers |-> request'[c]]
      BY <2>1
    <2>4. \A c \in Callers : call[c] = Idle => request'[c] = request[c]
      BY <2>1 DEF Idle
    <2>5. QED
      BY <1>0, <2>1, <2>2, <2>3, <2>4 DEF CallsInv
  <1>5. CASE TimePasses
    <2>1. ASSUME NEW c \in Callers
          PROVE  call'[c] = Idle <=> call[c] = Idle
      <3>1. CASE call[c].at = "sleep" /\ call[c].wait > 0
        <4>1. call'[c].at = "sleep"
          <5>1. call[c] \in [at : {"sleep"}, attempt : 1..(MaxAttempts - 1), wait : Nat]
            BY <1>0, <3>1 DEF CallsTyped, CallStates, Idle
          <5>2. call'[c] = [call[c] EXCEPT !.wait = @ - 1]
            BY <1>5, <3>1 DEF TimePasses, Tick
          <5>3. QED
            BY <5>1, <5>2
        <4>2. QED
          BY <3>1, <4>1 DEF Idle
      <3>2. CASE ~ (call[c].at = "sleep" /\ call[c].wait > 0)
        BY <1>5, <3>2 DEF TimePasses, Tick
      <3>3. QED
        BY <3>1, <3>2
    <2>2. UNCHANGED request
      BY <1>5 DEF TimePasses
    <2>3. QED
      BY <1>0, <2>1, <2>2 DEF CallsInv
  <1>6. CASE DiskDecays \/ UNCHANGED vars
    BY <1>0, <1>6 DEF DiskDecays, vars, CallsInv
  <1>7. QED
    BY <1>1, <1>2, <1>3, <1>4, <1>5, <1>6 DEF Next

-----------------------------------------------------------------------------
(* What the node does to its files *)

\* A file changes only into one of the same hash, or is noted as damaged.
FilesSound(theDisk, theDamaged) ==
    /\ theDisk \in [Chunks -> FileStates]
    /\ \A h \in Chunks : theDisk[h] = "bad" => h \in theDamaged

LEMMA TornSound ==
    ASSUME FilesSound(disk, damaged), NEW h \in Chunks, disk[h] = "none", Torn(h)
    PROVE  /\ FilesSound(disk', damaged')
           /\ \A k \in Chunks : disk[k] # "none" => disk'[k] # "none"
  BY DEF FilesSound, Torn, FileStates

LEMMA WriteSound ==
    ASSUME FilesSound(disk, damaged), NEW h \in Chunks, NEW intact \in BOOLEAN,
           NEW answer \in Answers, WriteChunk(h, intact, answer)
    PROVE  /\ FilesSound(disk', damaged')
           /\ \A k \in Chunks : disk[k] # "none" => disk'[k] # "none"
           /\ answer = "ok" => disk'[h] # "none"
  <1>1. CASE /\ UNCHANGED serverVars
             /\ ~ intact \/ disk[h] # "none"
             /\ answer = IF intact THEN "ok" ELSE "error"
    BY <1>1 DEF serverVars, FilesSound
  <1>2. CASE disk' = [disk EXCEPT ![h] = "good"] /\ UNCHANGED damaged
    BY <1>2 DEF FilesSound, FileStates
  <1>3. CASE disk[h] = "none" /\ Torn(h) /\ answer = "error"
    BY <1>3, TornSound
  <1>4. QED
    BY <1>1, <1>2, <1>3 DEF WriteChunk, HashMatches

LEMMA RemoveSound ==
    ASSUME FilesSound(disk, damaged), NEW h \in Chunks, NEW answer \in Answers,
           RemoveChunk(h, answer)
    PROVE  /\ FilesSound(disk', damaged')
           /\ \A k \in Chunks : disk[k] # "none" /\ k # h => disk'[k] # "none"
  <1>1. CASE UNCHANGED <<disk, damaged>>
    BY <1>1 DEF FilesSound
  <1>2. CASE disk' = [disk EXCEPT ![h] = "none"] /\ damaged' = damaged \ {h}
    BY <1>2 DEF FilesSound, FileStates
  <1>3. QED
    BY <1>1, <1>2 DEF RemoveChunk, serverVars

-----------------------------------------------------------------------------
(* Promises *)

LEMMA ServeInv ==
    ASSUME ServerInv, CallsInv, NEW c \in Callers, Serve(c)
    PROVE  ServerInv'
  <1> DEFINE h == request[c].chunk
             method == request[c].method
  <1>1. IsRequest(request[c])
    BY DEF Serve, Sent, CallsInv, Idle
  <1>2. h \in Chunks /\ method \in Methods
    BY <1>1 DEF IsRequest
  <1>3. PICK answer \in Answers :
          /\ \/ method = "put" /\ \E intact \in BOOLEAN : WriteChunk(h, intact, answer)
             \/ method = "get" /\ ReadChunk(h, answer)
             \/ method = "verify" /\ VerifyChunk(h, answer)
             \/ method = "delete" /\ RemoveChunk(h, answer)
          /\ Promises(method, h, answer)
    BY DEF Serve
  <1>4. FilesSound(disk, damaged)
    BY DEF ServerInv, FilesSound
  <1>5. CASE method = "put"
    <2>1. /\ FilesSound(disk', damaged')
          /\ \A k \in Chunks : disk[k] # "none" => disk'[k] # "none"
          /\ answer = "ok" => disk'[h] # "none"
      BY <1>2, <1>3, <1>4, <1>5, WriteSound
    <2>2. promised' = IF answer = "ok" THEN promised \cup {h} ELSE promised
      BY <1>3, <1>5 DEF Promises
    <2>3. QED
      BY <1>2, <2>1, <2>2 DEF ServerInv, FilesSound
  <1>6. CASE method = "delete"
    <2>1. /\ FilesSound(disk', damaged')
          /\ \A k \in Chunks : disk[k] # "none" /\ k # h => disk'[k] # "none"
      BY <1>2, <1>3, <1>4, <1>6, RemoveSound
    <2>2. promised' = IF disk'[h] = "none" THEN promised \ {h} ELSE promised
      BY <1>3, <1>6 DEF Promises
    <2>3. QED
      BY <1>2, <2>1, <2>2 DEF ServerInv, FilesSound
  <1>7. CASE method \in {"get", "verify"}
    <2>1. UNCHANGED serverVars /\ promised' = promised
      BY <1>3, <1>7 DEF ReadChunk, VerifyChunk, Promises
    <2>2. QED
      BY <2>1 DEF serverVars, ServerInv
  <1>8. QED
    BY <1>2, <1>5, <1>6, <1>7 DEF Methods

\* A file that was promised is not open for writing when the node ends.
LEMMA NodeRestartsInv ==
    ASSUME ServerInv, NodeRestarts
    PROVE  ServerInv'
  <1>1. PICK h \in Chunks : Crash(h, Writing(h))
    BY DEF NodeRestarts
  <1>2. FilesSound(disk, damaged) /\ promised' = promised
    BY DEF ServerInv, FilesSound, NodeRestarts
  <1>3. CASE UNCHANGED <<disk, damaged>>
    BY <1>2, <1>3 DEF ServerInv
  <1>4. CASE disk[h] = "none" /\ Torn(h)
    <2>1. /\ FilesSound(disk', damaged')
          /\ \A k \in Chunks : disk[k] # "none" => disk'[k] # "none"
      BY <1>2, <1>4, TornSound
    <2>2. QED
      BY <1>2, <2>1 DEF ServerInv, FilesSound
  <1>5. QED
    BY <1>1, <1>3, <1>4 DEF Crash

LEMMA ServerStepInv ==
    ASSUME ServerInv, CallsInv, [Next]_vars
    PROVE  ServerInv'
  <1>1. CASE \E c \in Callers : Serve(c)
    BY <1>1, ServeInv
  <1>2. CASE NodeRestarts
    BY <1>2, NodeRestartsInv
  <1>3. CASE DiskDecays
    BY <1>3 DEF DiskDecays, Decay, ServerInv, FileStates
  <1>4. CASE UNCHANGED <<serverVars, promised>>
    BY <1>4 DEF serverVars, ServerInv
  <1>5. QED
    BY <1>1, <1>2, <1>3, <1>4 DEF Next, Attempt, Report, Disconnect, TimePasses, vars

LEMMA UploadInit ==
    ASSUME Init
    PROVE  ServerInv /\ CallsInv
  BY DEF Init, BreakerInit, ServerInit, ServerInv, CallsInv, CallsTyped, CallStates, FileStates

\* A chunk that the node has acknowledged, if only to a repeated PUT, is kept
\* until it is deleted, and is intact unless its file was damaged, whatever
\* requests are lost, repeated, mutilated or cut short by restarts.
THEOREM PromisesAreKept == Spec => []PromisesKept
  <1>1. Init => ServerInv /\ CallsInv
    BY UploadInit
  <1>2. ServerInv /\ CallsInv /\ [Next]_vars => (ServerInv /\ CallsInv)'
    BY CallsStepInv, ServerStepInv
  <1>3. ServerInv => PromisesKept
    BY DEF ServerInv, PromisesKept, FileStates
  <1>4. QED
    BY <1>1, <1>2, <1>3, PTL DEF Spec

-----------------------------------------------------------------------------
(* Types *)

\* What the invariants above do not say about the types.
CountersTyped ==
    /\ failureCount \in 0..MaxFailureCount
    /\ chunkCount \in 0..Cardinality(Chunks)
    /\ damaged \subseteq Chunks
    /\ failures \in 0..MaxFailures

LEMMA CountersInit ==
    ASSUME Init
    PROVE  CountersTyped
  <1>1. Cardinality(Chunks) \in Nat
    BY ServerAssumption, FS_CardinalityType
  <1>2. QED
    BY <1>1, BreakerAssumption, ServerAssumption
       DEF Init, BreakerInit, ServerInit, CountersTyped, MaxFailureCount

\* However many files there are, there are no more than chunks.
LEMMA RecountTyped ==
    ASSUME Recount
    PROVE  chunkCount' \in 0..Cardinality(Chunks)
  <1> DEFINE present == {h \in Chunks : disk'[h] # "none"}
  <1>1. /\ Cardinality(present) \in Nat /\ Cardinality(Chunks) \in Nat
        /\ Cardinality(present) <= Cardinality(Chunks)
    <2>1. present \subseteq Chunks
      OBVIOUS
    <2>2. QED
      BY <2>1, ServerAssumption, FS_Subset, FS_CardinalityType
  <1>2. chunkCount' = Cardinality(present)
    BY DEF Recount, Present
  <1>3. QED
    BY <1>1, <1>2

LEMMA ServeCounters ==
    ASSUME CallsInv, CountersTyped, NEW c \in Callers, Serve(c)
    PROVE  CountersTyped'
  <1> DEFINE h == request[c].chunk
  <1>1. h \in Chunks
    BY DEF Serve, Sent, CallsInv, IsRequest, Idle
  <1>2. failureCount' = failureCount
    BY DEF Serve, breakerVars
  <1>3. PICK answer \in Answers :
          \/ \E intact \in BOOLEAN : WriteChunk(h, intact, answer)
          \/ ReadChunk(h, answer)
          \/ VerifyChunk(h, answer)
          \/ RemoveChunk(h, answer)
    BY DEF Serve
  <1> HIDE DEF h
  <1>4. \/ UNCHANGED serverVars
        \/ /\ Recount \/ UNCHANGED chunkCount
           /\ Failure \/ UNCHANGED failures
           /\ damaged' \in {damaged, damaged \cup {h}, damaged \ {h}}
    BY <1>3 DEF WriteChunk, ReadChunk, VerifyChunk, RemoveChunk, Torn
  <1>5. CASE UNCHANGED serverVars
    BY <1>2, <1>5 DEF serverVars, CountersTyped
  <1>6. CASE /\ Recount \/ UNCHANGED chunkCount
             /\ Failure \/ UNCHANGED failures
             /\ damaged' \in {damaged, damaged \cup {h}, damaged \ {h}}
    <2>1. chunkCount' \in 0..Cardinality(Chunks)
      BY <1>6, RecountTyped DEF CountersTyped
    <2>2. failures' \in 0..MaxFailures
      BY <1>6, ServerAssumption DEF Failure, CountersTyped
    <2>3. damaged' \subseteq Chunks
      BY <1>1, <1>6 DEF CountersTyped
    <2>4. QED
      BY <1>2, <2>1, <2>2, <2>3 DEF CountersTyped
  <1>7. QED
    BY <1>4, <1>5, <1>6

LEMMA CountersStep ==
    ASSUME CallsInv, CountersTyped, [Next]_vars
    PROVE  CountersTyped'
  <1>1. CASE \E c \in Callers : Serve(c)
    BY <1>1, ServeCounters
  <1>2. CASE NodeRestarts
    <2>1. PICK h \in Chunks : Crash(h, Writing(h))
      BY <1>2 DEF NodeRestarts
    <2>2. damaged' \in {damaged, damaged \cup {h}}
      BY <2>1 DEF Crash, Torn
    <2>3. chunkCount' \in 0..Cardinality(Chunks) /\ failures' \in 0..MaxFailures
      BY <2>1, RecountTyped, ServerAssumption DEF Crash, Failure, CountersTyped
    <2>4. QED
      BY <1>2, <2>2, <2>3 DEF NodeRestarts, breakerVars, CountersTyped
  <1>3. CASE DiskDecays
    BY <1>3, ServerAssumption DEF DiskDecays, Decay, Failure, breakerVars, CountersTyped
  <1>4. CASE UNCHANGED serverVars /\ failureCount' \in {0, failureCount}
    BY <1>4, BreakerAssumption DEF serverVars, CountersTyped, MaxFailureCount
  <1>5. CASE UNCHANGED serverVars /\ \E c \in Callers : Fail(c)
    BY <1>5, BreakerAssumption DEF Fail, serverVars, CountersTyped, MaxFailureCount
  <1>6. QED
    BY <1>1, <1>2, <1>3, <1>4, <1>5
       DEF Next, Attempt, Report, Disconnect, TimePasses, Tick, Reject, LetThrough, Succeed,
           breakerVars, vars

\* The state of the breaker, the calls and the node is well typed: no call
\* makes more attempts than it may, and the counter of the files never exceeds
\* the number of chunks, whatever fails.
THEOREM UploadTypeCorrect == Spec => []TypeOK
  <1>1. Init => BreakerInv /\ CallsInv /\ ServerInv /\ CountersTyped
    BY BreakerInitInv, CountersInit, UploadInit
  <1>2. /\ BreakerInv /\ CallsInv /\ ServerInv /\ CountersTyped
        /\ [Next]_vars
        => (BreakerInv /\ CallsInv /\ ServerInv /\ CountersTyped)'
    BY BreakerStepInv, CallsStepInv, ServerStepInv, CountersStep
  <1>3. BreakerInv /\ CallsInv /\ ServerInv /\ CountersTyped => TypeOK
    <2> SUFFICES ASSUME BreakerInv, CallsInv, ServerInv, CountersTyped PROVE TypeOK
      OBVIOUS
    <2>1. call \in [Callers -> {Idle} \cup [at : {"operation"}, attempt : 1..MaxAttempts]
                          \cup [at : {"sleep"}, attempt : 1..MaxAttempts, wait : Nat]]
      <3>1. 1..(MaxAttempts - 1) \subseteq 1..MaxAttempts
        BY BreakerAssumption
      <3>2. CallStates \subseteq {Idle} \cup [at : {"operation"}, attempt : 1..MaxAttempts]
                          \cup [at : {"sleep"}, attempt : 1..MaxAttempts, wait : Nat]
        BY <3>1 DEF CallStates
      <3>3. QED
        BY <3>2 DEF CallsInv, CallsTyped
    <2>2. BreakerTypeOK
      BY <2>1 DEF BreakerInv, CountersTyped, BreakerTypeOK
    <2>3. ServerTypeOK
      BY DEF ServerInv, CountersTyped, ServerTypeOK
    <2>4. request \in [Callers -> {NoRequest} \cup
               [method : Methods, chunk : Chunks, answer : Answers \cup {"none"}]]
      BY DEF CallsInv, IsRequest
    <2>5. QED
      BY <2>2, <2>3, <2>4 DEF TypeOK, ServerInv
  <1>4. QED
    BY <1>1, <1>2, <1>3, PTL DEF Spec
=============================================================================
