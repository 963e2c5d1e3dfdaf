------------------------------ MODULE Transfer ------------------------------
(***************************************************************************)
(* A file goes up and comes down: it is cut into chunks while it is read,  *)
(* the chunks are encrypted in waves of parallelChunkOps, and later        *)
(* decrypted in waves and put together again.                              *)
(***************************************************************************)
EXTENDS Chunking, EncryptionService, SequencesExt

CONSTANTS
    MaxLength,       \* bound: length of the file
    Concurrency,     \* size of a wave
    MaxFailures      \* bound: how often the stream or a connection breaks

MaxChunks == MaxLength \div ChunkSize + 1
ASSUME TransferAssumption ==
    /\ MaxLength \in Nat /\ Concurrency \in Nat \ {0} /\ MaxFailures \in Nat
    /\ Calls = 1..MaxChunks

VARIABLES
    file,            \* the content
    phase,           \* what is done with it
    next,            \* the first chunk of the next wave
    writer, reader,  \* the processes that encrypt and decrypt
    op,              \* op[i]: the operation on chunk i
    asOf,            \* history: version of the master key when op[i] began
    stored,          \* stored[i]: chunk i, encrypted
    assembled,       \* what was put together in the end
    failures

vars == <<streamVars, keyVars, file, phase, next, writer, reader, op, asOf, stored,
          assembled, failures>>
fixed == <<file, writer, reader>>

\* All units differ, so that a changed order is seen.
FileOf(n) == [i \in 1..n |-> i]
Contents == Seq(1..MaxLength)
Nothing == [key |-> NoKey]

TypeOK ==
    /\ KeyTypeOK
    /\ unread \in Contents /\ buffer \in Contents /\ assembled \in Contents
    /\ chunks \in Seq(Contents) /\ Len(chunks) \in 0..MaxChunks
    /\ file \in {FileOf(n) : n \in 0..MaxLength}
    /\ phase \in {"reading", "encrypting", "decrypting", "done", "failed"}
    /\ next \in Nat \ {0}
    /\ writer \in Services /\ reader \in Services
    /\ op \in [Calls -> {"none", "running", "ok", "failed"}]
    /\ asOf \in [Calls -> Versions]
    /\ \A i \in Calls : stored[i] # Nothing =>
           stored[i].data \in Contents /\ stored[i].key \in Keys /\ stored[i].version \in Versions
    /\ failures \in 0..MaxFailures

Init ==
    /\ KeyInit
    /\ file \in {FileOf(n) : n \in 0..MaxLength}
    /\ unread = file
    /\ buffer = << >>
    /\ chunks = << >>
    /\ phase = "reading"
    /\ next = 1
    /\ writer \in Services
    /\ reader \in Services
    /\ op = [i \in Calls |-> "none"]
    /\ asOf = [i \in Calls |-> 1]
    /\ stored = [i \in Calls |-> Nothing]
    /\ assembled = << >>
    /\ failures = 0

Failure == failures < MaxFailures /\ failures' = failures + 1

-----------------------------------------------------------------------------
(* chunkFileStream *)

ReadStream ==
    /\ phase = "reading"
    /\ \/ (\E n \in 1..Len(unread) : Data(n)) /\ UNCHANGED <<phase, failures>>
       \/ End /\ phase' = "encrypting" /\ UNCHANGED failures
       \/ UNCHANGED streamVars /\ phase' = "failed" /\ Failure
    /\ UNCHANGED <<keyVars, fixed, next, op, asOf, stored, assembled>>

-----------------------------------------------------------------------------
(* parallelChunkOps over encryptChunk and decryptChunkWithMetadata *)

\* slice(i, i + concurrency)
Wave == {i \in 1..Len(chunks) : next <= i /\ i < next + Concurrency}

\* Promise.all: the operations of all waves so far have succeeded.
Settled == \A i \in Calls : op[i] \in {"none", "ok"}

BeginWave ==
    /\ Settled
    /\ next <= Len(chunks)
    /\ next' = next + Concurrency
    /\ UNCHANGED <<streamVars, epoch, currentKeyVersion, masterKeyCache, rotation, fixed,
                   phase, stored, assembled, failures>>

\* Mutant of KeyToEncrypt: the first version will do if it is cached.
FirstCached == IF masterKeyCache[writer][1] # NoKey THEN 1 ELSE Current

\* encryptChunk asks the HSM for the current key, whatever is cached.
KeyToEncrypt == Current

BeginEncryptions ==
    /\ phase = "encrypting"
    /\ BeginWave
    /\ op' = [i \in Calls |-> IF i \in Wave THEN "running" ELSE op[i]]
    /\ asOf' = [i \in Calls |-> IF i \in Wave THEN currentKeyVersion ELSE asOf[i]]
    /\ fetch' = [i \in Calls |-> IF i \in Wave THEN Ask(writer, KeyToEncrypt) ELSE fetch[i]]

\* GCM refuses any other key than the one that encrypted.
Outcome(i, key) == IF key = stored[i].key THEN "ok" ELSE "failed"

\* decryptChunkWithMetadata asks for the version of the chunk, unless it is
\* cached.
BeginDecryptions ==
    LET cached(i) == masterKeyCache[reader][stored[i].version] IN
    /\ phase = "decrypting"
    /\ BeginWave
    /\ op' = [i \in Calls |-> IF i \notin Wave THEN op[i]
                             ELSE IF cached(i) = NoKey THEN "running" ELSE Outcome(i, cached(i))]
    /\ fetch' = [i \in Calls |-> IF i \in Wave /\ cached(i) = NoKey
                                THEN Ask(reader, stored[i].version) ELSE fetch[i]]
    /\ UNCHANGED asOf

\* The key arrives, and the chunk is encrypted or decrypted with it.
FinishOperation(i) ==
    LET key == fetch[i].key IN
    /\ ReceiveKey(i)
    /\ IF stored[i] = Nothing
       THEN /\ op' = [op EXCEPT ![i] = IF key = NoKey THEN "failed" ELSE "ok"]
            /\ stored' = IF key = NoKey THEN stored
                         ELSE [stored EXCEPT ![i] =
                             [data |-> chunks[i], key |-> key, version |-> fetch[i].version]]
       ELSE op' = [op EXCEPT ![i] = Outcome(i, key)] /\ UNCHANGED stored
    /\ UNCHANGED <<streamVars, fixed, phase, next, asOf, assembled, failures>>

\* The loop ends; createAssemblyStream delivers the chunks in order.
FinishPhase ==
    /\ phase \in {"encrypting", "decrypting"}
    /\ Settled
    /\ next > Len(chunks)
    /\ IF phase = "encrypting"
       THEN phase' = "decrypting" /\ next' = 1 /\ UNCHANGED assembled
       ELSE /\ phase' = "done"
            /\ assembled' = FlattenSeq([i \in 1..Len(chunks) |-> stored[i].data])
            /\ UNCHANGED next
    /\ UNCHANGED <<streamVars, keyVars, fixed, op, asOf, stored, failures>>

\* Promise.all rejects; the other operations of the wave go on.
Reject ==
    /\ phase \in {"encrypting", "decrypting"}
    /\ ~ Settled
    /\ \E i \in Calls : op[i] = "failed"
    /\ phase' = "failed"
    /\ UNCHANGED <<streamVars, keyVars, fixed, next, op, asOf, stored, assembled, failures>>

-----------------------------------------------------------------------------

\* A connection to the HSM breaks: the request fails.
LoseConnection(i) ==
    /\ Failure
    /\ fetch[i].at = "asked"
    /\ fetch' = [fetch EXCEPT ![i] = [at |-> "answered", service |-> @.service,
                                     version |-> 1, key |-> NoKey]]
    /\ UNCHANGED <<streamVars, epoch, currentKeyVersion, masterKeyCache, rotation, fixed,
                   phase, next, op, asOf, stored, assembled>>

Next ==
    \/ ReadStream
    \/ BeginEncryptions \/ BeginDecryptions \/ FinishPhase \/ Reject
    \/ \E i \in Calls : FinishOperation(i) \/ LoseConnection(i)
    \/ (KeyManagement \/ \E i \in Calls : AnswerFetch(i))
       /\ UNCHANGED <<streamVars, fixed, phase, next, op, asOf, stored, assembled, failures>>

Spec == Init /\ [][Next]_vars

-----------------------------------------------------------------------------
(* Properties *)

\* A file that comes down is the one that went up, in chunks that are the
\* same however the stream was delivered, whatever happens to the keys.
RoundTrip == phase = "done" => assembled = file /\ chunks = ChunkFile(file)

\* Every chunk is encrypted with a version of the master key that was current
\* when its operation began or later: a finished rotation is never ignored.
RotationTakesEffect ==
    \A i \in Calls : stored[i] # Nothing /\ epoch = 1 => stored[i].version >= asOf[i]

\* What was encrypted before any number of rotations can be decrypted by every
\* process, until the HSM is restarted and its keys are lost.
ReadableUntilRestart == phase = "failed" => epoch > 1 \/ failures > 0
=============================================================================
