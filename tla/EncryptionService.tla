------------------------- MODULE EncryptionService --------------------------
(***************************************************************************)
(* The HSM with its versions of the master key, and the processes of the   *)
(* encryption service with their caches of it.  A request is answered by   *)
(* the HSM in one step and received in another: rotations and restarts of  *)
(* the HSM fall in between.                                                *)
(***************************************************************************)
EXTENDS Naturals

CONSTANTS
    Services,        \* processes of the encryption service
    Calls,           \* calls of encryptChunk and decryptChunkWithMetadata
    MaxVersion,      \* bound: versions of the master key
    MaxEpochs        \* bound: 1 + restarts of the HSM

ASSUME KeyBounds == MaxVersion \in Nat \ {0} /\ MaxEpochs \in Nat \ {0}

VARIABLES
    epoch,           \* how often the HSM was started; all its keys are new then
    currentKeyVersion,
    masterKeyCache,  \* masterKeyCache[s][v]: key of version v in process s
    fetch,           \* fetch[c]: the key request of call c
    rotation         \* rotation[s]: the request of rotateMasterKey in s

keyVars == <<epoch, currentKeyVersion, masterKeyCache, fetch, rotation>>

Versions == 1..MaxVersion

\* A key is random: version v of epoch e differs from all others, and is
\* known by e where v is known.
Keys == 1..MaxEpochs
NoKey == 0

NoFetch == [at |-> "none"]
Current == 0         \* GET /master-key, instead of a version
Fetches ==
    {NoFetch} \cup [at : {"asked"}, service : Services, version : Versions \cup {Current}]
              \cup [at : {"answered"}, service : Services, version : Versions,
                    key : Keys \cup {NoKey}]

KeyTypeOK ==
    /\ epoch \in Keys
    /\ currentKeyVersion \in Versions
    /\ masterKeyCache \in [Services -> [Versions -> Keys \cup {NoKey}]]
    /\ fetch \in [Calls -> Fetches]
    /\ rotation \in [Services -> {"none", "asked", "answered"}]

NothingCached == [v \in Versions |-> NoKey]

KeyInit ==
    /\ epoch = 1
    /\ currentKeyVersion = 1
    /\ masterKeyCache = [s \in Services |-> NothingCached]
    /\ fetch = [c \in Calls |-> NoFetch]
    /\ rotation = [s \in Services |-> "none"]

Ask(s, v) == [at |-> "asked", service |-> s, version |-> v]

\* Mutant of HasKey: a rotation replaces the key.
HasCurrentOnly(v) == v = currentKeyVersion

\* The versions are kept from the first to the current one.
HasKey(v) == v <= currentKeyVersion

\* The HSM looks up a key.
AnswerFetch(c) ==
    LET asked == fetch[c].version
        version == IF asked = Current THEN currentKeyVersion ELSE asked
    IN  /\ fetch[c].at = "asked"
        /\ fetch' = [fetch EXCEPT ![c] =
               [at |-> "answered", service |-> fetch[c].service, version |-> version,
                key |-> IF HasKey(version) THEN epoch ELSE NoKey]]
        /\ UNCHANGED <<epoch, currentKeyVersion, masterKeyCache, rotation>>

\* The answer is received, cached and used by the call.
ReceiveKey(c) ==
    LET f == fetch[c] IN
    /\ f.at = "answered"
    /\ masterKeyCache' = IF f.key = NoKey THEN masterKeyCache
                         ELSE [masterKeyCache EXCEPT ![f.service][f.version] = f.key]
    /\ fetch' = [fetch EXCEPT ![c] = NoFetch]
    /\ UNCHANGED <<epoch, currentKeyVersion, rotation>>

RotateMasterKey(s) ==
    /\ rotation[s] = "none"
    /\ rotation' = [rotation EXCEPT ![s] = "asked"]
    /\ UNCHANGED <<epoch, currentKeyVersion, masterKeyCache, fetch>>

AnswerRotation(s) ==
    /\ rotation[s] = "asked"
    /\ currentKeyVersion < MaxVersion
    /\ currentKeyVersion' = currentKeyVersion + 1
    /\ rotation' = [rotation EXCEPT ![s] = "answered"]
    /\ UNCHANGED <<epoch, masterKeyCache, fetch>>

\* The cache of this process is cleared, those of the others are not.
FinishRotation(s) ==
    /\ rotation[s] = "answered"
    /\ masterKeyCache' = [masterKeyCache EXCEPT ![s] = NothingCached]
    /\ rotation' = [rotation EXCEPT ![s] = "none"]
    /\ UNCHANGED <<epoch, currentKeyVersion, fetch>>

\* The HSM keeps its keys in memory.  A request that it has not answered is
\* lost; for the call this is like a missing key.
RestartHsm ==
    /\ epoch < MaxEpochs
    /\ epoch' = epoch + 1
    /\ currentKeyVersion' = 1
    /\ fetch' = [c \in Calls |->
           IF fetch[c].at = "asked"
           THEN [at |-> "answered", service |-> fetch[c].service, version |-> 1, key |-> NoKey]
           ELSE fetch[c]]
    /\ rotation' = [s \in Services |-> IF rotation[s] = "asked" THEN "none" ELSE rotation[s]]
    /\ UNCHANGED masterKeyCache

KeyManagement ==
    \/ \E s \in Services : RotateMasterKey(s) \/ AnswerRotation(s) \/ FinishRotation(s)
    \/ RestartHsm
=============================================================================
