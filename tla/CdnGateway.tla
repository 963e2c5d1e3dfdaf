----------------------------- MODULE CdnGateway -----------------------------
(***************************************************************************)
(* The edge cache in front of a storage node.  A miss reads from the node  *)
(* while writes, deletions and invalidations go on; what it has read is    *)
(* put into the cache when it arrives.                                     *)
(***************************************************************************)
EXTENDS StorageNode

CONSTANTS
    Clients,         \* calls of getChunk that run at the same time
    FileVersions,    \* pairs of a file and a version
    VersionContents, \* the sets of chunks that a version may have
    TTL,             \* TTL_MS, in ticks
    MaxEntries       \* MAX_CACHE_ENTRIES

ASSUME CacheAssumption ==
    TTL \in Nat /\ MaxEntries \in Nat \ {0} /\ VersionContents \subseteq SUBSET Chunks

VARIABLES
    cache,           \* the entries of the cache, by chunk
    fileVersionChunks,
    get,             \* what each getChunk does next
    settled,         \* history, see Settle
    invalidated      \* history, see InvalidateCache

vars == <<nodeVars, cache, fileVersionChunks, get, settled, invalidated>>
edgeVars == <<cache, fileVersionChunks, get, invalidated>>

Expired == TTL + 1   \* the age from which an entry is not used any more

\* idle: the time since lastAccessed; it is told apart up to the TTL only.
Entries == [content : {"partial", "whole"}, age : 0..Expired, idle : 0..TTL]

NotGetting == [at |-> "idle"]

TypeOK ==
    /\ NodeTypeOK
    /\ DOMAIN cache \subseteq Chunks
    /\ \A h \in DOMAIN cache : cache[h] \in Entries
    /\ Cardinality(DOMAIN cache) <= MaxEntries
    /\ fileVersionChunks \in [FileVersions -> VersionContents \cup {{}}]
    /\ get \in [Clients -> {NotGetting} \cup [at : {"read"}, chunk : Chunks]
                   \cup [at : {"put"}, chunk : Chunks, content : {"partial", "whole"}]]
    /\ settled \in [Chunks -> 0..Expired]
    /\ invalidated \subseteq Chunks

Init ==
    /\ NodeInit
    /\ cache = << >>
    /\ fileVersionChunks = [v \in FileVersions |-> {}]
    /\ get = [c \in Clients |-> NotGetting]
    /\ settled = [h \in Chunks |-> Expired]
    /\ invalidated = {}

Without(hashes) == [h \in DOMAIN cache \ hashes |-> cache[h]]

\* A chunk that was read, and is not in the cache yet
InFlight(h) == \E c \in Clients : get[c].at = "put" /\ get[c].chunk = h

\* settled[h] counts the ticks since the file of h last changed, or was on its
\* way from the node to the cache.
Settle == settled' = [h \in Chunks |-> IF disk'[h] # disk[h] THEN 0 ELSE settled[h]]

-----------------------------------------------------------------------------
(* getChunk *)

\* Mutant of Usable: a missing end of the lifetime.
UsableForever(h) == h \in DOMAIN cache

Usable(h) == h \in DOMAIN cache /\ cache[h].age < Expired

\* getCached: an expired entry is deleted, and a hit is dated.
GetChunk(c, h) ==
    /\ get[c] = NotGetting
    /\ IF Usable(h)
       THEN cache' = [cache EXCEPT ![h].idle = 0] /\ UNCHANGED get
       ELSE /\ cache' = Without({h})
            /\ get' = [get EXCEPT ![c] = [at |-> "read", chunk |-> h]]
    /\ invalidated' = IF Usable(h) THEN invalidated ELSE invalidated \ {h}
    /\ UNCHANGED <<nodeVars, fileVersionChunks, settled>>

\* readChunk: nothing verifies that the file is whole; a missing one throws.
ReadFile(c) ==
    /\ get[c].at = "read"
    /\ LET h == get[c].chunk IN
       get' = [get EXCEPT ![c] = IF disk[h] = "none" THEN NotGetting
                               ELSE [at |-> "put", chunk |-> h, content |-> disk[h]]]
    /\ UNCHANGED <<nodeVars, cache, fileVersionChunks, settled, invalidated>>

\* Mutant of Full: one entry too many.
OverFull == Cardinality(DOMAIN cache) > MaxEntries

Full == Cardinality(DOMAIN cache) >= MaxEntries

\* The entries that were not used for the longest time
Oldest == {h \in DOMAIN cache : \A k \in DOMAIN cache : cache[k].idle <= cache[h].idle}

\* putCache, whatever happened since the read.  A full cache loses an entry
\* even if the one that is set is there already.
PutCache(c) ==
    LET h == get[c].chunk
        entry == [content |-> get[c].content, age |-> 0, idle |-> 0]
        set(kept) == [k \in DOMAIN kept \cup {h} |-> IF k = h THEN entry ELSE kept[k]]
    IN  /\ get[c].at = "put"
        /\ IF Full
           THEN \E victim \in Oldest : cache' = set(Without({victim}))
           ELSE cache' = set(cache)
        /\ get' = [get EXCEPT ![c] = NotGetting]
        /\ UNCHANGED <<nodeVars, fileVersionChunks, settled, invalidated>>

-----------------------------------------------------------------------------
(* Invalidation, the clock and the node *)

RegisterFileVersion(v, hashes) ==
    /\ fileVersionChunks' = [fileVersionChunks EXCEPT ![v] = hashes]
    /\ UNCHANGED <<nodeVars, cache, get, settled, invalidated>>

\* Mutant of InvalidateCache: the registration is forgotten first.
ForgetVersion(v) ==
    /\ fileVersionChunks' = [fileVersionChunks EXCEPT ![v] = {}]
    /\ invalidated' = invalidated \cup
           {h \in fileVersionChunks[v] : \A c \in Clients : get[c] = NotGetting \/ get[c].chunk # h}
    /\ UNCHANGED <<nodeVars, cache, get, settled>>

\* `invalidated` has the chunks that nobody has asked for since, or when, they
\* were taken out of the cache.
InvalidateCache(v) ==
    /\ cache' = Without(fileVersionChunks[v])
    /\ fileVersionChunks' = [fileVersionChunks EXCEPT ![v] = {}]
    /\ invalidated' = invalidated \cup
           {h \in fileVersionChunks[v] : \A c \in Clients : get[c] = NotGetting \/ get[c].chunk # h}
    /\ UNCHANGED <<nodeVars, get, settled>>

Later(t, bound) == IF t < bound THEN t + 1 ELSE t
Tick ==
    /\ cache' = [h \in DOMAIN cache |->
           [cache[h] EXCEPT !.age = Later(@, Expired), !.idle = Later(@, TTL)]]
    /\ settled' = [h \in Chunks |-> IF InFlight(h) THEN 0 ELSE Later(settled[h], Expired)]
    /\ UNCHANGED <<nodeVars, fileVersionChunks, get, invalidated>>

NodeWorks == (\E j \in Jobs : NodeStep(j)) /\ Settle /\ UNCHANGED edgeVars

Next ==
    \/ \E c \in Clients :
          (\E h \in Chunks : GetChunk(c, h)) \/ ReadFile(c) \/ PutCache(c)
    \/ \E v \in FileVersions :
          (\E hashes \in VersionContents : RegisterFileVersion(v, hashes)) \/ InvalidateCache(v)
    \/ Tick
    \/ NodeWorks

Spec == Init /\ [][Next]_vars

-----------------------------------------------------------------------------
(* Properties *)

\* A chunk that was deleted, or read while it was being written, is delivered
\* from the cache for at most the TTL after the node has come to rest: then
\* the cache has what the node has.
WrongContentExpires ==
    \A h \in Chunks : settled[h] = Expired /\ Usable(h) => cache[h].content = disk[h]

\* An invalidated chunk does not come back before somebody asks for it, unless
\* it was being fetched when it was invalidated.
InvalidationHolds == invalidated \cap DOMAIN cache = {}
=============================================================================
