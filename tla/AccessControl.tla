--------------------------- MODULE AccessControl ----------------------------
(***************************************************************************)
(* The permission checks of the API gateway: checkPermission with its      *)
(* cache, grantPermission, revokePermission and the deletion of a file,    *)
(* over the tables files and file_permissions.  A statement that the store *)
(* executes and the code that runs when its answer arrives are two steps,  *)
(* because an invalidation of the cache may fall between them.             *)
(***************************************************************************)
EXTENDS Naturals

CONSTANTS
    Users, Files,
    Operations,      \* operations that are asked for
    Permissions,     \* permissions that are granted
    Clients,         \* requests that the gateway handles at the same time
    TTL,             \* CACHE_TTL_MS, in ticks of the clock
    NoOwner,         \* stands for the owner of a file that does not exist
    MaxCreations,    \* bound: how many files are created
    MaxFailures      \* bound: how many store calls fail, or have lost answers

ASSUME OperationAssumption ==
    /\ Operations \subseteq {"read", "write", "delete", "share"}
    /\ Permissions \subseteq {"read", "write", "delete"}
ASSUME TTLAssumption == TTL \in Nat \ {0}
ASSUME NoOwnerAssumption == NoOwner \notin Users
ASSUME AccessBounds == MaxCreations \in Nat /\ MaxFailures \in Nat

VARIABLES
    owner,           \* owner[f]: owner_id of the row of f in files
    granted,         \* granted[f][u]: permission of the row in file_permissions
    cache,           \* permissionCache, by key
    request,         \* what each client's request does next
    settled,         \* history, see Settle
    overtaken,       \* history, see Settle
    creations, failures

vars == <<owner, granted, cache, request, settled, overtaken, creations, failures>>
tables == <<owner, granted>>
bounds == <<creations, failures>>
history == <<settled, overtaken>>

Keys == [user : Users, file : Files, op : Operations]
Rows == Permissions \cup {"none"}

\* An entry that is as old as the TTL is not looked at, like a missing one.
Expired == [result |-> FALSE, age |-> TTL]

Idle == [at |-> "idle"]
CheckCall ==
    [at : {"file", "permission", "delete"}, key : Keys]
        \cup [at : {"answer"}, key : Keys, answer : BOOLEAN]
ChangeCall == [at : {"verify", "store", "invalidate"}, by : Users, file : Files,
               target : Users, row : Rows]

TypeOK ==
    /\ owner \in [Files -> Users \cup {NoOwner}]
    /\ granted \in [Files -> [Users -> Rows]]
    /\ cache \in [Keys -> [result : BOOLEAN, age : 0..TTL]]
    /\ request \in [Clients -> {Idle} \cup CheckCall \cup ChangeCall]
    /\ settled \in [Keys -> 0..TTL]
    /\ overtaken \subseteq Keys
    /\ creations \in 0..MaxCreations
    /\ failures \in 0..MaxFailures

Init ==
    /\ owner = [f \in Files |-> NoOwner]
    /\ granted = [f \in Files |-> [u \in Users |-> "none"]]
    /\ cache = [k \in Keys |-> Expired]
    /\ request = [c \in Clients |-> Idle]
    /\ settled = [k \in Keys |-> TTL]
    /\ overtaken = {}
    /\ creations = 0
    /\ failures = 0

\* operationToPermission
PermissionFor(op) == IF op = "share" THEN "write" ELSE op

\* The answer that the tables give: there is one row per file and user, and
\* its permission has to be the one that is asked for.
Authorized(k) ==
    \/ owner[k.file] = k.user
    \/ owner[k.file] # NoOwner /\ granted[k.file][k.user] = PermissionFor(k.op)

\* A check of k that has begun to read the tables, or been answered yes.
InFlight(k) ==
    \E c \in Clients : request[c].at \in {"permission", "answer", "delete"} /\ request[c].key = k

\* What a statement does to the history.  settled[k] counts the ticks, up to
\* TTL, since the answer for k last changed in the tables or a check of k was
\* last in flight.  `overtaken` has the keys whose answer changed behind the
\* back of the cache: with a check in flight, or with no invalidation to come.
Settle(invalidates) ==
    LET changed == {k \in Keys : Authorized(k)' # Authorized(k)} IN
    /\ settled' = [k \in Keys |-> IF k \in changed THEN 0 ELSE settled[k]]
    /\ overtaken' = overtaken \cup {k \in changed : InFlight(k) \/ ~ invalidates}

KeysOf(u, f) == {k \in Keys : k.user = u /\ k.file = f}

Continue(c, r) == request' = [request EXCEPT ![c] = r]

-----------------------------------------------------------------------------
(* checkPermission and the routes that use it *)

Fresh(k) == cache[k].age < TTL

\* The DELETE route goes on if it is allowed to; the others only read.
After(k, allowed) ==
    IF allowed /\ k.op = "delete" THEN [at |-> "delete", key |-> k] ELSE Idle

\* A fresh entry of the cache decides at once.
StartCheck(c, k) ==
    /\ request[c] = Idle
    /\ Continue(c, IF Fresh(k) THEN After(k, cache[k].result) ELSE [at |-> "file", key |-> k])
    /\ UNCHANGED <<tables, cache, history, bounds>>

\* getFile: no file, or the user's own, decides.
ReadFile(c) ==
    /\ request[c].at = "file"
    /\ LET k == request[c].key
           row == owner[k.file]
       IN  Continue(c, IF row \in {NoOwner, k.user}
                       THEN [at |-> "answer", key |-> k, answer |-> row = k.user]
                       ELSE [at |-> "permission", key |-> k])
    /\ UNCHANGED <<tables, cache, history, bounds>>

\* checkPermission of the store
ReadPermission(c) ==
    /\ request[c].at = "permission"
    /\ LET k == request[c].key IN
       Continue(c, [at |-> "answer", key |-> k,
                    answer |-> granted[k.file][k.user] = PermissionFor(k.op)])
    /\ UNCHANGED <<tables, cache, history, bounds>>

\* cacheResult, whatever has happened to the tables and the cache since.
Answer(c) ==
    /\ request[c].at = "answer"
    /\ cache' = [cache EXCEPT ![request[c].key] = [result |-> request[c].answer, age |-> 0]]
    /\ Continue(c, After(request[c].key, request[c].answer))
    /\ UNCHANGED <<tables, history, bounds>>

\* deleteFile; the rows of file_permissions go by cascade, the cache stays.
DeleteFile(c) ==
    /\ request[c].at = "delete"
    /\ LET f == request[c].key.file IN
       /\ owner' = [owner EXCEPT ![f] = NoOwner]
       /\ granted' = [granted EXCEPT ![f] = [u \in Users |-> "none"]]
    /\ Settle(FALSE)
    /\ Continue(c, Idle)
    /\ UNCHANGED <<cache, bounds>>

-----------------------------------------------------------------------------
(* grantPermission, and revokePermission as a change to no permission *)

StartChange(c, by, f, target, row) ==
    /\ request[c] = Idle
    /\ Continue(c, [at |-> "verify", by |-> by, file |-> f, target |-> target, row |-> row])
    /\ UNCHANGED <<tables, cache, history, bounds>>

MayChange(r) == owner[r.file] = r.by

\* getFile: without the file, or for another user than its owner, it throws.
VerifyOwner(c) ==
    /\ request[c].at = "verify"
    /\ Continue(c, IF MayChange(request[c]) THEN [request[c] EXCEPT !.at = "store"] ELSE Idle)
    /\ UNCHANGED <<tables, cache, history, bounds>>

\* The upsert or the delete.  The foreign key refuses a row without a file.
StoreChange(c) ==
    LET r == request[c]
        accepted == r.row = "none" \/ owner[r.file] # NoOwner
    IN  /\ r.at = "store"
        /\ granted' = IF accepted THEN [granted EXCEPT ![r.file][r.target] = r.row] ELSE granted
        /\ Continue(c, IF accepted THEN [r EXCEPT !.at = "invalidate"] ELSE Idle)
        /\ UNCHANGED <<owner, cache, bounds>>
        /\ Settle(TRUE)

\* Mutant of Invalidated: nothing is taken out of the cache.
NotInvalidated(u, f) == cache

\* invalidateCacheForUser
Invalidated(u, f) == [k \in Keys |-> IF k \in KeysOf(u, f) THEN Expired ELSE cache[k]]

Invalidate(c) ==
    /\ request[c].at = "invalidate"
    /\ cache' = Invalidated(request[c].target, request[c].file)
    /\ Continue(c, Idle)
    /\ UNCHANGED <<tables, history, bounds>>

-----------------------------------------------------------------------------
(* The other uses of the tables, the clock, failures *)

\* createFile of finalizeUpload.
CreateFile(f, u) ==
    /\ owner[f] = NoOwner
    /\ creations < MaxCreations
    /\ creations' = creations + 1
    /\ owner' = [owner EXCEPT ![f] = u]
    /\ UNCHANGED <<granted, cache, request, failures>>
    /\ Settle(FALSE)

\* A store call is rejected, or its answer is lost after it took effect.
CallFails(c) ==
    /\ request[c] # Idle
    /\ failures < MaxFailures
    /\ failures' = failures + 1
    /\ overtaken' = IF request[c].at = "invalidate"
                    THEN overtaken \cup KeysOf(request[c].target, request[c].file)
                    ELSE overtaken
    /\ Continue(c, Idle)
    /\ UNCHANGED <<tables, cache, settled, creations>>

\* Mutant of Older: entries do not expire.
OlderForever(entry) == IF entry.age + 1 < TTL THEN [entry EXCEPT !.age = @ + 1] ELSE entry

\* Mutant of Older: an entry that has expired grows older still.
OlderUncapped(entry) == [entry EXCEPT !.age = @ + 1]

Older(entry) == IF entry.age + 1 < TTL THEN [entry EXCEPT !.age = @ + 1] ELSE Expired

Tick ==
    /\ cache' = [k \in Keys |-> Older(cache[k])]
    /\ settled' = [k \in Keys |->
           IF InFlight(k) THEN 0 ELSE IF settled[k] < TTL THEN settled[k] + 1 ELSE TTL]
    /\ UNCHANGED <<tables, request, overtaken, bounds>>

CheckStep(c) ==
    \/ \E k \in Keys : StartCheck(c, k)
    \/ ReadFile(c) \/ ReadPermission(c) \/ Answer(c) \/ DeleteFile(c)

ChangeStep(c) ==
    \/ \E by, target \in Users, f \in Files, row \in Rows : StartChange(c, by, f, target, row)
    \/ VerifyOwner(c) \/ StoreChange(c) \/ Invalidate(c)

Next ==
    \/ \E c \in Clients : CheckStep(c) \/ ChangeStep(c) \/ CallFails(c)
    \/ \E f \in Files, u \in Users : CreateFile(f, u)
    \/ Tick

Spec == Init /\ [][Next]_vars

-----------------------------------------------------------------------------
(* Properties *)

\* An answer of the cache that the tables no longer give, after a grant, a
\* revocation, a deletion or a creation, is used for less than the TTL from
\* the change, or from the last check in flight, on.
WrongAnswersExpire ==
    \A k \in Keys : settled[k] = TTL /\ Fresh(k) => cache[k].result = Authorized(k)

\* A grant or revocation that has returned holds from then on: the cache is
\* wrong only before its invalidation, or if the answer was overtaken.
InvalidatedAtOnce ==
    \A k \in Keys :
        \/ k \in overtaken
        \/ Fresh(k) => cache[k].result = Authorized(k)
        \/ \E c \in Clients : /\ request[c].at = "invalidate"
                             /\ request[c].target = k.user /\ request[c].file = k.file

\* A file is deleted only by a user who may delete it, or whose right to do
\* so ended, or was last asked for, less than the TTL ago.
DeletionsAuthorized ==
    [][\A c \in Clients : DeleteFile(c) =>
           Authorized(request[c].key) \/ settled[request[c].key] < TTL]_vars

=============================================================================
