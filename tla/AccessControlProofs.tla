------------------------ MODULE AccessControlProofs -------------------------
(***************************************************************************)
(* Proofs about AccessControl, for any users, files, operations, clients,  *)
(* lifetime of the cache and number of failures.                           *)
(***************************************************************************)
EXTENDS AccessControl, TLAPS

\* Somebody is about to take the entries of k's user and file out.
InvalidationPending(k) ==
    \E c \in Clients : /\ request[c].at = "invalidate"
                       /\ request[c].target = k.user /\ request[c].file = k.file

\* A file that does not exist has no rows: they go with it.
RowsOfFiles == \A f \in Files : owner[f] = NoOwner => \A u \in Users : granted[f][u] = "none"

\* A wrong entry is no older than the change, or the check, that made it so.
EntriesSound ==
    \A k \in Keys : Fresh(k) /\ cache[k].result # Authorized(k) =>
        settled[k] <= cache[k].age /\ (k \in overtaken \/ InvalidationPending(k))

\* Answers on their way are wrong, or about to be, only by a change that
\* came after the tables were read.
AnswerSound(r) ==
    r.at = "answer" /\ ~ (r.answer <=> Authorized(r.key)) => settled[r.key] = 0 /\ r.key \in overtaken
PermissionSound(r) ==
    r.at = "permission" /\ owner[r.key.file] = r.key.user =>
        settled[r.key] = 0 /\ r.key \in overtaken
DeleteSound(r) ==
    r.at = "delete" /\ ~ Authorized(r.key) => settled[r.key] < TTL

ChecksSound ==
    \A c \in Clients :
        AnswerSound(request[c]) /\ PermissionSound(request[c]) /\ DeleteSound(request[c])

IInv == TypeOK /\ RowsOfFiles /\ EntriesSound /\ ChecksSound

-----------------------------------------------------------------------------
(* Facts about keys, requests and the tables *)

Requests == {Idle} \cup CheckCall \cup ChangeCall

LEMMA KeyFields ==
    ASSUME NEW k \in Keys
    PROVE  k.user \in Users /\ k.file \in Files
  BY DEF Keys

LEMMA RequestKey ==
    ASSUME NEW r \in Requests
    PROVE  /\ r.at \in {"file", "permission", "delete", "answer"} => r.key \in Keys /\ r \in CheckCall
           /\ r.at \in {"verify", "store", "invalidate"} => r \in ChangeCall
           /\ r.at \in {"idle", "file", "permission", "delete", "answer", "verify", "store",
                       "invalidate"}
  BY DEF Requests, Idle, CheckCall, ChangeCall

LEMMA Same ==
    ASSUME UNCHANGED tables
    PROVE  \A k : Authorized(k)' = Authorized(k)
  BY DEF tables, Authorized

-----------------------------------------------------------------------------
(* Steps that change one request only *)

LEMMA RequestStep ==
    ASSUME IInv, NEW c \in Clients, NEW r \in Requests, Continue(c, r),
           UNCHANGED <<tables, cache, history, bounds>>,
           request[c].at # "invalidate",
           AnswerSound(r), PermissionSound(r), DeleteSound(r)
    PROVE  IInv'
  <1>1. /\ request' \in [Clients -> Requests]
        /\ request'[c] = r
        /\ \A d \in Clients : d # c => request'[d] = request[d]
    BY DEF IInv, TypeOK, Continue, Requests
  <1>2. UNCHANGED <<owner, granted, cache, settled, overtaken, creations, failures>>
    BY DEF tables, history, bounds
  <1>3. \A k : Authorized(k)' = Authorized(k)
    BY Same
  <1>4. TypeOK'
    BY <1>1, <1>2 DEF IInv, TypeOK, Requests
  <1>5. RowsOfFiles'
    BY <1>2 DEF IInv, RowsOfFiles
  <1>6. \A k \in Keys : InvalidationPending(k) => InvalidationPending(k)'
    BY <1>1 DEF InvalidationPending
  <1>7. EntriesSound'
    BY <1>2, <1>3, <1>6 DEF IInv, EntriesSound, Fresh
  <1>8. ASSUME NEW d \in Clients
        PROVE  (AnswerSound(request[d]) /\ PermissionSound(request[d]) /\ DeleteSound(request[d]))'
    <2>1. CASE d = c
      BY <1>1, <1>2, <1>3, <2>1 DEF AnswerSound, PermissionSound, DeleteSound
    <2>2. CASE d # c
      BY <1>1, <1>2, <1>3, <2>2 DEF IInv, ChecksSound, AnswerSound, PermissionSound, DeleteSound
    <2>3. QED
      BY <2>1, <2>2
  <1>9. ChecksSound'
    BY <1>8 DEF ChecksSound
  <1>10. QED
    BY <1>4, <1>5, <1>7, <1>9 DEF IInv

\* A fresh entry that allows what the tables do not is younger than the TTL.
LEMMA StartCheckInv ==
    ASSUME IInv, NEW c \in Clients, NEW k \in Keys, StartCheck(c, k)
    PROVE  IInv'
  <1> DEFINE r == IF Fresh(k) THEN After(k, cache[k].result) ELSE [at |-> "file", key |-> k]
  <1>1. /\ request[c] = Idle /\ Continue(c, r)
        /\ UNCHANGED <<tables, cache, history, bounds>>
    BY DEF StartCheck
  <1>2. r \in {Idle, [at |-> "file", key |-> k], [at |-> "delete", key |-> k]}
    BY DEF After
  <1>3. r \in Requests /\ AnswerSound(r) /\ PermissionSound(r)
    BY <1>2 DEF Requests, CheckCall, Idle, AnswerSound, PermissionSound
  <1>4. DeleteSound(r)
    <2> SUFFICES ASSUME r.at = "delete", ~ Authorized(k) PROVE settled[k] < TTL
      BY <1>2 DEF DeleteSound, Idle
    <2>1. Fresh(k) /\ cache[k].result = TRUE
      <3>1. Fresh(k)
        BY DEF After, Idle
      <3>2. cache[k].result
        BY <3>1 DEF After, Idle
      <3>3. cache[k].result \in BOOLEAN
        BY DEF IInv, TypeOK
      <3>4. QED
        BY <3>1, <3>2, <3>3
    <2>2. settled[k] <= cache[k].age
      BY <2>1 DEF IInv, EntriesSound
    <2>3. cache[k].age < TTL /\ cache[k].age \in Nat /\ settled[k] \in Nat
      BY <2>1, TTLAssumption DEF IInv, TypeOK, Fresh
    <2>4. QED
      BY <2>2, <2>3, TTLAssumption
  <1>5. QED
    BY <1>1, <1>3, <1>4, RequestStep DEF Idle

LEMMA ReadFileInv ==
    ASSUME IInv, NEW c \in Clients, ReadFile(c)
    PROVE  IInv'
  <1> DEFINE k == request[c].key
             row == owner[k.file]
             answer == [at |-> "answer", key |-> k, answer |-> row = k.user]
             permission == [at |-> "permission", key |-> k]
  <1>1. /\ request[c].at = "file" /\ k \in Keys
    BY RequestKey DEF ReadFile, IInv, TypeOK, Requests
  <1>2. k.user \in Users /\ k.user # NoOwner
    BY <1>1, KeyFields, NoOwnerAssumption
  <1>3. CASE row \in {NoOwner, k.user}
    <2>1. Continue(c, answer) /\ UNCHANGED <<tables, cache, history, bounds>>
      BY <1>3 DEF ReadFile
    <2>2. answer \in Requests /\ PermissionSound(answer) /\ DeleteSound(answer)
      BY <1>1 DEF Requests, CheckCall, PermissionSound, DeleteSound
    <2>3. Authorized(k) <=> row = k.user
      BY <1>2, <1>3 DEF Authorized
    <2>4. AnswerSound(answer)
      BY <2>3 DEF AnswerSound
    <2>5. QED
      BY <1>1, <2>1, <2>2, <2>4, RequestStep
  <1>4. CASE row \notin {NoOwner, k.user}
    <2>1. Continue(c, permission) /\ UNCHANGED <<tables, cache, history, bounds>>
      BY <1>4 DEF ReadFile
    <2>2. permission \in Requests
      BY <1>1 DEF Requests, CheckCall
    <2>3. AnswerSound(permission) /\ DeleteSound(permission) /\ PermissionSound(permission)
      BY <1>4 DEF AnswerSound, PermissionSound, DeleteSound
    <2>4. QED
      BY <1>1, <2>1, <2>2, <2>3, RequestStep
  <1>5. QED
    BY <1>3, <1>4

\* The row that is read decides, unless the user has become the owner since
\* the file was read.
LEMMA ReadPermissionInv ==
    ASSUME IInv, NEW c \in Clients, ReadPermission(c)
    PROVE  IInv'
  <1> DEFINE k == request[c].key
             given == granted[k.file][k.user] = PermissionFor(k.op)
             answer == [at |-> "answer", key |-> k, answer |-> given]
  <1>1. /\ request[c].at = "permission" /\ k \in Keys
        /\ Continue(c, answer) /\ UNCHANGED <<tables, cache, history, bounds>>
    BY RequestKey DEF ReadPermission, IInv, TypeOK, Requests
  <1>2. answer \in Requests /\ PermissionSound(answer) /\ DeleteSound(answer)
    BY <1>1 DEF Requests, CheckCall, PermissionSound, DeleteSound
  <1>3. PermissionSound(request[c])
    BY DEF IInv, ChecksSound
  <1>4. CASE owner[k.file] = k.user
    BY <1>1, <1>2, <1>3, <1>4, RequestStep DEF PermissionSound, AnswerSound
  <1>5. CASE owner[k.file] # k.user
    <2>1. owner[k.file] = NoOwner => ~ given
      <3>1. owner[k.file] = NoOwner => granted[k.file][k.user] = "none"
        BY <1>1, KeyFields DEF IInv, RowsOfFiles
      <3>2. PermissionFor(k.op) # "none"
        BY <1>1, OperationAssumption DEF PermissionFor, Keys
      <3>3. QED
        BY <3>1, <3>2
    <2>2. Authorized(k) <=> given
      BY <1>5, <2>1 DEF Authorized
    <2>3. AnswerSound(answer)
      BY <2>2 DEF AnswerSound
    <2>4. QED
      BY <1>1, <1>2, <2>3, RequestStep
  <1>6. QED
    BY <1>4, <1>5

LEMMA StartChangeInv ==
    ASSUME IInv, NEW c \in Clients, NEW by \in Users, NEW target \in Users, NEW f \in Files,
           NEW row \in Rows, StartChange(c, by, f, target, row)
    PROVE  IInv'
  <1> DEFINE r == [at |-> "verify", by |-> by, file |-> f, target |-> target, row |-> row]
  <1>1. r \in Requests /\ AnswerSound(r) /\ PermissionSound(r) /\ DeleteSound(r)
    BY DEF Requests, ChangeCall, AnswerSound, PermissionSound, DeleteSound
  <1>2. QED
    BY <1>1, RequestStep DEF StartChange, Idle

LEMMA VerifyOwnerInv ==
    ASSUME IInv, NEW c \in Clients, VerifyOwner(c)
    PROVE  IInv'
  <1> DEFINE r == request[c]
             store == [r EXCEPT !.at = "store"]
  <1>1. r \in ChangeCall /\ r.at = "verify"
    BY RequestKey DEF VerifyOwner, IInv, TypeOK, Requests
  <1>2. store \in ChangeCall /\ store.at = "store"
    BY <1>1 DEF ChangeCall
  <1> HIDE DEF store
  <1>3. \A new \in {Idle, store} : /\ new \in Requests
                                   /\ AnswerSound(new) /\ PermissionSound(new) /\ DeleteSound(new)
    BY <1>2 DEF Requests, Idle, AnswerSound, PermissionSound, DeleteSound
  <1>4. \E new \in {Idle, store} : Continue(c, new)
    BY DEF VerifyOwner, store
  <1>5. QED
    BY <1>1, <1>3, <1>4, RequestStep DEF VerifyOwner

-----------------------------------------------------------------------------
(* The cache and the clock *)

LEMMA AnswerInv ==
    ASSUME IInv, NEW c \in Clients, Answer(c)
    PROVE  IInv'
  <1> DEFINE k == request[c].key
             allowed == request[c].answer
             new == After(k, allowed)
  <1>1. /\ request[c].at = "answer" /\ k \in Keys /\ allowed \in BOOLEAN
        /\ request \in [Clients -> Requests]
    BY RequestKey DEF Answer, IInv, TypeOK, Requests, CheckCall, ChangeCall, Idle
  <1>2. /\ cache' = [cache EXCEPT ![k] = [result |-> allowed, age |-> 0]]
        /\ Continue(c, new)
        /\ UNCHANGED <<owner, granted, settled, overtaken, creations, failures>>
    BY DEF Answer, tables, history, bounds
  <1>3. new \in {Idle, [at |-> "delete", key |-> k]} /\ new \in Requests
    BY <1>1 DEF After, Requests, CheckCall
  <1>4. /\ request' \in [Clients -> Requests]
        /\ request'[c] = new
        /\ \A d \in Clients : d # c => request'[d] = request[d]
    BY <1>1, <1>2, <1>3 DEF Continue
  <1>5. \A q : Authorized(q)' = Authorized(q)
    BY <1>2, Same DEF tables
  <1>6. ~ (allowed <=> Authorized(k)) => settled[k] = 0 /\ k \in overtaken
    BY <1>1 DEF IInv, ChecksSound, AnswerSound
  <1>7. TypeOK'
    BY <1>1, <1>2, <1>4, TTLAssumption DEF IInv, TypeOK, Requests
  <1>8. RowsOfFiles'
    BY <1>2 DEF IInv, RowsOfFiles
  <1>9. \A q \in Keys : InvalidationPending(q) => InvalidationPending(q)'
    BY <1>1, <1>4 DEF InvalidationPending
  <1>10. EntriesSound'
    <2> SUFFICES ASSUME NEW q \in Keys, (Fresh(q) /\ cache[q].result # Authorized(q))'
                 PROVE  (settled[q] <= cache[q].age /\ (q \in overtaken \/ InvalidationPending(q)))'
      BY DEF EntriesSound
    <2>1. CASE q = k
      <3>1. cache'[q].result = allowed /\ cache'[q].age = 0
        BY <1>1, <1>2, <2>1 DEF IInv, TypeOK
      <3>2. allowed # Authorized(k)
        BY <1>5, <2>1, <3>1
      <3>3. settled[k] = 0 /\ k \in overtaken
        <4>1. Authorized(k) \in BOOLEAN
          BY DEF Authorized
        <4>2. ~ (allowed <=> Authorized(k))
          BY <1>1, <3>2, <4>1
        <4>3. QED
          BY <1>6, <4>2
      <3>4. QED
        BY <1>2, <2>1, <3>1, <3>3
    <2>2. CASE q # k
      <3>1. cache'[q] = cache[q]
        BY <1>2, <2>2 DEF IInv, TypeOK
      <3>2. QED
        BY <1>2, <1>5, <1>9, <3>1 DEF IInv, EntriesSound, Fresh
    <2>3. QED
      BY <2>1, <2>2
  <1>11. ASSUME NEW d \in Clients
         PROVE  (AnswerSound(request[d]) /\ PermissionSound(request[d]) /\ DeleteSound(request[d]))'
    <2>1. CASE d = c
      <3>1. (AnswerSound(request[d]) /\ PermissionSound(request[d]))'
        BY <1>3, <1>4, <2>1 DEF AnswerSound, PermissionSound, Idle
      <3>2. DeleteSound(request[d])'
        <4> SUFFICES ASSUME new.at = "delete", ~ Authorized(k) PROVE settled[k] < TTL
          BY <1>2, <1>3, <1>4, <1>5, <2>1 DEF DeleteSound, Idle
        <4>1. allowed = TRUE
          BY <1>1 DEF After, Idle
        <4>2. settled[k] = 0
          BY <1>6, <4>1
        <4>3. QED
          BY <4>2, TTLAssumption
      <3>3. QED
        BY <3>1, <3>2
    <2>2. CASE d # c
      BY <1>2, <1>4, <1>5, <2>2
         DEF IInv, ChecksSound, AnswerSound, PermissionSound, DeleteSound
    <2>3. QED
      BY <2>1, <2>2
  <1>12. ChecksSound'
    BY <1>11 DEF ChecksSound
  <1>13. QED
    BY <1>7, <1>8, <1>10, <1>12 DEF IInv

\* The entries that nobody is about to take out any more are gone.
LEMMA InvalidateInv ==
    ASSUME IInv, NEW c \in Clients, Invalidate(c)
    PROVE  IInv'
  <1> DEFINE r == request[c]
             gone == KeysOf(r.target, r.file)
  <1>1. /\ r.at = "invalidate" /\ request \in [Clients -> Requests]
        /\ cache' = [k \in Keys |-> IF k \in gone THEN Expired ELSE cache[k]]
        /\ Continue(c, Idle)
        /\ UNCHANGED <<owner, granted, settled, overtaken, creations, failures>>
    BY DEF Invalidate, Invalidated, IInv, TypeOK, Requests, tables, history, bounds
  <1>2. /\ request' \in [Clients -> Requests]
        /\ request'[c] = Idle
        /\ \A d \in Clients : d # c => request'[d] = request[d]
    BY <1>1 DEF Continue, Requests
  <1>3. \A q : Authorized(q)' = Authorized(q)
    BY <1>1, Same DEF tables
  <1>4. Expired \in [result : BOOLEAN, age : 0..TTL] /\ Expired.age = TTL
    BY TTLAssumption DEF Expired
  <1>5. TypeOK'
    BY <1>1, <1>2, <1>4 DEF IInv, TypeOK, Requests
  <1>6. RowsOfFiles'
    BY <1>1 DEF IInv, RowsOfFiles
  <1>7. EntriesSound'
    <2> SUFFICES ASSUME NEW q \in Keys, (Fresh(q) /\ cache[q].result # Authorized(q))'
                 PROVE  (settled[q] <= cache[q].age /\ (q \in overtaken \/ InvalidationPending(q)))'
      BY DEF EntriesSound
    <2>1. q \notin gone
      BY <1>1, <1>4, TTLAssumption DEF Fresh
    <2>2. cache'[q] = cache[q]
      BY <1>1, <2>1
    <2>3. settled[q] <= cache[q].age /\ (q \in overtaken \/ InvalidationPending(q))
      BY <1>3, <2>2 DEF IInv, EntriesSound, Fresh
    <2>4. InvalidationPending(q) => InvalidationPending(q)'
      BY <1>2, <2>1 DEF InvalidationPending, KeysOf
    <2>5. QED
      BY <1>1, <2>2, <2>3, <2>4
  <1>8. ChecksSound'
    BY <1>1, <1>2, <1>3
       DEF IInv, ChecksSound, AnswerSound, PermissionSound, DeleteSound, Idle
  <1>9. QED
    BY <1>5, <1>6, <1>7, <1>8 DEF IInv

\* An invalidation that fails leaves its entries overtaken.
LEMMA CallFailsInv ==
    ASSUME IInv, NEW c \in Clients, CallFails(c)
    PROVE  IInv'
  <1> DEFINE r == request[c]
  <1>1. /\ request \in [Clients -> Requests] /\ Continue(c, Idle)
        /\ UNCHANGED <<owner, granted, cache, settled, creations>>
        /\ failures' \in 0..MaxFailures
        /\ overtaken \subseteq overtaken' /\ overtaken' \subseteq Keys
        /\ r.at = "invalidate" => KeysOf(r.target, r.file) \subseteq overtaken'
    BY AccessBounds DEF CallFails, IInv, TypeOK, Requests, tables, KeysOf
  <1>2. /\ request' \in [Clients -> Requests]
        /\ request'[c] = Idle
        /\ \A d \in Clients : d # c => request'[d] = request[d]
    BY <1>1 DEF Continue, Requests
  <1>3. \A q : Authorized(q)' = Authorized(q)
    BY <1>1, Same DEF tables
  <1>4. TypeOK'
    BY <1>1, <1>2 DEF IInv, TypeOK, Requests
  <1>5. RowsOfFiles'
    BY <1>1 DEF IInv, RowsOfFiles
  <1>6. EntriesSound'
    <2> SUFFICES ASSUME NEW q \in Keys, (Fresh(q) /\ cache[q].result # Authorized(q))'
                 PROVE  (settled[q] <= cache[q].age /\ (q \in overtaken \/ InvalidationPending(q)))'
      BY DEF EntriesSound
    <2>1. settled[q] <= cache[q].age /\ (q \in overtaken \/ InvalidationPending(q))
      BY <1>1, <1>3 DEF IInv, EntriesSound, Fresh
    <2>2. InvalidationPending(q) => InvalidationPending(q)' \/ q \in overtaken'
      BY <1>1, <1>2 DEF InvalidationPending, KeysOf
    <2>3. QED
      BY <1>1, <2>1, <2>2
  <1>7. ChecksSound'
    BY <1>1, <1>2, <1>3
       DEF IInv, ChecksSound, AnswerSound, PermissionSound, DeleteSound, Idle
  <1>8. QED
    BY <1>4, <1>5, <1>6, <1>7 DEF IInv

\* Entries age as fast as the history, and a check in flight holds it back.
LEMMA TickInv ==
    ASSUME IInv, Tick
    PROVE  IInv'
  <1>1. /\ UNCHANGED <<owner, granted, request, overtaken, creations, failures>>
        /\ \A k \in Keys : cache'[k] = Older(cache[k])
        /\ cache' = [k \in Keys |-> Older(cache[k])]
        /\ settled' = [k \in Keys |->
               IF InFlight(k) THEN 0 ELSE IF settled[k] < TTL THEN settled[k] + 1 ELSE TTL]
    BY DEF Tick, tables, bounds
  <1>2. \A q : Authorized(q)' = Authorized(q)
    BY <1>1, Same DEF tables
  <1>3. ASSUME NEW k \in Keys
        PROVE  /\ Older(cache[k]) \in [result : BOOLEAN, age : 0..TTL]
               /\ Older(cache[k]).age < TTL =>
                      /\ cache[k].age < TTL
                      /\ Older(cache[k]).age = cache[k].age + 1
                      /\ Older(cache[k]).result = cache[k].result
    <2>1. cache[k] \in [result : BOOLEAN, age : 0..TTL]
      BY DEF IInv, TypeOK
    <2>2. CASE cache[k].age + 1 < TTL
      <3> DEFINE older == cache[k].age + 1
      <3>1. older \in 0..TTL
        BY <2>1, <2>2, TTLAssumption
      <3> HIDE DEF older
      <3>2. Older(cache[k]) = [cache[k] EXCEPT !.age = older]
        BY <2>2 DEF Older, older
      <3>3. Older(cache[k]) = [result |-> cache[k].result, age |-> older]
        BY <2>1, <3>2
      <3>4. QED
        BY <2>1, <2>2, <3>1, <3>3, TTLAssumption DEF older
    <2>3. CASE ~ (cache[k].age + 1 < TTL)
      <3>1. Older(cache[k]) = [result |-> FALSE, age |-> TTL]
        BY <2>3, Zenon DEF Older, Expired
      <3>2. TTL \in 0..TTL /\ ~ (TTL < TTL)
        BY TTLAssumption
      <3> DEFINE older == Older(cache[k])
      <3>3. older = [result |-> FALSE, age |-> TTL]
        BY <3>1
      <3> HIDE DEF older
      <3>4. older \in [result : BOOLEAN, age : 0..TTL] /\ ~ (older.age < TTL)
        BY <3>2, <3>3
      <3>5. QED
        BY <3>4 DEF older
    <2>4. QED
      BY <2>2, <2>3
  <1>4. \A k \in Keys : settled'[k] \in 0..TTL /\ settled[k] \in 0..TTL
    BY <1>1, TTLAssumption DEF IInv, TypeOK
  <1>5. TypeOK'
    BY <1>1, <1>3, <1>4, TTLAssumption DEF IInv, TypeOK
  <1>6. RowsOfFiles'
    BY <1>1 DEF IInv, RowsOfFiles
  <1>7. EntriesSound'
    <2> SUFFICES ASSUME NEW q \in Keys, (Fresh(q) /\ cache[q].result # Authorized(q))'
                 PROVE  (settled[q] <= cache[q].age /\ (q \in overtaken \/ InvalidationPending(q)))'
      BY DEF EntriesSound
    <2>1. /\ cache[q].age < TTL /\ cache'[q].age = cache[q].age + 1
          /\ cache'[q].result = cache[q].result
      BY <1>1, <1>3 DEF Fresh
    <2>2. settled[q] <= cache[q].age /\ (q \in overtaken \/ InvalidationPending(q))
      BY <1>2, <2>1 DEF IInv, EntriesSound, Fresh
    <2>3. settled'[q] <= settled[q] + 1
      BY <1>1, <1>4, TTLAssumption
    <2>4. settled'[q] <= cache'[q].age
      <3>1. cache[q].age \in Nat
        BY DEF IInv, TypeOK
      <3>2. QED
        BY <1>4, <2>1, <2>2, <2>3, <3>1
    <2>5. QED
      BY <1>1, <2>2, <2>4 DEF InvalidationPending
  <1>8. ASSUME NEW d \in Clients
        PROVE  (AnswerSound(request[d]) /\ PermissionSound(request[d]) /\ DeleteSound(request[d]))'
    <2>1. CASE request[d].at \in {"permission", "answer", "delete"}
      <3>1. request[d].key \in Keys
        BY <2>1, RequestKey DEF IInv, TypeOK, Requests
      <3>2. settled'[request[d].key] = 0
        BY <1>1, <2>1, <3>1 DEF InFlight
      <3>3. QED
        BY <1>1, <1>2, <3>2, TTLAssumption
           DEF IInv, ChecksSound, AnswerSound, PermissionSound, DeleteSound
    <2>2. CASE request[d].at \notin {"permission", "answer", "delete"}
      BY <1>1, <2>2 DEF AnswerSound, PermissionSound, DeleteSound
    <2>3. QED
      BY <2>1, <2>2
  <1>9. QED
    BY <1>5, <1>6, <1>7, <1>8 DEF IInv, ChecksSound

-----------------------------------------------------------------------------
(* Changes to the tables *)

\* A change that is not invalidated, or meets a check in flight, is noted;
\* the cache is wrong for the others until its invalidation.
LEMMA TableChange ==
    ASSUME IInv, NEW invalidates \in BOOLEAN, Settle(invalidates), UNCHANGED cache,
           \A f \in Files : owner'[f] \in Users /\ owner'[f] # owner[f] => owner[f] = NoOwner,
           \A d \in Clients : \/ request'[d] = request[d]
                             \/ /\ request[d].at # "invalidate"
                                /\ request'[d].at \in {"idle", "invalidate"},
           invalidates => \A k \in Keys : Authorized(k)' # Authorized(k) => InvalidationPending(k)'
    PROVE  /\ settled' \in [Keys -> 0..TTL] /\ overtaken' \subseteq Keys
           /\ EntriesSound' /\ ChecksSound'
  <1>1. /\ \A k \in Keys : Authorized(k)' # Authorized(k) =>
               /\ settled'[k] = 0
               /\ k \in overtaken' \/ (invalidates /\ ~ InFlight(k))
        /\ \A k \in Keys : Authorized(k)' = Authorized(k) => settled'[k] = settled[k]
        /\ overtaken \subseteq overtaken' /\ overtaken' \subseteq Keys
    BY DEF Settle, IInv, TypeOK
  <1>2. settled' \in [Keys -> 0..TTL]
    BY TTLAssumption DEF Settle, IInv, TypeOK
  <1>3. \A k \in Keys : InvalidationPending(k) => InvalidationPending(k)'
    BY DEF InvalidationPending
  <1>4. EntriesSound'
    <2> SUFFICES ASSUME NEW q \in Keys, (Fresh(q) /\ cache[q].result # Authorized(q))'
                 PROVE  (settled[q] <= cache[q].age /\ (q \in overtaken \/ InvalidationPending(q)))'
      BY DEF EntriesSound
    <2>1. CASE Authorized(q)' = Authorized(q)
      <3>1. settled[q] <= cache[q].age /\ (q \in overtaken \/ InvalidationPending(q))
        BY <2>1 DEF IInv, EntriesSound, Fresh
      <3>2. QED
        BY <1>1, <1>3, <2>1, <3>1
    <2>2. CASE Authorized(q)' # Authorized(q)
      <3>1. settled'[q] = 0 /\ (q \in overtaken' \/ InvalidationPending(q)')
        BY <1>1, <2>2
      <3>2. cache'[q].age \in Nat
        BY DEF IInv, TypeOK
      <3>3. QED
        BY <3>1, <3>2
    <2>3. QED
      BY <2>1, <2>2
  <1>5. ASSUME NEW d \in Clients
        PROVE  (AnswerSound(request[d]) /\ PermissionSound(request[d]) /\ DeleteSound(request[d]))'
    <2>1. CASE request'[d].at \in {"permission", "answer", "delete"}
      <3>1. request'[d] = request[d]
        BY <2>1
      <3>2. PICK k \in Keys : k = request[d].key /\ InFlight(k)
        BY <2>1, <3>1, RequestKey DEF IInv, TypeOK, Requests, InFlight
      <3>3. /\ AnswerSound(request[d]) /\ PermissionSound(request[d]) /\ DeleteSound(request[d])
        BY DEF IInv, ChecksSound
      <3>4. CASE Authorized(k)' # Authorized(k)
        <4>1. settled'[k] = 0 /\ k \in overtaken'
          BY <1>1, <3>2, <3>4
        <4>2. QED
          BY <3>1, <3>2, <4>1, TTLAssumption DEF AnswerSound, PermissionSound, DeleteSound
      <3>5. CASE Authorized(k)' = Authorized(k)
        <4>1. settled'[k] = settled[k] /\ (k \in overtaken => k \in overtaken')
          BY <1>1, <3>2, <3>5
        <4>2. owner'[k.file] = k.user => owner[k.file] = k.user
          <5> SUFFICES ASSUME owner'[k.file] = k.user, owner[k.file] # k.user PROVE FALSE
            OBVIOUS
          <5>1. k.file \in Files /\ k.user \in Users
            BY <3>2, KeyFields
          <5>2. owner[k.file] = NoOwner
            BY <5>1
          <5>3. ~ Authorized(k) /\ Authorized(k)'
            BY <5>1, <5>2, NoOwnerAssumption DEF Authorized
          <5>4. QED
            BY <3>5, <5>3
        <4>3. QED
          BY <3>1, <3>2, <3>3, <3>5, <4>1, <4>2 DEF AnswerSound, PermissionSound, DeleteSound
      <3>6. QED
        BY <3>4, <3>5
    <2>2. CASE request'[d].at \notin {"permission", "answer", "delete"}
      BY <2>2 DEF AnswerSound, PermissionSound, DeleteSound
    <2>3. QED
      BY <2>1, <2>2
  <1>6. ChecksSound'
    BY <1>5 DEF ChecksSound
  <1>7. QED
    BY <1>1, <1>2, <1>4, <1>6

LEMMA StoreChangeInv ==
    ASSUME IInv, NEW c \in Clients, StoreChange(c)
    PROVE  IInv'
  <1> DEFINE r == request[c]
             accepted == r.row = "none" \/ owner[r.file] # NoOwner
             next == [r EXCEPT !.at = "invalidate"]
             new == IF accepted THEN next ELSE Idle
  <1>1. /\ r.at = "store" /\ r \in ChangeCall /\ request \in [Clients -> Requests]
        /\ Settle(TRUE) /\ Continue(c, new)
        /\ UNCHANGED <<owner, cache, creations, failures>>
        /\ granted' = IF accepted THEN [granted EXCEPT ![r.file][r.target] = r.row] ELSE granted
    BY RequestKey DEF StoreChange, IInv, TypeOK, Requests, bounds
  <1>2. r.file \in Files /\ r.target \in Users /\ r.row \in Rows
    BY <1>1 DEF ChangeCall
  <1>3. /\ next \in ChangeCall /\ next.at = "invalidate"
        /\ next.file = r.file /\ next.target = r.target
    BY <1>1 DEF ChangeCall
  <1> HIDE DEF next
  <1>4. new \in Requests /\ new.at \in {"idle", "invalidate"}
    BY <1>3 DEF Requests, Idle
  <1> HIDE DEF new
  <1>5. /\ request' \in [Clients -> Requests]
        /\ request'[c] = new
        /\ \A d \in Clients : d # c => request'[d] = request[d]
    BY <1>1, <1>4 DEF Continue
  <1>6. /\ granted' \in [Files -> [Users -> Rows]]
        /\ \A f \in Files, u \in Users :
               granted'[f][u] # granted[f][u] => accepted /\ f = r.file /\ u = r.target
    BY <1>1, <1>2 DEF IInv, TypeOK
  <1>7. ASSUME NEW k \in Keys, Authorized(k)' # Authorized(k)
        PROVE  InvalidationPending(k)'
    <2>1. accepted /\ k.file = r.file /\ k.user = r.target
      BY <1>1, <1>6, <1>7, KeyFields DEF Authorized
    <2>2. request'[c] = next
      BY <1>5, <2>1 DEF new
    <2>3. QED
      BY <1>3, <2>1, <2>2 DEF InvalidationPending
  <1>8. /\ settled' \in [Keys -> 0..TTL] /\ overtaken' \subseteq Keys
        /\ EntriesSound' /\ ChecksSound'
    <2>1. \A f \in Files : owner'[f] \in Users /\ owner'[f] # owner[f] => owner[f] = NoOwner
      BY <1>1
    <2>2. \A d \in Clients : \/ request'[d] = request[d]
                             \/ /\ request[d].at # "invalidate"
                                /\ request'[d].at \in {"idle", "invalidate"}
      BY <1>1, <1>4, <1>5
    <2>3. \A k \in Keys : Authorized(k)' # Authorized(k) => InvalidationPending(k)'
      BY <1>7
    <2>4. QED
      BY <1>1, <2>1, <2>2, <2>3, TableChange
  <1>9. RowsOfFiles'
    <2> SUFFICES ASSUME NEW f \in Files, owner[f] = NoOwner, NEW u \in Users
                 PROVE  granted'[f][u] = "none"
      BY <1>1 DEF RowsOfFiles
    <2>1. granted[f][u] = "none"
      BY DEF IInv, RowsOfFiles
    <2>2. CASE accepted /\ f = r.file /\ u = r.target
      BY <1>1, <1>2, <2>2 DEF IInv, TypeOK
    <2>3. CASE ~ (accepted /\ f = r.file /\ u = r.target)
      BY <1>6, <2>1, <2>3
    <2>4. QED
      BY <2>2, <2>3
  <1>10. TypeOK'
    BY <1>1, <1>5, <1>6, <1>8 DEF IInv, TypeOK, Requests
  <1>11. QED
    BY <1>8, <1>9, <1>10 DEF IInv

LEMMA DeleteFileInv ==
    ASSUME IInv, NEW c \in Clients, DeleteFile(c)
    PROVE  IInv'
  <1> DEFINE f == request[c].key.file
  <1>1. /\ request[c].at = "delete" /\ request \in [Clients -> Requests]
        /\ Settle(FALSE) /\ Continue(c, Idle)
        /\ UNCHANGED <<cache, creations, failures>>
        /\ owner' = [owner EXCEPT ![f] = NoOwner]
        /\ granted' = [granted EXCEPT ![f] = [u \in Users |-> "none"]]
    BY DEF DeleteFile, IInv, TypeOK, Requests, bounds
  <1>2. f \in Files
    BY <1>1, RequestKey, KeyFields
  <1>3. /\ request' \in [Clients -> Requests]
        /\ request'[c] = Idle /\ request'[c].at = "idle"
        /\ \A d \in Clients : d # c => request'[d] = request[d]
    BY <1>1 DEF Continue, Requests, Idle
  <1>4. /\ owner' \in [Files -> Users \cup {NoOwner}]
        /\ granted' \in [Files -> [Users -> Rows]]
        /\ \A g \in Files : owner'[g] = IF g = f THEN NoOwner ELSE owner[g]
        /\ \A g \in Files : granted'[g] = IF g = f THEN [u \in Users |-> "none"] ELSE granted[g]
    BY <1>1, <1>2 DEF IInv, TypeOK, Rows
  <1>5. /\ settled' \in [Keys -> 0..TTL] /\ overtaken' \subseteq Keys
        /\ EntriesSound' /\ ChecksSound'
    <2>1. \A g \in Files : owner'[g] \in Users /\ owner'[g] # owner[g] => owner[g] = NoOwner
      BY <1>4, NoOwnerAssumption
    <2>2. \A d \in Clients : \/ request'[d] = request[d]
                             \/ /\ request[d].at # "invalidate"
                                /\ request'[d].at \in {"idle", "invalidate"}
      BY <1>1, <1>3
    <2>3. QED
      BY <1>1, <2>1, <2>2, TableChange
  <1>6. RowsOfFiles'
    BY <1>4 DEF IInv, RowsOfFiles
  <1>7. TypeOK'
    BY <1>1, <1>3, <1>4, <1>5 DEF IInv, TypeOK, Requests
  <1>8. QED
    BY <1>5, <1>6, <1>7 DEF IInv

LEMMA CreateFileInv ==
    ASSUME IInv, NEW f \in Files, NEW u \in Users, CreateFile(f, u)
    PROVE  IInv'
  <1>1. /\ owner[f] = NoOwner /\ owner' = [owner EXCEPT ![f] = u]
        /\ creations < MaxCreations /\ creations' = creations + 1
        /\ Settle(FALSE)
        /\ UNCHANGED <<granted, cache, request, failures>>
    BY Zenon DEF CreateFile
  <1>2. /\ owner' \in [Files -> Users \cup {NoOwner}]
        /\ \A g \in Files : owner'[g] = IF g = f THEN u ELSE owner[g]
    BY <1>1 DEF IInv, TypeOK
  <1>3. /\ settled' \in [Keys -> 0..TTL] /\ overtaken' \subseteq Keys
        /\ EntriesSound' /\ ChecksSound'
    <2>1. \A g \in Files : owner'[g] \in Users /\ owner'[g] # owner[g] => owner[g] = NoOwner
      BY <1>1, <1>2
    <2>2. \A d \in Clients : request'[d] = request[d]
      BY <1>1
    <2>3. QED
      BY <1>1, <2>1, <2>2, TableChange
  <1>4. RowsOfFiles'
    BY <1>1, <1>2, NoOwnerAssumption DEF IInv, RowsOfFiles
  <1>5. creations' \in 0..MaxCreations
    BY <1>1, AccessBounds DEF IInv, TypeOK
  <1>6. TypeOK'
    BY <1>1, <1>2, <1>3, <1>5 DEF IInv, TypeOK
  <1>7. QED
    BY <1>3, <1>4, <1>6 DEF IInv

-----------------------------------------------------------------------------

LEMMA InitInv ==
    ASSUME Init
    PROVE  IInv
  <1>1. TypeOK
    BY AccessBounds, TTLAssumption DEF Init, TypeOK, Rows, Expired
  <1>2. RowsOfFiles
    BY DEF Init, RowsOfFiles
  <1>3. \A k \in Keys : ~ Fresh(k)
    BY TTLAssumption DEF Init, Fresh, Expired
  <1>4. \A c \in Clients : request[c].at = "idle"
    BY DEF Init, Idle
  <1>5. ChecksSound
    BY <1>4 DEF ChecksSound, AnswerSound, PermissionSound, DeleteSound
  <1>6. QED
    BY <1>1, <1>2, <1>3, <1>5 DEF IInv, EntriesSound

LEMMA StepInv ==
    ASSUME IInv, [Next]_vars
    PROVE  IInv'
  <1>1. CASE \E c \in Clients : CheckStep(c)
    BY <1>1, StartCheckInv, ReadFileInv, ReadPermissionInv, AnswerInv, DeleteFileInv
       DEF CheckStep
  <1>2. CASE \E c \in Clients : ChangeStep(c)
    BY <1>2, StartChangeInv, VerifyOwnerInv, StoreChangeInv, InvalidateInv DEF ChangeStep
  <1>3. CASE \E c \in Clients : CallFails(c)
    BY <1>3, CallFailsInv
  <1>4. CASE \E f \in Files, u \in Users : CreateFile(f, u)
    BY <1>4, CreateFileInv
  <1>5. CASE Tick
    BY <1>5, TickInv
  <1>6. CASE UNCHANGED vars
    <2>1. /\ UNCHANGED <<owner, granted, cache, request, settled, overtaken, creations, failures>>
          /\ \A k : Authorized(k)' = Authorized(k)
      BY <1>6, Same DEF vars, tables
    <2>2. TypeOK' /\ RowsOfFiles'
      BY <2>1 DEF IInv, TypeOK, RowsOfFiles
    <2>3. EntriesSound'
      BY <2>1 DEF IInv, EntriesSound, Fresh, InvalidationPending
    <2>4. ChecksSound'
      BY <2>1 DEF IInv, ChecksSound, AnswerSound, PermissionSound, DeleteSound
    <2>5. QED
      BY <2>2, <2>3, <2>4 DEF IInv
  <1>7. QED
    BY <1>1, <1>2, <1>3, <1>4, <1>5, <1>6 DEF Next

LEMMA Invariance == Spec => []IInv
  <1>1. QED
    BY InitInv, StepInv, PTL DEF Spec

\* The state of the access control is well typed in every behaviour.
THEOREM AccessTypeCorrect == Spec => []TypeOK
  <1>1. IInv => TypeOK
    BY DEF IInv
  <1>2. QED
    BY <1>1, Invariance, PTL

\* A cached answer that is wrong is used for less than the TTL after the change
\* or after the last check that was in flight, for any number of racing checks,
\* grants, revocations, deletions, creations and failures.
THEOREM WrongAnswersDoExpire == Spec => []WrongAnswersExpire
  <1>1. IInv => WrongAnswersExpire
    <2> SUFFICES ASSUME IInv, NEW k \in Keys, settled[k] = TTL, Fresh(k),
                        cache[k].result # Authorized(k)
                 PROVE  FALSE
      BY DEF WrongAnswersExpire
    <2>1. settled[k] <= cache[k].age
      BY DEF IInv, EntriesSound
    <2>2. cache[k].age < TTL /\ cache[k].age \in Nat
      BY DEF IInv, TypeOK, Fresh
    <2>3. QED
      BY <2>1, <2>2, TTLAssumption
  <1>2. QED
    BY <1>1, Invariance, PTL

\* After its invalidation a grant or revocation holds, but for answers that
\* were overtaken.
THEOREM ChangesHoldAtOnce == Spec => []InvalidatedAtOnce
  <1>1. IInv => InvalidatedAtOnce
    BY DEF IInv, EntriesSound, InvalidatedAtOnce, InvalidationPending
  <1>2. QED
    BY <1>1, Invariance, PTL

\* Nobody deletes a file whose right to do so ended, or was last asked for, as
\* long ago as the TTL.
THEOREM DeletionsAreAuthorized == Spec => DeletionsAuthorized
  <1>1. IInv /\ [Next]_vars =>
            [\A c \in Clients : DeleteFile(c) =>
                Authorized(request[c].key) \/ settled[request[c].key] < TTL]_vars
    BY DEF IInv, ChecksSound, DeleteSound, DeleteFile
  <1>2. QED
    BY <1>1, Invariance, PTL DEF Spec, DeletionsAuthorized
=============================================================================
