------------------------ MODULE UploadManagerProofs ------------------------
(***************************************************************************)
(* Proofs about UploadManager, for any sessions, files, chunks, callers    *)
(* and cleaners, with and without rejected store calls.                    *)
(*                                                                         *)
(* The inductive invariant says of every call in flight what is still true *)
(* of the rows it read: its session is as it was or has expired and gone   *)
(* (CallSound), and a content it carries, or that a version was made from, *)
(* is complete and still what the session holds, or is what cleanup left   *)
(* (ContentSound).  A second one counts the files that calls have left     *)
(* without a version (AbandonedInv).                                       *)
(***************************************************************************)
EXTENDS UploadManager, FiniteSetTheorems, TLAPS

FinalizeStates == {"count", "load", "file", "version", "complete"}

\* A session has rows only below its total, and none when it is deleted.
RowsSound ==
    \A s \in Sessions :
        /\ Exists(s) => DOMAIN uploaded[s] \subseteq 0..(sessions[s].total - 1)
        /\ ~ Exists(s) => uploaded[s] = EmptyTable

\* A content that finalizeUpload read from session s.
ContentSound(content, s, total) ==
    \/ /\ Exists(s)
       /\ sessions[s].total = total
       /\ content = uploaded[s]
       /\ IsComplete(content, total)
    \/ /\ ~ Exists(s)
       /\ s \in pastExpiry
       /\ IsComplete(content, total) \/ content = EmptyTable

\* The first version of f was made from session s.
Owns(f, s) == f \in DOMAIN firstVersion /\ firstVersion[f].session = s

MarkSound(call) ==
    call.at = "mark" =>
        /\ Exists(call.session) => call.number < sessions[call.session].total
        /\ ~ Exists(call.session) => call.session \in pastExpiry

FinalizeSound(call) ==
    call.at \in FinalizeStates =>
        /\ Exists(call.session) => /\ call.file = sessions[call.session].file
                                   /\ call.total = sessions[call.session].total
        /\ ~ Exists(call.session) => call.session \in pastExpiry
        /\ call.at = "load" /\ Exists(call.session) =>
               IsComplete(uploaded[call.session], call.total)
        /\ call.at \in {"file", "version"} =>
               ContentSound(call.content, call.session, call.total)
        /\ call.at = "complete" /\ call.file \notin DeletableFiles =>
               Owns(call.file, call.session)

CallSound(call) == MarkSound(call) /\ FinalizeSound(call)

\* Cleanup deletes only sessions that have expired.
CleanSound(call) ==
    call # Idle => /\ call.todo \subseteq pastExpiry
                   /\ call.at = "delete" => call.session \in pastExpiry

VersionsSound ==
    \A f \in DOMAIN firstVersion :
        ContentSound(firstVersion[f].content, firstVersion[f].session, firstVersion[f].total)

UploadInv ==
    /\ TypeOK
    /\ RowsSound
    /\ \A c \in Clients : CallSound(client[c])
    /\ \A k \in Cleaners : CleanSound(cleaner[k])
    /\ VersionsSound
    /\ CompletedOwnsFile

-----------------------------------------------------------------------------
(* What the statements of module Tables do to a table with typed rows. *)

\* INSERT keeps a table a table and adds exactly the inserted key.
LEMMA InsertRowIsTable ==
    ASSUME NEW K, NEW R, NEW t, IsTable(t, K, R), NEW k \in K, NEW row \in R
    PROVE  /\ IsTable(InsertRow(t, k, row), K, R)
           /\ DOMAIN InsertRow(t, k, row) = DOMAIN t \cup {k}
  BY FS_AddElement DEF IsTable, InsertRow

\* DELETE keeps a table a table and removes exactly the given keys.
LEMMA DeleteRowsIsTable ==
    ASSUME NEW K, NEW R, NEW t, IsTable(t, K, R), NEW S
    PROVE  /\ IsTable(DeleteRows(t, S), K, R)
           /\ DOMAIN DeleteRows(t, S) = DOMAIN t \ S
           /\ \A k \in DOMAIN t \ S : DeleteRows(t, S)[k] = t[k]
  BY FS_Difference DEF IsTable, DeleteRows

\* The table without rows.
LEMMA EmptyTableIsTable ==
    ASSUME NEW K, NEW R
    PROVE  IsTable(EmptyTable, K, R) /\ DOMAIN EmptyTable = {}
  BY FS_EmptySet DEF IsTable, EmptyTable

-----------------------------------------------------------------------------
(* Types *)

LEMMA CallKinds ==
    /\ Idle.at = "idle"
    /\ \A call \in MarkCall : call.at = "mark"
    /\ \A call : IsFinalizeCall(call) => call.at \in FinalizeStates
    /\ \A call \in CleanCall : call.at \in {"expire", "delete"}
    /\ \A call \in CleanCall : call.at = "delete" => call.session \in Sessions
    /\ \A call \in CleanCall : call.todo \subseteq Sessions
  BY DEF Idle, MarkCall, IsFinalizeCall, CleanCall, FinalizeStates

\* `at` tells which call a client is executing.
LEMMA ClientCallType ==
    ASSUME TypeOK, NEW c \in Clients
    PROVE  /\ client[c].at = "mark" => client[c] \in MarkCall
           /\ client[c].at \in FinalizeStates => IsFinalizeCall(client[c])
           /\ client[c] = Idle \/ client[c].at \in {"mark"} \cup FinalizeStates
  BY CallKinds DEF TypeOK, FinalizeStates

\* A client whose call changes has a call of the right type.
LEMMA ClientUpdateType ==
    ASSUME TypeOK, NEW c \in Clients, NEW call,
           call \in {Idle} \cup MarkCall \/ IsFinalizeCall(call),
           client' = [client EXCEPT ![c] = call]
    PROVE  /\ client' = [d \in Clients |-> client'[d]]
           /\ \A d \in Clients : client'[d] \in {Idle} \cup MarkCall \/ IsFinalizeCall(client'[d])
  BY DEF TypeOK

\* UPDATE ... SET status keeps the sessions and all else in their rows.
LEMMA SetStatusType ==
    ASSUME TypeOK, NEW s \in Sessions, NEW status \in {"active", "completed", "expired"},
           SetStatus(s, status)
    PROVE  /\ IsTable(sessions', Sessions, SessionRow)
           /\ DOMAIN sessions' = DOMAIN sessions
           /\ \A t \in DOMAIN sessions :
                  /\ sessions'[t].file = sessions[t].file
                  /\ sessions'[t].total = sessions[t].total
                  /\ sessions'[t].status = IF t = s THEN status ELSE sessions[t].status
  <1>1. CASE Exists(s)
    <2>1. \A row \in SessionRow : [row EXCEPT !.status = status] \in SessionRow
      BY DEF SessionRow
    <2>2. sessions' = [sessions EXCEPT ![s].status = status]
      BY <1>1 DEF SetStatus
    <2>3. sessions'= [t \in DOMAIN sessions |->
                        IF t = s THEN [sessions[s] EXCEPT !.status = status] ELSE sessions[t]]
      BY <2>2 DEF TypeOK, IsTable
    <2>4. \A t \in DOMAIN sessions : sessions[t] \in SessionRow
      BY DEF TypeOK, IsTable
    <2>5. IsTable(sessions', Sessions, SessionRow)
      BY <2>1, <2>3, <2>4 DEF TypeOK, IsTable
    <2>6. QED
      BY <2>3, <2>4, <2>5, <1>1 DEF Exists, SessionRow
  <1>2. CASE ~ Exists(s)
    <2>1. sessions' = sessions
      BY <1>2 DEF SetStatus
    <2>2. QED
      BY <1>2, <2>1 DEF Exists, TypeOK
  <1>3. QED
    BY <1>1, <1>2

\* A step of a client keeps the types.
LEMMA ClientStepType ==
    ASSUME TypeOK, NEW c \in Clients, ClientStep(c)
    PROVE  TypeOK'
  <1> DEFINE Call == client[c]
  <1>1. ASSUME NEW s \in Sessions, NEW number \in Numbers, NEW hash \in Chunks,
               CheckMark(c, s, number, hash)
        PROVE  TypeOK'
    <2>1. number \in Nat
      BY TotalsAssumption DEF Numbers
    <2>2. [at |-> "mark", session |-> s, number |-> number, hash |-> hash] \in MarkCall
      BY <2>1 DEF MarkCall
    <2>3. QED
      BY <1>1, <2>2, ClientUpdateType DEF CheckMark, tables, TypeOK
  <1>2. ASSUME NEW s \in Sessions, StartFinalize(c, s)
        PROVE  TypeOK'
    <2>1. sessions[s] \in SessionRow
      BY <1>2 DEF StartFinalize, Exists, TypeOK, IsTable
    <2>2. IsFinalizeCall([at |-> "count", session |-> s, file |-> sessions[s].file,
                          total |-> sessions[s].total, content |-> EmptyTable])
      BY <2>1, EmptyTableIsTable DEF IsFinalizeCall, IsContent, SessionRow
    <2>3. QED
      BY <1>2, <2>2, ClientUpdateType DEF StartFinalize, tables, TypeOK
  <1>3. CASE RecordMark(c)
    <2>1. Call \in MarkCall
      BY <1>3, ClientCallType DEF RecordMark
    <2>2. Call.session \in Sessions /\ Call.number \in Nat /\ Call.hash \in Chunks
      BY <2>1 DEF MarkCall
    <2>3. /\ uploaded' = [s \in Sessions |-> uploaded'[s]]
          /\ \A s \in Sessions : IsContent(uploaded'[s])
      <3>1. IsContent(InsertRow(uploaded[Call.session], Call.number, Call.hash))
        BY <2>2, InsertRowIsTable DEF TypeOK, IsContent
      <3>2. QED
        BY <1>3, <2>2, <3>1 DEF RecordMark, TypeOK
    <2>4. QED
      BY <1>3, <2>3, ClientUpdateType DEF RecordMark, TypeOK
  <1>4. ASSUME NEW at \in FinalizeStates, IsFinalizeCall(Call)
        PROVE  IsFinalizeCall([Call EXCEPT !.at = at])
    BY <1>4 DEF IsFinalizeCall, FinalizeStates
  <1>5. ASSUME NEW at \in FinalizeStates, IsFinalizeCall(Call), GoOn(c, at)
        PROVE  client' = [client EXCEPT ![c] = [Call EXCEPT !.at = at]]
    BY <1>5 DEF GoOn, TypeOK
  <1>6. CASE CountChunks(c)
    <2>1. IsFinalizeCall(Call)
      BY <1>6, ClientCallType DEF CountChunks, FinalizeStates
    <2>2. IsFinalizeCall([Call EXCEPT !.at = "load"])
      BY <2>1, <1>4 DEF FinalizeStates
    <2>3. client' = [client EXCEPT ![c] = [Call EXCEPT !.at = "load"]] \/ client' = [client EXCEPT ![c] = Idle]
      BY <1>5, <1>6, <2>1 DEF CountChunks, GiveUp, FinalizeStates
    <2>4. QED
      BY <1>6, <2>2, <2>3, ClientUpdateType DEF CountChunks, tables, TypeOK
  <1>7. CASE LoadChunks(c)
    <2>1. IsFinalizeCall(Call)
      BY <1>7, ClientCallType DEF LoadChunks, FinalizeStates
    <2>2. IsContent(uploaded[Call.session])
      BY <2>1 DEF IsFinalizeCall, TypeOK
    <2>3. IsFinalizeCall([at |-> "file", session |-> Call.session, file |-> Call.file,
                          total |-> Call.total, content |-> uploaded[Call.session]])
      BY <2>1, <2>2 DEF IsFinalizeCall
    <2>4. QED
      BY <1>7, <2>3, ClientUpdateType DEF LoadChunks, tables, TypeOK
  <1>8. CASE CreateFile(c)
    <2>1. IsFinalizeCall(Call)
      BY <1>8, ClientCallType DEF CreateFile, FinalizeStates
    <2>2. IsFinalizeCall([Call EXCEPT !.at = "version"])
      BY <2>1, <1>4 DEF FinalizeStates
    <2>3. client' = [client EXCEPT ![c] = [Call EXCEPT !.at = "version"]] \/ client' = [client EXCEPT ![c] = Idle]
      BY <1>5, <1>8, <2>1 DEF CreateFile, GiveUp, FinalizeStates
    <2>4. files' \subseteq Files /\ files \subseteq files'
      BY <1>8, <2>1 DEF CreateFile, IsFinalizeCall, TypeOK
    <2>5. QED
      BY <1>8, <2>2, <2>3, <2>4, ClientUpdateType DEF CreateFile, TypeOK
  <1>9. CASE CreateFirstVersion(c)
    <2>1. IsFinalizeCall(Call)
      BY <1>9, ClientCallType DEF CreateFirstVersion, FinalizeStates
    <2>2. IsFinalizeCall([Call EXCEPT !.at = "complete"])
      BY <2>1, <1>4 DEF FinalizeStates
    <2>3. client' = [client EXCEPT ![c] = [Call EXCEPT !.at = "complete"]] \/ client' = [client EXCEPT ![c] = Idle]
      BY <1>5, <1>9, <2>1 DEF CreateFirstVersion, GiveUp, FinalizeStates
    <2>4. /\ firstVersion' = [f \in DOMAIN firstVersion' |-> firstVersion'[f]]
          /\ DOMAIN firstVersion' \subseteq files
          /\ \A f \in DOMAIN firstVersion' : IsVersionRow(firstVersion'[f])
      <3>1. IsVersionRow([content |-> Call.content, session |-> Call.session, total |-> Call.total])
        BY <2>1 DEF IsFinalizeCall, IsVersionRow
      <3>2. QED
        BY <1>9, <3>1 DEF CreateFirstVersion, InsertRow, TypeOK
    <2>5. QED
      BY <1>9, <2>2, <2>3, <2>4, ClientUpdateType DEF CreateFirstVersion, TypeOK
  <1>10. CASE CompleteSession(c)
    <2>1. Call.session \in Sessions
      BY <1>10, ClientCallType DEF CompleteSession, FinalizeStates, IsFinalizeCall
    <2>2. IsTable(sessions', Sessions, SessionRow)
      BY <1>10, <2>1, SetStatusType DEF CompleteSession
    <2>3. QED
      BY <1>10, <2>2, ClientUpdateType DEF CompleteSession, GiveUp, TypeOK
  <1>11. CASE CallAborts(c)
    BY <1>11, ClientUpdateType, UploadBoundAssumption DEF CallAborts, GiveUp, Failure, tables, TypeOK
  <1>12. QED
    BY <1>1, <1>2, <1>3, <1>6, <1>7, <1>8, <1>9, <1>10, <1>11
    DEF ClientStep, CallStep, FinalizeStep

\* The call of a cleaner that changes it stays one.
LEMMA NextSessionType ==
    ASSUME TypeOK, NEW k \in Cleaners, NEW todo \in SUBSET Sessions, NextSession(k, todo)
    PROVE  cleaner' \in [Cleaners -> {Idle} \cup CleanCall]
  <1>1. [at |-> "expire", todo |-> todo] \in CleanCall
    BY DEF CleanCall
  <1>2. QED
    BY <1>1 DEF NextSession, TypeOK

\* A step of cleanupExpiredSessions keeps the types.
LEMMA CleanupStepType ==
    ASSUME TypeOK, NEW k \in Cleaners, CleanupStep(k)
    PROVE  TypeOK'
  <1> DEFINE Call == cleaner[k]
  <1>1. Call.at # "idle" => Call \in CleanCall
    BY CallKinds DEF TypeOK
  <1>2. CASE ListExpired(k)
    <2>1. [at |-> "expire", todo |-> ExpiredSessions] \in CleanCall
      BY DEF CleanCall, ExpiredSessions, TypeOK, IsTable
    <2>2. QED
      BY <1>2, <2>1 DEF ListExpired, tables, TypeOK
  <1>3. ASSUME NEW s \in Sessions, ExpireSession(k, s)
        PROVE  TypeOK'
    <2>1. Call \in CleanCall
      BY <1>1, <1>3 DEF ExpireSession
    <2>2. [at |-> "delete", todo |-> Call.todo \ {s}, session |-> s] \in CleanCall
      BY <2>1, CallKinds DEF CleanCall
    <2>3. IsTable(sessions', Sessions, SessionRow)
      BY <1>3, SetStatusType DEF ExpireSession
    <2>4. QED
      BY <1>3, <2>2, <2>3 DEF ExpireSession, TypeOK
  <1>4. CASE DeleteSession(k)
    <2>1. Call \in CleanCall
      BY <1>1, <1>4 DEF DeleteSession
    <2>2. cleaner' \in [Cleaners -> {Idle} \cup CleanCall]
      BY <1>4, <2>1, CallKinds, NextSessionType DEF DeleteSession
    <2>3. IsTable(sessions', Sessions, SessionRow)
      BY <1>4, DeleteRowsIsTable DEF DeleteSession, TypeOK
    <2>4. IsContent(EmptyTable)
      BY EmptyTableIsTable DEF IsContent
    <2>5. QED
      BY <1>4, <2>2, <2>3, <2>4 DEF DeleteSession, TypeOK
  <1>5. CASE SkipSession(k)
    <2>1. Call \in CleanCall
      BY <1>1, <1>5 DEF SkipSession
    <2>2. cleaner' \in [Cleaners -> {Idle} \cup CleanCall]
      BY <1>5, <2>1, CallKinds, NextSessionType DEF SkipSession
    <2>3. QED
      BY <1>5, <2>2, UploadBoundAssumption DEF SkipSession, Failure, tables, TypeOK
  <1>6. CASE CleanupAborts(k)
    BY <1>6, UploadBoundAssumption DEF CleanupAborts, Failure, tables, TypeOK
  <1>7. QED
    BY <1>2, <1>3, <1>4, <1>5, <1>6 DEF CleanupStep, CleanStep

\* The environment keeps the types.
LEMMA UploadEnvironmentType ==
    ASSUME TypeOK, EnvironmentStep
    PROVE  TypeOK'
  <1>1. ASSUME NEW s \in Sessions, NEW f \in Files, NEW total \in Totals, CreateSession(s, f, total)
        PROVE  TypeOK'
    <2>1. [file |-> f, total |-> total, status |-> "active"] \in SessionRow
      BY DEF SessionRow
    <2>2. IsTable(sessions', Sessions, SessionRow)
      BY <1>1, <2>1, InsertRowIsTable DEF CreateSession, TypeOK
    <2>3. QED
      BY <1>1, <2>2 DEF CreateSession, TypeOK
  <1>2. ASSUME NEW s \in Sessions, Expire(s)
        PROVE  TypeOK'
    BY <1>2 DEF Expire, TypeOK
  <1>3. ASSUME NEW f \in Files, DeleteFile(f)
        PROVE  TypeOK'
    BY <1>3 DEF DeleteFile, DeleteRows, TypeOK
  <1>4. QED
    BY <1>1, <1>2, <1>3 DEF EnvironmentStep

LEMMA UploadTypeInit ==
    ASSUME Init
    PROVE  TypeOK
  <1>1. IsTable(sessions, Sessions, SessionRow) /\ IsContent(EmptyTable)
    BY EmptyTableIsTable DEF Init, IsContent
  <1>2. firstVersion = [f \in {} |-> firstVersion[f]] /\ DOMAIN firstVersion = {}
    BY DEF Init, EmptyTable
  <1>3. QED
    BY <1>1, <1>2, UploadBoundAssumption DEF Init, TypeOK

LEMMA UploadTypeStep ==
    ASSUME TypeOK, [Next]_vars
    PROVE  TypeOK'
  <1>1. CASE UNCHANGED vars
    BY <1>1 DEF vars, TypeOK
  <1>2. QED
    BY <1>1, ClientStepType, CleanupStepType, UploadEnvironmentType DEF Next

\* The tables and the calls in flight keep their types, whatever sessions,
\* clients and cleaners there are.
THEOREM UploadTypeCorrect == Spec => []TypeOK
  BY UploadTypeInit, UploadTypeStep, PTL DEF Spec

-----------------------------------------------------------------------------
(* The inductive invariant *)

\* What every step does to the tables: sessions keep their file and total
\* until they are deleted after expiry, a deleted session does not come back,
\* a complete session gets no more rows, and versions stay unless deletable.
SessionsEvolve ==
    /\ pastExpiry \subseteq pastExpiry'
    /\ \A s \in Sessions :
           \/ /\ Exists(s) /\ Exists(s)'
              /\ sessions'[s].file = sessions[s].file
              /\ sessions'[s].total = sessions[s].total
              /\ \/ uploaded'[s] = uploaded[s]
                 \/ /\ ~ IsComplete(uploaded[s], sessions[s].total)
                    /\ DOMAIN uploaded'[s] \subseteq 0..(sessions[s].total - 1)
           \/ /\ Exists(s) /\ ~ Exists(s)'
              /\ s \in pastExpiry
              /\ uploaded'[s] = EmptyTable
           \/ /\ ~ Exists(s) /\ ~ Exists(s)'
              /\ uploaded'[s] = uploaded[s]
           \/ /\ ~ Exists(s) /\ Exists(s)'
              /\ s \notin pastExpiry
              /\ uploaded'[s] = uploaded[s]

VersionsEvolve ==
    \A f \in DOMAIN firstVersion \ DeletableFiles :
        f \in DOMAIN firstVersion' /\ firstVersion'[f] = firstVersion[f]

TablesEvolve == SessionsEvolve /\ VersionsEvolve

\* Rows stay within the range of their session.
LEMMA RowsStaySound ==
    ASSUME RowsSound, SessionsEvolve
    PROVE  RowsSound'
  <1> SUFFICES ASSUME NEW s \in Sessions
               PROVE  /\ Exists(s)' => DOMAIN uploaded'[s] \subseteq 0..(sessions'[s].total - 1)
                      /\ ~ Exists(s)' => uploaded'[s] = EmptyTable
    BY DEF RowsSound, Exists
  <1>1. DOMAIN EmptyTable = {}
    BY DEF EmptyTable
  <1>2. QED
    BY <1>1 DEF RowsSound, SessionsEvolve

\* A content that was read from a session stays what it is.
LEMMA ContentStaysSound ==
    ASSUME SessionsEvolve, NEW content, NEW s \in Sessions, NEW total,
           ContentSound(content, s, total)
    PROVE  ContentSound(content, s, total)'
  <1>1. CASE Exists(s) /\ Exists(s)'
    BY <1>1 DEF SessionsEvolve, ContentSound, IsComplete, Exists
  <1>2. CASE ~ Exists(s) \/ ~ Exists(s)'
    BY <1>2 DEF SessionsEvolve, ContentSound, IsComplete, Exists
  <1>3. QED
    BY <1>1, <1>2

\* What holds of a call in flight holds after a step of anyone else.
LEMMA CallStaysSound ==
    ASSUME TablesEvolve, NEW call, CallSound(call),
           call.at = "mark" => call \in MarkCall,
           call.at \in FinalizeStates => IsFinalizeCall(call)
    PROVE  CallSound(call)'
  <1>1. MarkSound(call)'
    BY DEF TablesEvolve, SessionsEvolve, CallSound, MarkSound, MarkCall, Exists
  <1>2. FinalizeSound(call)'
    <2> SUFFICES ASSUME call.at \in FinalizeStates
                 PROVE  FinalizeSound(call)'
      BY DEF FinalizeSound
    <2> DEFINE s == call.session
    <2>1. s \in Sessions
      BY DEF IsFinalizeCall
    <2>2. /\ Exists(s)' => call.file = sessions'[s].file /\ call.total = sessions'[s].total
          /\ ~ Exists(s)' => s \in pastExpiry'
      BY <2>1 DEF TablesEvolve, SessionsEvolve, CallSound, FinalizeSound
    <2>3. call.at = "load" /\ Exists(s)' => IsComplete(uploaded'[s], call.total)
      BY <2>1 DEF TablesEvolve, SessionsEvolve, CallSound, FinalizeSound
    <2>4. call.at \in {"file", "version"} => ContentSound(call.content, s, call.total)'
      BY <2>1, ContentStaysSound DEF TablesEvolve, CallSound, FinalizeSound
    <2>5. call.at = "complete" /\ call.file \notin DeletableFiles => Owns(call.file, s)'
      BY DEF TablesEvolve, VersionsEvolve, CallSound, FinalizeSound, Owns
    <2>6. QED
      BY <2>2, <2>3, <2>4, <2>5 DEF FinalizeSound, Exists, IsComplete
  <1>3. QED
    BY <1>1, <1>2 DEF CallSound

\* All calls stay sound when one client's call changes to a sound one.
LEMMA CallsStaySound ==
    ASSUME TypeOK, \A d \in Clients : CallSound(client[d]), TablesEvolve,
           NEW c \in Clients, NEW new, client' = [client EXCEPT ![c] = new], CallSound(new)'
    PROVE  \A d \in Clients : CallSound(client[d])'
  <1> SUFFICES ASSUME NEW d \in Clients, NEW call, call = client'[d]
               PROVE  CallSound(client[d])'
    OBVIOUS
  <1>1. CallSound(call)'
    <2>1. CASE d = c
      <3>1. call = new
        BY <2>1 DEF TypeOK
      <3>2. QED
        BY <3>1
    <2>2. CASE d # c
      <3>1. call = client[d]
        BY <2>2 DEF TypeOK
      <3>2. CallSound(call)
        BY <3>1
      <3>3. /\ call.at = "mark" => call \in MarkCall
            /\ call.at \in FinalizeStates => IsFinalizeCall(call)
        BY <3>1, ClientCallType
      <3>4. QED
        BY <3>2, <3>3, CallStaysSound
    <2>3. QED
      BY <2>1, <2>2
  <1>2. QED
    BY <1>1 DEF CallSound, MarkSound, FinalizeSound, ContentSound, Owns, Exists, IsComplete

\* All calls stay sound when no client takes a step.
LEMMA CallsUnchangedStaySound ==
    ASSUME TypeOK, \A d \in Clients : CallSound(client[d]), TablesEvolve, client' = client
    PROVE  \A d \in Clients : CallSound(client[d])'
  <1> SUFFICES ASSUME NEW d \in Clients, NEW call, call = client[d]
               PROVE  CallSound(client[d])'
    OBVIOUS
  <1>1. CallSound(call)'
    BY CallStaysSound, ClientCallType
  <1>2. QED
    BY <1>1 DEF CallSound, MarkSound, FinalizeSound, ContentSound, Owns, Exists, IsComplete

\* Contents of versions stay sound when no version is added ...
LEMMA VersionsStaySound ==
    ASSUME TypeOK, VersionsSound, SessionsEvolve,
           DOMAIN firstVersion' \subseteq DOMAIN firstVersion,
           \A f \in DOMAIN firstVersion' : firstVersion'[f] = firstVersion[f]
    PROVE  VersionsSound'
  <1> SUFFICES ASSUME NEW f \in DOMAIN firstVersion', NEW row, row = firstVersion[f]
               PROVE  ContentSound(row.content, row.session, row.total)'
    BY DEF VersionsSound, ContentSound, Exists, IsComplete
  <1>1. row.session \in Sessions
    BY DEF TypeOK, IsVersionRow
  <1>2. ContentSound(row.content, row.session, row.total)
    BY DEF VersionsSound
  <1>3. QED
    BY <1>1, <1>2, ContentStaysSound

\* ... and when a sound one is.
LEMMA VersionAddedSound ==
    ASSUME TypeOK, VersionsSound, SessionsEvolve,
           NEW g, NEW content, NEW s \in Sessions, NEW total, ContentSound(content, s, total),
           firstVersion' = InsertRow(firstVersion, g,
               [content |-> content, session |-> s, total |-> total])
    PROVE  VersionsSound'
  <1> SUFFICES ASSUME NEW f \in DOMAIN firstVersion', NEW row, row = firstVersion'[f]
               PROVE  ContentSound(row.content, row.session, row.total)'
    BY DEF VersionsSound, ContentSound, Exists, IsComplete
  <1>1. CASE f = g
    <2>1. row = [content |-> content, session |-> s, total |-> total]
      BY <1>1 DEF InsertRow
    <2>2. row.content = content /\ row.session = s /\ row.total = total
      BY <2>1
    <2>3. QED
      BY <2>2, ContentStaysSound
  <1>2. CASE f # g
    <2>1. f \in DOMAIN firstVersion /\ row = firstVersion[f]
      BY <1>2 DEF InsertRow
    <2>2. row.session \in Sessions
      BY <2>1 DEF TypeOK, IsVersionRow
    <2>3. ContentSound(row.content, row.session, row.total)
      BY <2>1 DEF VersionsSound
    <2>4. QED
      BY <2>2, <2>3, ContentStaysSound
  <1>3. QED
    BY <1>1, <1>2

\* A step that leaves the tables alone lets them evolve.
LEMMA TablesUnchangedEvolve ==
    ASSUME UNCHANGED <<sessions, uploaded>>, pastExpiry \subseteq pastExpiry', VersionsEvolve
    PROVE  TablesEvolve
  BY DEF TablesEvolve, SessionsEvolve, Exists

\* A session that counts as many rows as its total has all its rows.
LEMMA FullCountIsComplete ==
    ASSUME TypeOK, RowsSound, NEW s \in Sessions, Exists(s), CountMatches(s, sessions[s].total)
    PROVE  IsComplete(uploaded[s], sessions[s].total)
  <1> DEFINE total == sessions[s].total
             range == 0..(total - 1)
  <1>1. total \in Nat
    BY TotalsAssumption DEF TypeOK, IsTable, SessionRow, Exists
  <1>2. IsFiniteSet(range) /\ Cardinality(range) = total
    <2>1. 0 \in Int /\ total - 1 \in Int
      BY <1>1
    <2>2. /\ IsFiniteSet(range)
          /\ Cardinality(range) = IF 0 > total - 1 THEN 0 ELSE (total - 1) - 0 + 1
      BY <2>1, FS_Interval
    <2>3. QED
      BY <1>1, <2>2
  <1>3. DOMAIN uploaded[s] \subseteq range /\ Cardinality(DOMAIN uploaded[s]) = total
    BY DEF RowsSound, CountMatches
  <1>4. DOMAIN uploaded[s] = range
    BY <1>2, <1>3, FS_Subset
  <1>5. QED
    BY <1>4 DEF IsComplete

\* The steps of markChunkUploaded keep the invariant.
LEMMA MarkStep ==
    ASSUME UploadInv, TypeOK', NEW c \in Clients,
           \/ RecordMark(c)
           \/ \E s \in Sessions, number \in Numbers, hash \in Chunks : CheckMark(c, s, number, hash)
    PROVE  UploadInv'
  <1>1. ASSUME NEW s \in Sessions, NEW number \in Numbers, NEW hash \in Chunks,
               CheckMark(c, s, number, hash)
        PROVE  UploadInv'
    <2> DEFINE new == [at |-> "mark", session |-> s, number |-> number, hash |-> hash]
    <2>1. TablesEvolve
      BY <1>1, TablesUnchangedEvolve DEF CheckMark, tables, VersionsEvolve
    <2>2. CallSound(new)'
      BY <1>1 DEF CheckMark, MayMark, tables, CallSound, MarkSound, FinalizeSound, FinalizeStates, Exists
    <2>3. client' = [client EXCEPT ![c] = new]
      BY <1>1 DEF CheckMark
    <2>4. \A d \in Clients : CallSound(client[d])'
      <3> HIDE DEF new
      <3>1. QED
        BY <2>1, <2>2, <2>3, CallsStaySound DEF UploadInv
    <2>5. RowsSound' /\ VersionsSound'
      BY <1>1, <2>1, RowsStaySound, VersionsStaySound DEF UploadInv, TablesEvolve, CheckMark, tables
    <2>6. (\A k \in Cleaners : CleanSound(cleaner[k]))' /\ CompletedOwnsFile'
      BY <1>1 DEF UploadInv, CheckMark, tables, CleanSound, CompletedOwnsFile
    <2>7. QED
      BY <2>4, <2>5, <2>6 DEF UploadInv
  <1>2. CASE RecordMark(c)
    <2> DEFINE call == client[c]
               s == call.session
    <2>1. call \in MarkCall /\ MarkSound(call)
      BY <1>2, ClientCallType DEF RecordMark, UploadInv, CallSound
    <2>2. s \in Sessions /\ call.number \in Nat
      BY <2>1 DEF MarkCall
    <2>3. ASSUME RecordsChunk(s, call.number)
          PROVE  TablesEvolve
      <3>1. Exists(s) /\ call.number < sessions[s].total /\ sessions[s].total \in Nat
        BY <1>2, <2>1, <2>2, <2>3, TotalsAssumption
        DEF RecordsChunk, MarkSound, RecordMark, UploadInv, TypeOK, IsTable, SessionRow, Exists
      <3>2. call.number \in 0..(sessions[s].total - 1) /\ call.number \notin DOMAIN uploaded[s]
        BY <2>2, <2>3, <3>1 DEF RecordsChunk
      <3>3. ~ IsComplete(uploaded[s], sessions[s].total)
        BY <3>2 DEF IsComplete
      <3>4. /\ DOMAIN uploaded'[s] = DOMAIN uploaded[s] \cup {call.number}
            /\ \A t \in Sessions \ {s} : uploaded'[t] = uploaded[t]
        BY <1>2, <2>2, <2>3 DEF RecordMark, InsertRow, UploadInv, TypeOK
      <3>5. DOMAIN uploaded'[s] \subseteq 0..(sessions[s].total - 1)
        BY <2>2, <3>1, <3>2, <3>4 DEF UploadInv, RowsSound
      <3>6. SessionsEvolve
        BY <1>2, <3>1, <3>3, <3>4, <3>5 DEF SessionsEvolve, RecordMark, Exists
      <3>7. QED
        BY <1>2, <3>6 DEF TablesEvolve, VersionsEvolve, RecordMark
    <2>4. ASSUME ~ RecordsChunk(s, call.number)
          PROVE  TablesEvolve
      BY <1>2, <2>4, TablesUnchangedEvolve DEF RecordMark, VersionsEvolve
    <2>5. TablesEvolve
      BY <2>3, <2>4
    <2>6. CallSound(Idle)'
      BY CallKinds DEF CallSound, MarkSound, FinalizeSound, FinalizeStates
    <2>7. \A d \in Clients : CallSound(client[d])'
      BY <1>2, <2>5, <2>6, CallsStaySound DEF UploadInv, RecordMark
    <2>8. RowsSound' /\ VersionsSound'
      BY <1>2, <2>5, RowsStaySound, VersionsStaySound DEF UploadInv, TablesEvolve, RecordMark
    <2>9. (\A k \in Cleaners : CleanSound(cleaner[k]))' /\ CompletedOwnsFile'
      BY <1>2 DEF UploadInv, RecordMark, CleanSound, CompletedOwnsFile
    <2>10. QED
      BY <2>7, <2>8, <2>9 DEF UploadInv
  <1>3. QED
    BY <1>1, <1>2

\* What a step of a client that touches no table but files leaves to show.
LEMMA CallOnlyStep ==
    ASSUME UploadInv, TypeOK', NEW c \in Clients, NEW new, CallSound(new)',
           client' = [client EXCEPT ![c] = new],
           UNCHANGED <<sessions, uploaded, pastExpiry, firstVersion, cleaner>>
    PROVE  UploadInv'
  <1>1. TablesEvolve
    BY TablesUnchangedEvolve DEF VersionsEvolve
  <1>2. \A d \in Clients : CallSound(client[d])'
    BY <1>1, CallsStaySound DEF UploadInv
  <1>3. RowsSound' /\ VersionsSound'
    BY <1>1, RowsStaySound, VersionsStaySound DEF UploadInv, TablesEvolve
  <1>4. (\A k \in Cleaners : CleanSound(cleaner[k]))' /\ CompletedOwnsFile'
    BY DEF UploadInv, CleanSound, CompletedOwnsFile
  <1>5. QED
    BY <1>2, <1>3, <1>4 DEF UploadInv

LEMMA IdleSound ==
    CallSound(Idle) /\ CallSound(Idle)'
  BY CallKinds DEF CallSound, MarkSound, FinalizeSound, FinalizeStates

\* The steps of finalizeUpload keep the invariant.
LEMMA FinalizeStepInv ==
    ASSUME UploadInv, TypeOK', NEW c \in Clients,
           FinalizeStep(c) \/ CallAborts(c) \/ \E s \in Sessions : StartFinalize(c, s)
    PROVE  UploadInv'
  <1> DEFINE call == client[c]
  <1>1. TypeOK /\ CallSound(call)
    BY DEF UploadInv
  <1>2. call.at \in FinalizeStates =>
            /\ IsFinalizeCall(call)
            /\ call.session \in Sessions
            /\ call \in [at : {"count", "load", "file", "version", "complete"}, session : Sessions,
                         file : Files, total : Totals, content : {call.content}]
    BY <1>1, ClientCallType DEF IsFinalizeCall
  <1>3. ASSUME NEW s \in Sessions, StartFinalize(c, s)
        PROVE  UploadInv'
    <2> DEFINE start == [at |-> "count", session |-> s, file |-> sessions[s].file,
                         total |-> sessions[s].total, content |-> EmptyTable]
    <2>1. ASSUME NEW new, new = start
          PROVE  CallSound(new)'
      BY <1>3, <2>1 DEF StartFinalize, tables, CallSound, MarkSound, FinalizeSound, FinalizeStates, Exists
    <2>2. ASSUME NEW new, new = start
          PROVE  UploadInv'
      <3>1. client' = [client EXCEPT ![c] = new]
        BY <1>3, <2>2 DEF StartFinalize
      <3>2. UNCHANGED <<sessions, uploaded, pastExpiry, firstVersion, cleaner>>
        BY <1>3 DEF StartFinalize, tables
      <3>3. CallSound(new)'
        BY <2>1, <2>2
      <3>4. QED
        BY <3>1, <3>2, <3>3, CallOnlyStep
    <2>3. QED
      BY <2>2
  <1>4. CASE CallAborts(c)
    BY <1>4, CallOnlyStep, IdleSound DEF CallAborts, GiveUp, tables
  <1>5. CASE CountChunks(c)
    <2>1. CASE ~ CountMatches(call.session, call.total)
      BY <1>5, <2>1, CallOnlyStep, IdleSound DEF CountChunks, GiveUp, tables
    <2>2. CASE CountMatches(call.session, call.total)
      <3>1. ASSUME NEW new, new = [call EXCEPT !.at = "load"]
            PROVE  CallSound(new)'
        <4>1. /\ new.at = "load" /\ new.session = call.session
              /\ new.file = call.file /\ new.total = call.total
          BY <1>2, <1>5, <3>1 DEF CountChunks, FinalizeStates
        <4>2. Exists(call.session) => IsComplete(uploaded[call.session], call.total)
          BY <1>1, <1>2, <1>5, <2>2, FullCountIsComplete
          DEF UploadInv, CallSound, FinalizeSound, FinalizeStates, CountChunks
        <4>3. FinalizeSound(call) /\ call.at \in FinalizeStates
          BY <1>1, <1>5 DEF CallSound, CountChunks, FinalizeStates
        <4>4. QED
          BY <1>5, <4>1, <4>2, <4>3
          DEF CountChunks, tables, CallSound, MarkSound, FinalizeSound, FinalizeStates, Exists, IsComplete
      <3>2. ASSUME NEW new, new = [call EXCEPT !.at = "load"]
            PROVE  UploadInv'
        <4>1. client' = [client EXCEPT ![c] = new]
          BY <1>1, <1>5, <2>2, <3>2 DEF CountChunks, GoOn, TypeOK
        <4>2. QED
          BY <1>5, <3>1, <3>2, <4>1, CallOnlyStep DEF CountChunks, tables
      <3>3. QED
        BY <3>2
    <2>3. QED
      BY <2>1, <2>2
  <1>6. CASE LoadChunks(c)
    <2> DEFINE next == [at |-> "file", session |-> call.session, file |-> call.file,
                        total |-> call.total, content |-> uploaded[call.session]]
    <2>1. /\ FinalizeSound(call) /\ call.at = "load" /\ call.at \in FinalizeStates
          /\ RowsSound
      BY <1>1, <1>6 DEF CallSound, LoadChunks, FinalizeStates, UploadInv
    <2>2. call.session \in Sessions
      BY <1>2, <2>1
    <2>3. ContentSound(uploaded[call.session], call.session, call.total)
      BY <2>1, <2>2 DEF FinalizeSound, ContentSound, RowsSound
    <2>4. ASSUME NEW new, new = next
          PROVE  CallSound(new)'
      <3>1. ContentSound(new.content, new.session, new.total)
        BY <2>3, <2>4
      <3>2. /\ new.at = "file" /\ new.session = call.session
            /\ new.file = call.file /\ new.total = call.total
        BY <2>4
      <3>3. QED
        BY <1>6, <2>1, <3>1, <3>2
        DEF LoadChunks, tables, CallSound, MarkSound, FinalizeSound, ContentSound, Exists
    <2>5. ASSUME NEW new, new = next
          PROVE  UploadInv'
      <3>1. client' = [client EXCEPT ![c] = new]
        BY <1>6, <2>5 DEF LoadChunks
      <3>2. QED
        BY <1>6, <2>4, <2>5, <3>1, CallOnlyStep DEF LoadChunks, tables
    <2>6. QED
      BY <2>5
  <1>7. CASE CreateFile(c)
    <2>1. CASE call.file \in files
      BY <1>7, <2>1, CallOnlyStep, IdleSound DEF CreateFile, GiveUp
    <2>2. CASE call.file \notin files
      <3>1. FinalizeSound(call) /\ call.at = "file" /\ call.at \in FinalizeStates
        BY <1>1, <1>7 DEF CallSound, CreateFile, FinalizeStates
      <3>2. ASSUME NEW new, new = [call EXCEPT !.at = "version"]
            PROVE  CallSound(new)'
        <4>1. /\ new.at = "version" /\ new.session = call.session /\ new.file = call.file
              /\ new.total = call.total /\ new.content = call.content
          BY <1>2, <3>1, <3>2
        <4>2. QED
          BY <1>7, <3>1, <4>1
          DEF CreateFile, CallSound, MarkSound, FinalizeSound, ContentSound, Exists
      <3>3. ASSUME NEW new, new = [call EXCEPT !.at = "version"]
            PROVE  UploadInv'
        <4>1. client' = [client EXCEPT ![c] = new]
          BY <1>1, <1>7, <2>2, <3>3 DEF CreateFile, GoOn, TypeOK
        <4>2. QED
          BY <1>7, <3>2, <3>3, <4>1, CallOnlyStep DEF CreateFile
      <3>4. QED
        BY <3>3
    <2>3. QED
      BY <2>1, <2>2
  <1>8. CASE CreateFirstVersion(c)
    <2>1. CASE call.file \notin files \ DOMAIN firstVersion
      BY <1>8, <2>1, CallOnlyStep, IdleSound DEF CreateFirstVersion, GiveUp
    <2>2. CASE call.file \in files \ DOMAIN firstVersion
      <3> DEFINE row == [content |-> call.content, session |-> call.session, total |-> call.total]
      <3>1. FinalizeSound(call) /\ call.at = "version" /\ call.at \in FinalizeStates
        BY <1>1, <1>8 DEF CallSound, CreateFirstVersion, FinalizeStates
      <3>2. firstVersion' = InsertRow(firstVersion, call.file, row)
        BY <1>8, <2>2 DEF CreateFirstVersion
      <3>3. /\ \A f \in DOMAIN firstVersion : f \in DOMAIN firstVersion' /\ firstVersion'[f] = firstVersion[f]
            /\ call.file \in DOMAIN firstVersion' /\ firstVersion'[call.file].session = call.session
        BY <2>2, <3>2 DEF InsertRow
      <3>4. TablesEvolve
        BY <1>8, <3>3, TablesUnchangedEvolve DEF CreateFirstVersion, VersionsEvolve
      <3>5. ASSUME NEW new, new = [call EXCEPT !.at = "complete"]
            PROVE  CallSound(new)'
        <4>1. /\ new.at = "complete" /\ new.session = call.session
              /\ new.file = call.file /\ new.total = call.total
          BY <1>2, <3>1, <3>5
        <4>2. QED
          BY <1>8, <3>1, <3>3, <4>1
          DEF CreateFirstVersion, CallSound, MarkSound, FinalizeSound, Owns, Exists
      <3>6. \A d \in Clients : CallSound(client[d])'
        <4>1. ASSUME NEW new, new = [call EXCEPT !.at = "complete"]
              PROVE  \A d \in Clients : CallSound(client[d])'
          <5>1. client' = [client EXCEPT ![c] = new]
            BY <1>1, <1>8, <2>2, <4>1 DEF CreateFirstVersion, GoOn, TypeOK
          <5>2. CallSound(new)'
            BY <3>5, <4>1
          <5>3. QED
            BY <3>4, <5>1, <5>2, CallsStaySound DEF UploadInv
        <4>2. QED
          BY <4>1
      <3>7. RowsSound'
        BY <3>4, RowsStaySound DEF UploadInv, TablesEvolve
      <3>8. VersionsSound'
        <4>1. ContentSound(call.content, call.session, call.total) /\ call.session \in Sessions
          BY <1>2, <3>1 DEF FinalizeSound
        <4>2. QED
          BY <3>2, <3>4, <4>1, VersionAddedSound DEF UploadInv, TablesEvolve
      <3>9. (\A k \in Cleaners : CleanSound(cleaner[k]))' /\ CompletedOwnsFile'
        BY <1>8, <3>3 DEF CreateFirstVersion, UploadInv, CleanSound, CompletedOwnsFile
      <3>10. QED
        BY <3>6, <3>7, <3>8, <3>9 DEF UploadInv
    <2>3. QED
      BY <2>1, <2>2
  <1>9. CASE CompleteSession(c)
    <2>1. FinalizeSound(call) /\ call.at = "complete" /\ call.at \in FinalizeStates
      BY <1>1, <1>9 DEF CallSound, CompleteSession, FinalizeStates
    <2>2. call.session \in Sessions
      BY <1>2, <2>1
    <2>3. /\ DOMAIN sessions' = DOMAIN sessions
          /\ \A t \in DOMAIN sessions :
                 /\ sessions'[t].file = sessions[t].file
                 /\ sessions'[t].total = sessions[t].total
                 /\ sessions'[t].status = IF t = call.session THEN "completed" ELSE sessions[t].status
      BY <1>1, <1>9, <2>2, SetStatusType DEF CompleteSession
    <2>4. TablesEvolve
      BY <1>9, <2>3 DEF CompleteSession, TablesEvolve, SessionsEvolve, VersionsEvolve, Exists
    <2>5. \A d \in Clients : CallSound(client[d])'
      BY <1>9, <2>4, CallsStaySound, IdleSound DEF UploadInv, CompleteSession, GiveUp
    <2>6. RowsSound' /\ VersionsSound'
      BY <1>9, <2>4, RowsStaySound, VersionsStaySound DEF UploadInv, TablesEvolve, CompleteSession
    <2>7. CompletedOwnsFile'
      BY <1>9, <2>1, <2>3 DEF UploadInv, CompleteSession, CompletedOwnsFile, FinalizeSound, Owns, Exists
    <2>8. (\A k \in Cleaners : CleanSound(cleaner[k]))'
      BY <1>9 DEF UploadInv, CompleteSession, CleanSound
    <2>9. QED
      BY <2>5, <2>6, <2>7, <2>8 DEF UploadInv
  <1>10. QED
    BY <1>3, <1>4, <1>5, <1>6, <1>7, <1>8, <1>9 DEF FinalizeStep

\* The steps of cleanupExpiredSessions keep the invariant.
LEMMA CleanupStepInv ==
    ASSUME UploadInv, TypeOK', NEW k \in Cleaners, CleanupStep(k)
    PROVE  UploadInv'
  <1> DEFINE call == cleaner[k]
  <1>1. /\ TypeOK
        /\ call.at # "idle" => /\ call \in CleanCall
                               /\ call.todo \subseteq pastExpiry
                               /\ call.at = "delete" => call.session \in pastExpiry
    BY CallKinds DEF UploadInv, TypeOK, CleanSound
  <1>2. ASSUME NEW new, CleanSound(new), pastExpiry' = pastExpiry,
               cleaner' = [cleaner EXCEPT ![k] = new]
        PROVE  (\A j \in Cleaners : CleanSound(cleaner[j]))'
    BY <1>2 DEF UploadInv, TypeOK, CleanSound
  <1>3. ASSUME UNCHANGED <<tables, client>>, (\A j \in Cleaners : CleanSound(cleaner[j]))'
        PROVE  UploadInv'
    <2>1. TablesEvolve
      BY <1>3, TablesUnchangedEvolve DEF tables, VersionsEvolve
    <2>2. \A d \in Clients : CallSound(client[d])'
      BY <1>3, <2>1, CallsUnchangedStaySound DEF UploadInv
    <2>3. RowsSound' /\ VersionsSound'
      BY <1>3, <2>1, RowsStaySound, VersionsStaySound DEF UploadInv, TablesEvolve, tables
    <2>4. CompletedOwnsFile'
      BY <1>3 DEF UploadInv, tables, CompletedOwnsFile
    <2>5. QED
      BY <1>3, <2>2, <2>3, <2>4 DEF UploadInv
  <1>4. ASSUME NEW todo, todo \subseteq pastExpiry, pastExpiry' = pastExpiry, NextSession(k, todo)
        PROVE  (\A j \in Cleaners : CleanSound(cleaner[j]))'
    <2>1. CleanSound(Idle) /\ CleanSound([at |-> "expire", todo |-> todo])
      BY <1>4 DEF CleanSound
    <2>2. QED
      BY <1>2, <1>4, <2>1 DEF NextSession
  <1>5. CASE ListExpired(k)
    <2>1. CleanSound([at |-> "expire", todo |-> ExpiredSessions])
      BY DEF CleanSound, ExpiredSessions
    <2>2. QED
      BY <1>2, <1>3, <1>5, <2>1 DEF ListExpired, tables
  <1>6. CASE SkipSession(k)
    <2>1. \E todo \in SUBSET pastExpiry : NextSession(k, todo)
      BY <1>1, <1>6 DEF SkipSession
    <2>2. QED
      BY <1>3, <1>4, <1>6, <2>1 DEF SkipSession, tables
  <1>7. CASE CleanupAborts(k)
    <2>1. CleanSound(Idle)
      BY DEF CleanSound
    <2>2. QED
      BY <1>2, <1>3, <1>7, <2>1 DEF CleanupAborts, tables
  <1>8. ASSUME NEW s \in Sessions, ExpireSession(k, s)
        PROVE  UploadInv'
    <2>1. /\ DOMAIN sessions' = DOMAIN sessions
          /\ \A t \in DOMAIN sessions :
                 /\ sessions'[t].file = sessions[t].file
                 /\ sessions'[t].total = sessions[t].total
                 /\ sessions'[t].status = IF t = s THEN "expired" ELSE sessions[t].status
      BY <1>1, <1>8, SetStatusType DEF ExpireSession
    <2>2. TablesEvolve
      BY <1>8, <2>1 DEF ExpireSession, TablesEvolve, SessionsEvolve, VersionsEvolve, Exists
    <2>3. \A d \in Clients : CallSound(client[d])'
      BY <1>8, <2>2, CallsUnchangedStaySound DEF UploadInv, ExpireSession
    <2>4. RowsSound' /\ VersionsSound'
      BY <1>8, <2>2, RowsStaySound, VersionsStaySound DEF UploadInv, TablesEvolve, ExpireSession
    <2>5. CompletedOwnsFile'
      BY <1>8, <2>1 DEF UploadInv, ExpireSession, CompletedOwnsFile
    <2>6. (\A j \in Cleaners : CleanSound(cleaner[j]))'
      <3>1. CleanSound([at |-> "delete", todo |-> call.todo \ {s}, session |-> s])
        BY <1>1, <1>8 DEF ExpireSession, CleanSound
      <3>2. QED
        BY <1>2, <1>8, <3>1 DEF ExpireSession
    <2>7. QED
      BY <2>3, <2>4, <2>5, <2>6 DEF UploadInv
  <1>9. CASE DeleteSession(k)
    <2>1. /\ call \in CleanCall /\ call.session \in pastExpiry /\ call.todo \subseteq pastExpiry
      BY <1>1, <1>9 DEF DeleteSession
    <2>2. /\ DOMAIN sessions' = DOMAIN sessions \ {call.session}
          /\ \A t \in DOMAIN sessions' : sessions'[t] = sessions[t]
          /\ \A t \in Sessions : uploaded'[t] = IF t = call.session THEN EmptyTable ELSE uploaded[t]
      BY <1>1, <1>9 DEF DeleteSession, DeleteRows, TypeOK
    <2>3. SessionsEvolve
      <3>1. \A t \in Sessions : ~ Exists(t) => uploaded[t] = EmptyTable
        BY DEF UploadInv, RowsSound
      <3>2. QED
        BY <1>9, <2>1, <2>2, <3>1 DEF DeleteSession, SessionsEvolve, Exists
    <2>4. TablesEvolve
      BY <1>9, <2>3 DEF DeleteSession, TablesEvolve, VersionsEvolve
    <2>5. \A d \in Clients : CallSound(client[d])'
      BY <1>9, <2>4, CallsUnchangedStaySound DEF UploadInv, DeleteSession
    <2>6. RowsSound' /\ VersionsSound'
      BY <1>9, <2>4, RowsStaySound, VersionsStaySound DEF UploadInv, TablesEvolve, DeleteSession
    <2>7. CompletedOwnsFile'
      BY <1>9, <2>2 DEF UploadInv, DeleteSession, CompletedOwnsFile
    <2>8. (\A j \in Cleaners : CleanSound(cleaner[j]))'
      BY <1>4, <1>9, <2>1 DEF DeleteSession
    <2>9. QED
      BY <2>5, <2>6, <2>7, <2>8 DEF UploadInv
  <1>10. QED
    BY <1>5, <1>6, <1>7, <1>8, <1>9 DEF CleanupStep, CleanStep

\* What the environment does keeps the invariant.
LEMMA UploadEnvironmentInv ==
    ASSUME UploadInv, TypeOK', EnvironmentStep
    PROVE  UploadInv'
  <1> USE DEF UploadInv
  <1>1. TypeOK
    OBVIOUS
  <1>2. ASSUME NEW s \in Sessions, NEW f \in Files, NEW total \in Totals, CreateSession(s, f, total)
        PROVE  UploadInv'
    <2>1. /\ DOMAIN sessions' = DOMAIN sessions \cup {s} /\ s \notin DOMAIN sessions
          /\ \A t \in DOMAIN sessions : sessions'[t] = sessions[t]
          /\ sessions'[s].status = "active"
      BY <1>2 DEF CreateSession, InsertRow, Exists
    <2>2. TablesEvolve
      BY <1>2, <2>1 DEF CreateSession, TablesEvolve, SessionsEvolve, VersionsEvolve, Exists
    <2>3. \A d \in Clients : CallSound(client[d])'
      BY <1>2, <2>2, CallsUnchangedStaySound DEF CreateSession
    <2>4. RowsSound' /\ VersionsSound'
      BY <1>2, <2>2, RowsStaySound, VersionsStaySound DEF TablesEvolve, CreateSession
    <2>5. (\A k \in Cleaners : CleanSound(cleaner[k]))' /\ CompletedOwnsFile'
      BY <1>2, <2>1 DEF CreateSession, CleanSound, CompletedOwnsFile
    <2>6. QED
      BY <2>3, <2>4, <2>5
  <1>3. ASSUME NEW s \in Sessions, Expire(s)
        PROVE  UploadInv'
    <2>1. TablesEvolve
      BY <1>3, TablesUnchangedEvolve DEF Expire, VersionsEvolve
    <2>2. \A d \in Clients : CallSound(client[d])'
      BY <1>3, <2>1, CallsUnchangedStaySound DEF Expire
    <2>3. RowsSound' /\ VersionsSound'
      BY <1>3, <2>1, RowsStaySound, VersionsStaySound DEF TablesEvolve, Expire
    <2>4. (\A k \in Cleaners : CleanSound(cleaner[k]))' /\ CompletedOwnsFile'
      BY <1>3 DEF Expire, CleanSound, CompletedOwnsFile
    <2>5. QED
      BY <2>2, <2>3, <2>4
  <1>4. ASSUME NEW f \in Files, DeleteFile(f)
        PROVE  UploadInv'
    <2>1. /\ f \in DeletableFiles
          /\ DOMAIN firstVersion' = DOMAIN firstVersion \ {f}
          /\ \A g \in DOMAIN firstVersion' : firstVersion'[g] = firstVersion[g]
      BY <1>4 DEF DeleteFile, DeleteRows
    <2>2. TablesEvolve
      BY <1>4, <2>1, TablesUnchangedEvolve DEF DeleteFile, VersionsEvolve
    <2>3. \A d \in Clients : CallSound(client[d])'
      BY <1>4, <2>2, CallsUnchangedStaySound DEF DeleteFile
    <2>4. RowsSound' /\ VersionsSound'
      BY <1>4, <2>1, <2>2, RowsStaySound, VersionsStaySound DEF TablesEvolve, DeleteFile
    <2>5. (\A k \in Cleaners : CleanSound(cleaner[k]))' /\ CompletedOwnsFile'
      BY <1>4, <2>1 DEF DeleteFile, CleanSound, CompletedOwnsFile
    <2>6. QED
      BY <2>3, <2>4, <2>5
  <1>5. QED
    BY <1>2, <1>3, <1>4 DEF EnvironmentStep

LEMMA UploadInvInit ==
    ASSUME Init
    PROVE  UploadInv
  <1>1. TypeOK
    BY UploadTypeInit
  <1>2. DOMAIN EmptyTable = {}
    BY DEF EmptyTable
  <1>3. QED
    BY <1>1, <1>2, IdleSound
    DEF Init, UploadInv, RowsSound, Exists, CleanSound, VersionsSound, CompletedOwnsFile

LEMMA UploadInvStep ==
    ASSUME UploadInv, [Next]_vars
    PROVE  UploadInv'
  <1>1. TypeOK'
    BY UploadTypeStep DEF UploadInv
  <1>2. CASE UNCHANGED vars
    BY <1>2 DEF vars, UploadInv, TypeOK, RowsSound, CallSound, MarkSound, FinalizeSound, Owns,
                CleanSound, VersionsSound, ContentSound, CompletedOwnsFile, Exists, IsComplete
  <1>3. ASSUME NEW c \in Clients, ClientStep(c)
        PROVE  UploadInv'
    BY <1>1, <1>3, MarkStep, FinalizeStepInv DEF ClientStep, CallStep
  <1>4. QED
    BY <1>1, <1>2, <1>3, CleanupStepInv, UploadEnvironmentInv DEF Next

\* What is known of sessions, versions and the calls in flight always holds.
THEOREM UploadInvariant == Spec => []UploadInv
  BY UploadInvInit, UploadInvStep, PTL DEF Spec

-----------------------------------------------------------------------------
(* Theorems *)

LEMMA ContentSoundGives ==
    ASSUME UploadInv
    PROVE  NoPartialVersion /\ VersionMatchesSession
  BY DEF UploadInv, VersionsSound, ContentSound, NoPartialVersion, VersionMatchesSession

\* finalizeUpload never makes a version of some of the chunks of an upload.
THEOREM NoVersionIsPartial == Spec => []NoPartialVersion
  BY UploadInvariant, ContentSoundGives, PTL

\* Marks that race or follow the finalization do not part the session from
\* the version made of it.
THEOREM VersionStaysTrueToSession == Spec => []VersionMatchesSession
  BY UploadInvariant, ContentSoundGives, PTL

\* Of all sessions that upload the same file, only the one whose chunks the
\* file is made of is completed.
THEOREM FileHasOneUpload == Spec => []CompletedOwnsFile
  <1>1. UploadInv => CompletedOwnsFile
    BY DEF UploadInv
  <1>2. QED
    BY UploadInvariant, <1>1, PTL

-----------------------------------------------------------------------------
(* Files without a version *)

HalfFiles == files \ DOMAIN firstVersion
Creating == {c \in Clients : client[c].at = "version"}

\* Files without a version that no call in flight is going to give one
Abandoned == {f \in HalfFiles : \A c \in Creating : client[c].file # f}

\* The inductive invariant: a file that is deleted leaves its call in flight
\* with nothing to do, so it is the abandoned files that the failures count.
AbandonedInv ==
    /\ IsFiniteSet(Creating)
    /\ IsFiniteSet(Abandoned)
    /\ Cardinality(Abandoned) <= failures

\* Nothing is lost when no more files are abandoned.
LEMMA NoMoreAbandoned ==
    ASSUME TypeOK, TypeOK', AbandonedInv, IsFiniteSet(Creating'), Abandoned' \subseteq Abandoned,
           failures' = failures \/ failures' = failures + 1
    PROVE  AbandonedInv'
  <1>1. /\ IsFiniteSet(Abandoned') /\ Cardinality(Abandoned') <= Cardinality(Abandoned)
        /\ Cardinality(Abandoned') \in Nat /\ Cardinality(Abandoned) \in Nat
    BY FS_Subset, FS_CardinalityType DEF AbandonedInv
  <1>2. failures \in Nat
    BY DEF TypeOK
  <1>3. QED
    BY <1>1, <1>2 DEF AbandonedInv

\* A step of one client leaves the calls of the others as they are.
LEMMA OneClient ==
    ASSUME TypeOK, IsFiniteSet(Creating), NEW c \in Clients, NEW new,
           client' = [client EXCEPT ![c] = new]
    PROVE  /\ client'[c] = new
           /\ \A d \in Clients : d # c => client'[d] = client[d]
           /\ Creating' \subseteq Creating \cup {c}
           /\ IsFiniteSet(Creating')
  <1>1. client'[c] = new /\ \A d \in Clients : d # c => client'[d] = client[d]
    BY DEF TypeOK
  <1>2. Creating' \subseteq Creating \cup {c}
    BY <1>1 DEF Creating
  <1>3. IsFiniteSet(Creating \cup {c})
    BY FS_AddElement
  <1>4. QED
    BY <1>1, <1>2, <1>3, FS_Subset

\* A call whose file is not there, or has its version, abandons nothing.
LEMMA CallLeaves ==
    ASSUME TypeOK, TypeOK', AbandonedInv, NEW c \in Clients, NEW new,
           client' = [client EXCEPT ![c] = new],
           HalfFiles' \subseteq HalfFiles,
           client[c].at = "version" => client[c].file \notin HalfFiles',
           failures' = failures \/ failures' = failures + 1
    PROVE  AbandonedInv'
  <1>1. /\ \A d \in Clients : d # c => client'[d] = client[d]
        /\ IsFiniteSet(Creating')
    BY OneClient DEF AbandonedInv
  <1>2. ASSUME NEW f \in Abandoned' PROVE f \in Abandoned
    <2>1. f \in HalfFiles /\ f \in HalfFiles'
      BY <1>2 DEF Abandoned
    <2>2. ASSUME NEW d \in Creating PROVE client[d].file # f
      <3>1. CASE d = c
        BY <2>1, <3>1 DEF Creating
      <3>2. CASE d # c
        <4>1. d \in Creating' /\ client'[d] = client[d]
          BY <1>1, <3>2 DEF Creating
        <4>2. QED
          BY <1>2, <4>1 DEF Abandoned
      <3>3. QED
        BY <3>1, <3>2
    <2>3. QED
      BY <2>1, <2>2 DEF Abandoned
  <1>3. QED
    BY <1>1, <1>2, NoMoreAbandoned

\* A failure abandons one file at most.
LEMMA CallFails ==
    ASSUME TypeOK, TypeOK', AbandonedInv, NEW c \in Clients,
           client' = [client EXCEPT ![c] = Idle],
           UNCHANGED <<files, firstVersion>>, failures' = failures + 1
    PROVE  AbandonedInv'
  <1>1. /\ \A d \in Clients : d # c => client'[d] = client[d]
        /\ IsFiniteSet(Creating')
    BY OneClient DEF AbandonedInv
  <1>2. HalfFiles' = HalfFiles
    BY DEF HalfFiles
  <1>3. ASSUME NEW f \in Abandoned' PROVE f \in Abandoned \cup {client[c].file}
    <2>1. ASSUME NEW d \in Creating, d # c PROVE client[d].file # f
      <3>1. d \in Creating' /\ client'[d] = client[d]
        BY <1>1, <2>1 DEF Creating
      <3>2. QED
        BY <1>3, <3>1 DEF Abandoned
    <2>2. QED
      BY <1>2, <1>3, <2>1 DEF Abandoned
  <1>4. PICK after : after = Abandoned'
    OBVIOUS
  <1>5. PICK more : more = Abandoned \cup {client[c].file}
    OBVIOUS
  <1>6. /\ IsFiniteSet(more) /\ Cardinality(Abandoned) \in Nat
        /\ Cardinality(more) \in {Cardinality(Abandoned), Cardinality(Abandoned) + 1}
    BY <1>5, FS_AddElement, FS_CardinalityType DEF AbandonedInv
  <1>7. IsFiniteSet(after) /\ Cardinality(after) <= Cardinality(more) /\ Cardinality(after) \in Nat
    BY <1>3, <1>4, <1>5, <1>6, FS_Subset, FS_CardinalityType
  <1>8. Cardinality(after) <= failures'
    BY <1>6, <1>7 DEF AbandonedInv, TypeOK
  <1>9. QED
    BY <1>1, <1>4, <1>7, <1>8 DEF AbandonedInv

\* A call that creates a file is the one that is going to give it a version.
LEMMA FileCreated ==
    ASSUME TypeOK, TypeOK', AbandonedInv, NEW c \in Clients, NEW new,
           client' = [client EXCEPT ![c] = new], new.at = "version", client[c].at # "version",
           files' = files \cup {new.file}, UNCHANGED <<firstVersion, failures>>
    PROVE  AbandonedInv'
  <1>1. /\ client'[c] = new
        /\ \A d \in Clients : d # c => client'[d] = client[d]
        /\ IsFiniteSet(Creating')
    BY OneClient DEF AbandonedInv
  <1>2. ASSUME NEW f \in Abandoned' PROVE f \in Abandoned
    <2>1. c \in Creating'
      BY <1>1 DEF Creating
    <2>2. f # new.file
      BY <1>1, <1>2, <2>1 DEF Abandoned
    <2>3. f \in HalfFiles
      BY <1>2, <2>2 DEF Abandoned, HalfFiles
    <2>4. ASSUME NEW d \in Creating PROVE client[d].file # f
      <3>1. d # c
        BY DEF Creating
      <3>2. d \in Creating' /\ client'[d] = client[d]
        BY <1>1, <3>1 DEF Creating
      <3>3. QED
        BY <1>2, <3>2 DEF Abandoned
    <2>5. QED
      BY <2>3, <2>4 DEF Abandoned
  <1>3. QED
    BY <1>1, <1>2, NoMoreAbandoned

\* Each step of a client keeps the invariant.
LEMMA ClientStepAbandons ==
    ASSUME TypeOK, TypeOK', AbandonedInv, NEW c \in Clients, ClientStep(c)
    PROVE  AbandonedInv'
  <1> DEFINE call == client[c]
  <1>1. ASSUME NEW new, client' = [client EXCEPT ![c] = new], call.at # "version",
               UNCHANGED <<files, firstVersion, failures>>
        PROVE  AbandonedInv'
    BY <1>1, CallLeaves DEF HalfFiles
  <1>2. ASSUME NEW at, GoOn(c, at)
        PROVE  client' = [client EXCEPT ![c] = [call EXCEPT !.at = at]]
    BY <1>2 DEF GoOn
  <1>3. CASE \E s \in Sessions, number \in Numbers, hash \in Chunks : CheckMark(c, s, number, hash)
    BY <1>1, <1>3, CallKinds DEF CheckMark, tables
  <1>4. CASE \E s \in Sessions : StartFinalize(c, s)
    BY <1>1, <1>4, CallKinds DEF StartFinalize, tables
  <1>5. CASE RecordMark(c)
    BY <1>1, <1>5 DEF RecordMark
  <1>6. CASE CountChunks(c)
    BY <1>1, <1>2, <1>6 DEF CountChunks, GiveUp, tables
  <1>7. CASE LoadChunks(c)
    BY <1>1, <1>7 DEF LoadChunks, tables
  <1>8. CASE CompleteSession(c)
    BY <1>1, <1>8 DEF CompleteSession, GiveUp
  <1>9. CASE CallAborts(c)
    BY <1>9, CallFails DEF CallAborts, GiveUp, Failure, tables
  <1>10. CASE CreateFile(c)
    <2>1. CASE call.file \in files
      BY <1>1, <1>10, <2>1 DEF CreateFile, GiveUp
    <2>2. CASE call.file \notin files
      <3>1. PICK new : new = [call EXCEPT !.at = "version"]
        OBVIOUS
      <3>2. IsFinalizeCall(call) /\ call.at = "file"
        BY <1>10, ClientCallType DEF CreateFile, FinalizeStates
      <3>3. new.at = "version" /\ new.file = call.file
        BY <3>1, <3>2 DEF IsFinalizeCall
      <3>4. /\ client' = [client EXCEPT ![c] = new] /\ files' = files \cup {call.file}
            /\ UNCHANGED <<firstVersion, failures>>
        BY <1>2, <1>10, <2>2, <3>1 DEF CreateFile
      <3>5. QED
        BY <3>2, <3>3, <3>4, FileCreated
    <2>3. QED
      BY <2>1, <2>2
  <1>11. CASE CreateFirstVersion(c)
    <2>1. UNCHANGED <<files, failures>> /\ call.at = "version"
      BY <1>11 DEF CreateFirstVersion
    <2>2. CASE call.file \in HalfFiles
      <3>1. PICK new : client' = [client EXCEPT ![c] = new]
        BY <1>2, <1>11, <2>2 DEF CreateFirstVersion, HalfFiles
      <3>2. DOMAIN firstVersion' = DOMAIN firstVersion \cup {call.file}
        BY <1>11, <2>2 DEF CreateFirstVersion, HalfFiles, InsertRow
      <3>3. HalfFiles' \subseteq HalfFiles /\ call.file \notin HalfFiles'
        BY <2>1, <3>2 DEF HalfFiles
      <3>4. QED
        BY <2>1, <3>1, <3>3, CallLeaves
    <2>3. CASE call.file \notin HalfFiles
      <3>1. client' = [client EXCEPT ![c] = Idle] /\ HalfFiles' = HalfFiles
        BY <1>11, <2>1, <2>3 DEF CreateFirstVersion, HalfFiles, GiveUp
      <3>2. QED
        BY <2>1, <2>3, <3>1, CallLeaves
    <2>4. QED
      BY <2>2, <2>3
  <1>12. QED
    BY <1>3, <1>4, <1>5, <1>6, <1>7, <1>8, <1>9, <1>10, <1>11 DEF ClientStep, CallStep, FinalizeStep

\* Cleanups touch no files; other statements abandon none.
LEMMA OtherStepAbandons ==
    ASSUME TypeOK, TypeOK', AbandonedInv,
           \/ \E k \in Cleaners : CleanupStep(k)
           \/ EnvironmentStep
           \/ UNCHANGED vars
    PROVE  AbandonedInv'
  <1>1. ASSUME UNCHANGED <<files, firstVersion, client>>,
               failures' = failures \/ failures' = failures + 1
        PROVE  AbandonedInv'
    <2>1. Creating' = Creating /\ Abandoned' = Abandoned
      BY <1>1 DEF Creating, Abandoned, HalfFiles
    <2>2. QED
      BY <1>1, <2>1, NoMoreAbandoned DEF AbandonedInv
  <1>2. ASSUME NEW k \in Cleaners, CleanupStep(k) PROVE AbandonedInv'
    BY <1>1, <1>2 DEF CleanupStep, CleanStep, ListExpired, ExpireSession, DeleteSession, SkipSession,
       CleanupAborts, Failure, tables
  <1>3. CASE EnvironmentStep
    <2>1. CASE \E s \in Sessions, f \in Files, total \in Totals : CreateSession(s, f, total)
      BY <1>1, <2>1 DEF CreateSession
    <2>2. CASE \E s \in Sessions : Expire(s)
      BY <1>1, <2>2 DEF Expire
    <2>3. ASSUME NEW f \in Files, DeleteFile(f) PROVE AbandonedInv'
      <3>1. /\ files' = files \ {f} /\ DOMAIN firstVersion' = DOMAIN firstVersion \ {f}
            /\ UNCHANGED <<client, failures>>
        BY <2>3 DEF DeleteFile, DeleteRows
      <3>2. Creating' = Creating /\ Abandoned' \subseteq Abandoned
        BY <3>1 DEF Creating, Abandoned, HalfFiles
      <3>3. QED
        BY <3>1, <3>2, NoMoreAbandoned DEF AbandonedInv
    <2>4. QED
      BY <1>3, <2>1, <2>2, <2>3 DEF EnvironmentStep
  <1>4. CASE UNCHANGED vars
    BY <1>1, <1>4 DEF vars, tables
  <1>5. QED
    BY <1>2, <1>3, <1>4

\* The half files are the abandoned ones and those of calls in flight.
LEMMA HalfFilesCounted ==
    ASSUME TypeOK, AbandonedInv
    PROVE  HalfFilesFromFailures
  <1> DEFINE awaited == {client[c].file : c \in Creating}
             fileOf == [c \in Creating |-> client[c].file]
  <1>1. fileOf \in Surjection(Creating, awaited)
    BY DEF Surjection
  <1>2. IsFiniteSet(awaited) /\ Cardinality(awaited) <= Cardinality(Creating)
    BY <1>1, FS_Surjection DEF AbandonedInv
  <1>3. HalfFiles \subseteq Abandoned \cup awaited
    BY DEF Abandoned
  <1> HIDE DEF awaited
  <1>4. /\ IsFiniteSet(Abandoned \cup awaited)
        /\ Cardinality(Abandoned \cup awaited)
               = Cardinality(Abandoned) + Cardinality(awaited) - Cardinality(Abandoned \cap awaited)
    BY <1>2, FS_Union DEF AbandonedInv
  <1>5. Cardinality(HalfFiles) <= Cardinality(Abandoned \cup awaited) /\ IsFiniteSet(HalfFiles)
    BY <1>3, <1>4, FS_Subset
  <1>6. IsFiniteSet(Abandoned \cap awaited)
    BY <1>2, FS_Subset
  <1>7. /\ Cardinality(HalfFiles) \in Nat /\ Cardinality(Abandoned) \in Nat
        /\ Cardinality(awaited) \in Nat /\ Cardinality(Abandoned \cap awaited) \in Nat
        /\ Cardinality(Abandoned \cup awaited) \in Nat /\ Cardinality(Creating) \in Nat
    BY <1>2, <1>4, <1>5, <1>6, FS_CardinalityType DEF AbandonedInv
  <1>8. Cardinality(HalfFiles) <= failures + Cardinality(Creating)
    BY <1>2, <1>4, <1>5, <1>7 DEF AbandonedInv, TypeOK
  <1>9. QED
    BY <1>8 DEF HalfFilesFromFailures, HalfFiles, Creating

\* A failure leaves at most one file without a version, whatever calls race,
\* files are deleted or sessions expire; the others are those of calls that
\* are about to create the version.
THEOREM HalfFilesAreCounted == Spec => []HalfFilesFromFailures
  <1>1. Init => AbandonedInv
    <2> SUFFICES ASSUME Init PROVE AbandonedInv
      OBVIOUS
    <2>1. Creating = {} /\ Abandoned = {}
      BY DEF Init, Creating, Abandoned, HalfFiles, Idle
    <2>2. QED
      BY <2>1, FS_EmptySet DEF AbandonedInv, Init
  <1>2. TypeOK /\ TypeOK' /\ AbandonedInv /\ [Next]_vars => AbandonedInv'
    BY ClientStepAbandons, OtherStepAbandons DEF Next
  <1>3. TypeOK /\ AbandonedInv => HalfFilesFromFailures
    BY HalfFilesCounted
  <1>4. QED
    BY <1>1, <1>2, <1>3, UploadTypeCorrect, PTL DEF Spec
=============================================================================
