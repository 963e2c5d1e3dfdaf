--------------------------- MODULE UploadManager ----------------------------
(***************************************************************************)
(* Upload sessions: createSession, markChunkUploaded, finalizeUpload and   *)
(* cleanupExpiredSessions of the upload manager, with the session, chunk,  *)
(* file and version tables they use.  None of them runs in a transaction,  *)
(* so each awaited store call is a step and calls interleave.              *)
(*                                                                         *)
(* Time is one fact per session: expiresAt has passed.  The list of hashes *)
(* that finalizeUpload builds by sorting the uploaded rows is kept as the  *)
(* table of those rows, so that a missing chunk shows as a missing number. *)
(***************************************************************************)
EXTENDS Integers, FiniteSets, Tables

CONSTANTS
    Sessions,        \* session ids, each a fresh random UUID
    Files,           \* file ids that clients upload to
    Chunks,          \* content hashes
    Totals,          \* numbers of chunks that createSession is called with
    Clients,         \* callers of the upload manager
    Cleaners,        \* runs of cleanupExpiredSessions
    DeletableFiles,  \* files that the DELETE route may be called for
    MaxFailures      \* bound on store calls that are rejected and calls that die

ASSUME TotalsAssumption == Totals \subseteq Nat
ASSUME UploadBoundAssumption == MaxFailures \in Nat

VARIABLES
    sessions,        \* table upload_sessions: id -> [file, total, status]
    uploaded,        \* uploaded[s]: rows of uploaded_chunks, number -> hash
    pastExpiry,      \* sessions whose expiresAt has passed
    files,           \* ids of the rows of table files
    firstVersion,    \* rows of file_versions with version 1, by file
    client,          \* the call each client is executing
    cleaner,         \* the cleanup each cleaner is executing
    failures         \* rejected store calls and ended calls so far

tables == <<sessions, uploaded, pastExpiry, files, firstVersion>>
vars == <<sessions, uploaded, pastExpiry, files, firstVersion, client, cleaner, failures>>

SessionRow == [file : Files, total : Totals, status : {"active", "completed", "expired"}]

\* Chunk rows of a session or of a version.
IsContent(content) == IsTable(content, Nat, Chunks)

\* `session` and `total` of a version row are history: the upload it is from.
IsVersionRow(row) ==
    /\ row \in [content : {row.content}, session : Sessions, total : Totals]
    /\ IsContent(row.content)

\* Sequence numbers that clients send, one of them out of range.
Numbers == UNION {0..total : total \in Totals}

Idle == [at |-> "idle"]

\* `at` is what the next awaited store call of the call does.
MarkCall == [at : {"mark"}, session : Sessions, number : Nat, hash : Chunks]
IsFinalizeCall(call) ==
    /\ call \in [at : {"count", "load", "file", "version", "complete"}, session : Sessions,
                 file : Files, total : Totals, content : {call.content}]
    /\ IsContent(call.content)
CleanCall == [at : {"expire"}, todo : SUBSET Sessions]
             \cup [at : {"delete"}, todo : SUBSET Sessions, session : Sessions]

TypeOK ==
    /\ IsTable(sessions, Sessions, SessionRow)
    /\ uploaded = [s \in Sessions |-> uploaded[s]]
    /\ \A s \in Sessions : IsContent(uploaded[s])
    /\ pastExpiry \subseteq Sessions
    /\ files \subseteq Files
    /\ firstVersion = [f \in DOMAIN firstVersion |-> firstVersion[f]]
    /\ DOMAIN firstVersion \subseteq files
    /\ \A f \in DOMAIN firstVersion : IsVersionRow(firstVersion[f])
    /\ client = [c \in Clients |-> client[c]]
    /\ \A c \in Clients : \/ client[c] \in {Idle} \cup MarkCall
                          \/ IsFinalizeCall(client[c])
    /\ cleaner \in [Cleaners -> {Idle} \cup CleanCall]
    /\ failures \in 0..MaxFailures

Init ==
    /\ sessions = EmptyTable
    /\ uploaded = [s \in Sessions |-> EmptyTable]
    /\ pastExpiry = {}
    /\ files = {}
    /\ firstVersion = EmptyTable
    /\ client = [c \in Clients |-> Idle]
    /\ cleaner = [k \in Cleaners |-> Idle]
    /\ failures = 0

\* A store call is rejected, or the process that makes the call ends.
Failure == failures < MaxFailures /\ failures' = failures + 1

-----------------------------------------------------------------------------
(* Table statements and tests *)

Exists(s) == s \in DOMAIN sessions

\* Mutant of SetStatus: a row that is gone is inserted again.
UpsertStatus(s, status) ==
    sessions' = IF Exists(s) THEN [sessions EXCEPT ![s].status = status]
                ELSE InsertRow(sessions, s, [status |-> status])

\* UPDATE upload_sessions SET status: nothing happens if the row is gone.
SetStatus(s, status) ==
    sessions' = IF Exists(s) THEN [sessions EXCEPT ![s].status = status] ELSE sessions

\* What markChunkUploaded demands of the session and the sequence number.
MayMark(s, number) ==
    /\ Exists(s)
    /\ sessions[s].status = "active"
    /\ s \notin pastExpiry
    /\ number < sessions[s].total

\* Mutant of RecordsChunk: a repeated number overwrites the row.
ReplacesChunk(s, number) == Exists(s)

\* INSERT INTO uploaded_chunks ... ON CONFLICT DO NOTHING, foreign key.
RecordsChunk(s, number) == Exists(s) /\ number \notin DOMAIN uploaded[s]

\* Mutants of CountMatches: the last chunk may lack; one more is asked for.
CountNearlyMatches(s, total) == Cardinality(DOMAIN uploaded[s]) >= total - 1
CountExceeds(s, total) == Cardinality(DOMAIN uploaded[s]) > total

\* uploadedChunkRecords.length === sessionRecord.totalChunks
CountMatches(s, total) == Cardinality(DOMAIN uploaded[s]) = total

\* Mutant of ExpiredSessions: the wrong status is selected.
SessionsMarkedExpired ==
    {s \in DOMAIN sessions : s \in pastExpiry /\ sessions[s].status = "expired"}

\* getExpiredSessions
ExpiredSessions == {s \in DOMAIN sessions : s \in pastExpiry /\ sessions[s].status = "active"}

-----------------------------------------------------------------------------
(* createSession and markChunkUploaded *)

\* A session id is used once; only expired sessions are ever deleted.
CreateSession(s, f, total) ==
    /\ ~ Exists(s)
    /\ s \notin pastExpiry
    /\ sessions' = InsertRow(sessions, s, [file |-> f, total |-> total, status |-> "active"])
    /\ UNCHANGED <<uploaded, pastExpiry, files, firstVersion, client, cleaner, failures>>

CheckMark(c, s, number, hash) ==
    /\ client[c] = Idle
    /\ MayMark(s, number)
    /\ client' = [client EXCEPT ![c] =
           [at |-> "mark", session |-> s, number |-> number, hash |-> hash]]
    /\ UNCHANGED <<tables, cleaner, failures>>

\* The insert, which a deleted session makes fail.
RecordMark(c) ==
    LET call == client[c] IN
    /\ call.at = "mark"
    /\ uploaded' = IF RecordsChunk(call.session, call.number)
                   THEN [uploaded EXCEPT ![call.session] =
                            InsertRow(@, call.number, call.hash)]
                   ELSE uploaded
    /\ client' = [client EXCEPT ![c] = Idle]
    /\ UNCHANGED <<sessions, pastExpiry, files, firstVersion, cleaner, failures>>

-----------------------------------------------------------------------------
(* finalizeUpload *)

\* The call goes on with the next store call, or is over.
GoOn(c, at) == client' = [client EXCEPT ![c].at = at]
GiveUp(c) == client' = [client EXCEPT ![c] = Idle]

\* getUploadSession, in finalizeUpload and again in isUploadComplete; neither
\* the status nor the expiry is tested.
StartFinalize(c, s) ==
    /\ client[c] = Idle
    /\ Exists(s)
    /\ client' = [client EXCEPT ![c] =
           [at |-> "count", session |-> s, file |-> sessions[s].file,
            total |-> sessions[s].total, content |-> EmptyTable]]
    /\ UNCHANGED <<tables, cleaner, failures>>

\* getUploadedChunks in isUploadComplete.
CountChunks(c) ==
    /\ client[c].at = "count"
    /\ IF CountMatches(client[c].session, client[c].total)
       THEN GoOn(c, "load") ELSE GiveUp(c)
    /\ UNCHANGED <<tables, cleaner, failures>>

\* getUploadedChunks again, for the content.
LoadChunks(c) ==
    LET call == client[c] IN
    /\ call.at = "load"
    /\ client' = [client EXCEPT ![c] =
           [at |-> "file", session |-> call.session, file |-> call.file,
            total |-> call.total, content |-> uploaded[call.session]]]
    /\ UNCHANGED <<tables, cleaner, failures>>

\* Mutant of CreateFile: a file that exists is taken for this call's own work.
CreateFileOnce(c) ==
    LET call == client[c] IN
    /\ call.at = "file"
    /\ IF call.file \in files
       THEN GoOn(c, "complete") /\ UNCHANGED files
       ELSE GoOn(c, "version") /\ files' = files \cup {call.file}
    /\ UNCHANGED <<sessions, uploaded, pastExpiry, firstVersion, cleaner, failures>>

\* createFile; a file with that id makes it fail.
CreateFile(c) ==
    LET call == client[c] IN
    /\ call.at = "file"
    /\ IF call.file \in files
       THEN GiveUp(c) /\ UNCHANGED files
       ELSE GoOn(c, "version") /\ files' = files \cup {call.file}
    /\ UNCHANGED <<sessions, uploaded, pastExpiry, firstVersion, cleaner, failures>>

\* Mutant of CreateFirstVersion: an upload without chunks gets no version.
CreateVersionOfChunks(c) ==
    LET call == client[c] IN
    /\ call.at = "version"
    /\ IF call.file \in files \ DOMAIN firstVersion /\ call.content # EmptyTable
       THEN /\ GoOn(c, "complete")
            /\ firstVersion' = InsertRow(firstVersion, call.file,
                   [content |-> call.content, session |-> call.session, total |-> call.total])
       ELSE GiveUp(c) /\ UNCHANGED firstVersion
    /\ UNCHANGED <<sessions, uploaded, pastExpiry, files, cleaner, failures>>

\* createFileVersion; it fails if the file is gone or has a version 1.
CreateFirstVersion(c) ==
    LET call == client[c] IN
    /\ call.at = "version"
    /\ IF call.file \in files \ DOMAIN firstVersion
       THEN /\ GoOn(c, "complete")
            /\ firstVersion' = InsertRow(firstVersion, call.file,
                   [content |-> call.content, session |-> call.session, total |-> call.total])
       ELSE GiveUp(c) /\ UNCHANGED firstVersion
    /\ UNCHANGED <<sessions, uploaded, pastExpiry, files, cleaner, failures>>

CompleteSession(c) ==
    /\ client[c].at = "complete"
    /\ SetStatus(client[c].session, "completed")
    /\ GiveUp(c)
    /\ UNCHANGED <<uploaded, pastExpiry, files, firstVersion, cleaner, failures>>

\* A rejected store call or the end of the process ends any call.
CallAborts(c) ==
    /\ Failure
    /\ client[c] # Idle
    /\ GiveUp(c)
    /\ UNCHANGED <<tables, cleaner>>

-----------------------------------------------------------------------------
(* cleanupExpiredSessions *)

ListExpired(k) ==
    /\ cleaner[k] = Idle
    /\ ExpiredSessions # {}
    /\ cleaner' = [cleaner EXCEPT ![k] = [at |-> "expire", todo |-> ExpiredSessions]]
    /\ UNCHANGED <<tables, client, failures>>

\* The call goes on with the other sessions, or is over.
NextSession(k, todo) ==
    cleaner' = [cleaner EXCEPT ![k] = IF todo = {} THEN Idle ELSE [at |-> "expire", todo |-> todo]]

ExpireSession(k, s) ==
    /\ cleaner[k].at = "expire"
    /\ s \in cleaner[k].todo
    /\ SetStatus(s, "expired")
    /\ cleaner' = [cleaner EXCEPT ![k] =
           [at |-> "delete", todo |-> cleaner[k].todo \ {s}, session |-> s]]
    /\ UNCHANGED <<uploaded, pastExpiry, files, firstVersion, client, failures>>

\* deleteUploadSession, which cascades to the uploaded chunks.
DeleteSession(k) ==
    LET call == cleaner[k] IN
    /\ call.at = "delete"
    /\ sessions' = DeleteRows(sessions, {call.session})
    /\ uploaded' = [uploaded EXCEPT ![call.session] = EmptyTable]
    /\ NextSession(k, call.todo)
    /\ UNCHANGED <<pastExpiry, files, firstVersion, client, failures>>

\* A rejected update or delete is caught and the next session taken up.
SkipSession(k) ==
    /\ Failure
    /\ \/ /\ cleaner[k].at = "expire"
          /\ \E s \in cleaner[k].todo : NextSession(k, cleaner[k].todo \ {s})
       \/ /\ cleaner[k].at = "delete"
          /\ NextSession(k, cleaner[k].todo)
    /\ UNCHANGED <<tables, client>>

CleanupAborts(k) ==
    /\ Failure
    /\ cleaner[k] # Idle
    /\ cleaner' = [cleaner EXCEPT ![k] = Idle]
    /\ UNCHANGED <<tables, client>>

-----------------------------------------------------------------------------
(* The environment *)

Expire(s) ==
    /\ Exists(s)
    /\ s \notin pastExpiry
    /\ pastExpiry' = pastExpiry \cup {s}
    /\ UNCHANGED <<sessions, uploaded, files, firstVersion, client, cleaner, failures>>

\* deleteFile, which cascades to the versions.
DeleteFile(f) ==
    /\ f \in files \cap DeletableFiles
    /\ files' = files \ {f}
    /\ firstVersion' = DeleteRows(firstVersion, {f})
    /\ UNCHANGED <<sessions, uploaded, pastExpiry, client, cleaner, failures>>

FinalizeStep(c) ==
    \/ CountChunks(c)
    \/ LoadChunks(c)
    \/ CreateFile(c)
    \/ CreateFirstVersion(c)
    \/ CompleteSession(c)

\* A call in flight goes on.
CallStep(c) == RecordMark(c) \/ FinalizeStep(c)

ClientStep(c) ==
    \/ \E s \in Sessions, number \in Numbers, hash \in Chunks : CheckMark(c, s, number, hash)
    \/ \E s \in Sessions : StartFinalize(c, s)
    \/ CallStep(c)
    \/ CallAborts(c)

CleanStep(k) ==
    \/ ListExpired(k)
    \/ \E s \in Sessions : ExpireSession(k, s)
    \/ DeleteSession(k)

CleanupStep(k) ==
    \/ CleanStep(k)
    \/ SkipSession(k)
    \/ CleanupAborts(k)

EnvironmentStep ==
    \/ \E s \in Sessions, f \in Files, total \in Totals : CreateSession(s, f, total)
    \/ \E s \in Sessions : Expire(s)
    \/ \E f \in Files : DeleteFile(f)

Next ==
    \/ \E c \in Clients : ClientStep(c)
    \/ \E k \in Cleaners : CleanupStep(k)
    \/ EnvironmentStep

Spec == Init /\ [][Next]_vars

\* Cleanup runs again and again, and a run that has started goes on.
CleanupFairness == \A k \in Cleaners : WF_vars(CleanStep(k))

\* A client whose session is complete calls finalizeUpload again and again,
\* and a call that has started goes on.
FinalizeFairness ==
    \A c \in Clients : /\ WF_vars(CallStep(c))
                       /\ \A s \in Sessions : SF_vars(StartFinalize(c, s))

FairSpec == Spec /\ CleanupFairness /\ FinalizeFairness

-----------------------------------------------------------------------------
(* Properties *)

\* The chunks of a content are numbered 0, 1, ..., total - 1.
IsComplete(content, total) == DOMAIN content = 0..(total - 1)

\* The first version of a file is never a part of an upload: the count that
\* isUploadComplete compares and the later read of the rows agree, unless the
\* session expired and cleanup removed all rows in between.
NoPartialVersion ==
    \A f \in DOMAIN firstVersion :
        LET row == firstVersion[f] IN
        \/ IsComplete(row.content, row.total)
        \/ row.content = EmptyTable /\ row.session \in pastExpiry

\* Marks that race the finalization change nothing any more: as long as the
\* session exists, its rows are the content of the version made from it.
VersionMatchesSession ==
    \A f \in DOMAIN firstVersion :
        Exists(firstVersion[f].session) =>
            uploaded[firstVersion[f].session] = firstVersion[f].content

\* A session is completed only by the upload that the file is made of, so of
\* all sessions for one file at most one is: the others lose at createFile.
CompletedOwnsFile ==
    \A s \in DOMAIN sessions :
        sessions[s].status = "completed" /\ sessions[s].file \notin DeletableFiles =>
            /\ sessions[s].file \in DOMAIN firstVersion
            /\ firstVersion[sessions[s].file].session = s

\* A file without a version is one that a finalizeUpload is still working on,
\* or that a failure left: createFile and createFileVersion are two
\* statements.  Each failure leaves at most one.
HalfFilesFromFailures ==
    Cardinality(files \ DOMAIN firstVersion)
        <= failures + Cardinality({c \in Clients : client[c].at = "version"})

\* An expired session that was not completed is removed in the end.
ExpiredRemoved ==
    \A s \in Sessions :
        (Exists(s) /\ s \in pastExpiry /\ sessions[s].status # "completed")
        ~> (Exists(s) => sessions[s].status = "completed")

\* A file that all chunks were uploaded for exists with its version in the end.
CompleteUploadsFinish ==
    \A s \in Sessions :
        (Exists(s) /\ IsComplete(uploaded[s], sessions[s].total))
        ~> (~ Exists(s) \/ sessions[s].file \in DOMAIN firstVersion)
=============================================================================
