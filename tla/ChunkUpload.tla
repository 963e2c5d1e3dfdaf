---------------------------- MODULE ChunkUpload -----------------------------
(***************************************************************************)
(* Clients that call one storage node through a circuit breaker, with      *)
(* retries.  Connections break before or after the node has handled a      *)
(* request, so a retry may repeat what was done already.                   *)
(***************************************************************************)
EXTENDS CircuitBreaker, ChunkServer

VARIABLES
    request,         \* request[c]: the request of c's call and its answer
    promised         \* history, see Serve

vars == <<breakerVars, call, serverVars, request, promised>>

Methods == {"put", "get", "verify", "delete"}
NoRequest == [method |-> "none"]
Answers == {"ok", "error"}

TypeOK ==
    /\ BreakerTypeOK
    /\ ServerTypeOK
    /\ request \in [Callers -> {NoRequest} \cup
           [method : Methods, chunk : Chunks, answer : Answers \cup {"none"}]]
    /\ promised \subseteq Chunks

Init ==
    /\ BreakerInit
    /\ ServerInit
    /\ request = [c \in Callers |-> NoRequest]
    /\ promised = {}

\* The request of c is on its way, or its answer is.
Sent(c) == call[c].at = "operation" /\ request[c].answer = "none"
Answered(c) == call[c].at = "operation" /\ request[c].answer # "none"

\* The first attempt of a call, or a retry of its request.
Attempt(c, method, h) ==
    /\ call[c] # Idle => request[c].method = method /\ request[c].chunk = h
    /\ Reject(c) \/ LetThrough(c)
    /\ request' = [request EXCEPT ![c] =
           IF call'[c] = Idle THEN NoRequest
           ELSE [method |-> method, chunk |-> h, answer |-> "none"]]
    /\ UNCHANGED <<serverVars, promised>>

\* What the node has acknowledged to store it owes until it removes it.
Promises(method, h, answer) ==
    promised' = CASE method = "put" /\ answer = "ok" -> promised \cup {h}
                  [] method = "delete" /\ disk'[h] = "none" -> promised \ {h}
                  [] OTHER -> promised

\* The node handles a request; the body of a PUT may arrive mutilated.
Serve(c) ==
    LET h == request[c].chunk
        method == request[c].method
    IN  /\ Sent(c)
        /\ \E answer \in Answers :
              /\ \/ method = "put" /\ \E intact \in BOOLEAN : WriteChunk(h, intact, answer)
                 \/ method = "get" /\ ReadChunk(h, answer)
                 \/ method = "verify" /\ VerifyChunk(h, answer)
                 \/ method = "delete" /\ RemoveChunk(h, answer)
              /\ request' = [request EXCEPT ![c].answer = answer]
              /\ Promises(method, h, answer)
        /\ UNCHANGED <<breakerVars, call>>

\* The connection breaks, before or after the request was handled.
Disconnect(c) ==
    /\ call[c].at = "operation"
    /\ request[c].answer # "error"
    /\ request' = [request EXCEPT ![c].answer = "error"]
    /\ UNCHANGED <<breakerVars, call, serverVars, promised>>

\* The node restarts, maybe while it was writing a chunk, and all connections
\* break.
Writing(h) == \E c \in Callers : Sent(c) /\ request[c].method = "put" /\ request[c].chunk = h
NodeRestarts ==
    /\ \E h \in Chunks : Crash(h, Writing(h))
    /\ request' = [c \in Callers |->
           IF call[c].at = "operation" THEN [request[c] EXCEPT !.answer = "error"] ELSE request[c]]
    /\ UNCHANGED <<breakerVars, call, promised>>

\* The answer reaches the breaker and withRetry.
Report(c) ==
    /\ Answered(c)
    /\ IF request[c].answer = "ok" THEN Succeed(c) ELSE Fail(c)
    /\ request' = [request EXCEPT ![c] = IF call'[c] = Idle THEN NoRequest ELSE @]
    /\ UNCHANGED <<serverVars, promised>>

TimePasses == Tick /\ UNCHANGED <<serverVars, request, promised>>

DiskDecays ==
    /\ \E h \in Chunks : Decay(h)
    /\ UNCHANGED <<breakerVars, call, request, promised>>

CallGoesOn(c) ==
    \/ call[c] # Idle /\ \E method \in Methods, h \in Chunks : Attempt(c, method, h)
    \/ Serve(c)
    \/ Report(c)

Next ==
    \/ \E c \in Callers :
          \/ \E method \in Methods, h \in Chunks : Attempt(c, method, h)
          \/ Serve(c) \/ Report(c) \/ Disconnect(c)
    \/ NodeRestarts
    \/ TimePasses
    \/ DiskDecays

Spec == Init /\ [][Next]_vars

\* Timers run, and a call that has begun goes on: the node handles what it
\* gets, its answers arrive, and a caller that slept wakes up.
FairSpec == Spec /\ WF_vars(TimePasses) /\ \A c \in Callers : WF_vars(CallGoesOn(c))

-----------------------------------------------------------------------------
(* Properties *)

\* What the node has acknowledged to store, if only to a repeated PUT, is
\* there until it is deleted, and has its hash unless the file was torn or
\* has decayed: a torn file is what a retry takes for a stored chunk.
PromisesKept ==
    \A h \in promised : disk[h] # "none" /\ (h \notin damaged => disk[h] = "good")

\* Once the failures in a row have reached the threshold, no request reaches
\* the node before the timeout since the last one has passed.
OpenRests ==
    [][\A c \in Callers :
           LetThrough(c) => failureCount < Threshold \/ sinceFailure = ResetTimeout]_vars

\* withRetry returns or throws in the end, whatever the node does.
RetriesEnd == \A c \in Callers : call[c] # Idle ~> call[c] = Idle

\* If calls keep coming and stop to fail, an open breaker closes.
CallsComeIn == []<><<\E c \in Callers : Reject(c) \/ LetThrough(c)>>_vars
FailuresStop == <>[][\A c \in Callers : ~ Fail(c)]_vars
Recovers == CallsComeIn /\ FailuresStop => (state = "open" ~> state = "closed")
=============================================================================
