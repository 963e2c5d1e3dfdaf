--------------------------- MODULE CircuitBreaker ---------------------------
(***************************************************************************)
(* withRetry around CircuitBreaker.execute, for callers that share a       *)
(* breaker.  Code between two awaits is one step: an operation begins, it  *)
(* settles, a sleep ends.  The clock ticks in between.                     *)
(***************************************************************************)
EXTENDS Naturals

CONSTANTS
    Callers,
    Threshold,       \* failureThreshold
    ResetTimeout,    \* resetTimeoutMs, in ticks
    MaxAttempts,     \* maxAttempts
    InitialDelay,    \* initialDelayMs, in ticks
    Multiplier       \* backoffMultiplier

ASSUME BreakerAssumption ==
    /\ Threshold \in Nat \ {0}
    /\ ResetTimeout \in Nat
    /\ MaxAttempts \in Nat \ {0}

VARIABLES
    state,           \* state
    failureCount,    \* failureCount, see MaxFailureCount
    sinceFailure,    \* Date.now() - lastFailureTime, at most ResetTimeout
    call             \* what each caller's withRetry does next

breakerVars == <<state, failureCount, sinceFailure>>

\* Bound of failureCount: the code asks only if it reaches the threshold.
MaxFailureCount == Threshold + 1

Idle == [at |-> "idle"]

\* initialDelayMs * backoffMultiplier^(attempt - 1)
Delay(attempt) == InitialDelay * Multiplier ^ (attempt - 1)

ASSUME DelayAssumption == \A attempt \in 1..MaxAttempts : Delay(attempt) \in Nat

BreakerTypeOK ==
    /\ state \in {"closed", "open", "half-open"}
    /\ failureCount \in 0..MaxFailureCount
    /\ sinceFailure \in 0..ResetTimeout
    /\ call \in [Callers -> {Idle} \cup [at : {"operation"}, attempt : 1..MaxAttempts]
                                   \cup [at : {"sleep"}, attempt : 1..MaxAttempts, wait : Nat]]

BreakerInit ==
    /\ state = "closed"
    /\ failureCount = 0
    /\ sinceFailure = ResetTimeout
    /\ call = [c \in Callers |-> Idle]

\* A call begins its first attempt, or wakes up for the next one.
Due(c) == call[c] = Idle \/ (call[c].at = "sleep" /\ call[c].wait = 0)

\* Mutant of NextAttempt: the loop forgets to count.
SameAttempt(c) == IF call[c] = Idle THEN 1 ELSE call[c].attempt

NextAttempt(c) == IF call[c] = Idle THEN 1 ELSE call[c].attempt + 1

\* Mutant of GiveUpOrSleep: one attempt too many.
GiveUpLate(c, attempt) ==
    call' = [call EXCEPT ![c] =
        IF attempt <= MaxAttempts
        THEN [at |-> "sleep", attempt |-> attempt, wait |-> Delay(attempt)]
        ELSE Idle]

\* The end of an attempt: sleep, or throw the last error.
GiveUpOrSleep(c, attempt) ==
    call' = [call EXCEPT ![c] =
        IF attempt < MaxAttempts
        THEN [at |-> "sleep", attempt |-> attempt, wait |-> Delay(attempt)]
        ELSE Idle]

Refuses == state = "open" /\ sinceFailure < ResetTimeout

\* Mutant of Reject: a refused call counts as a failure of the node.
RejectAsFailure(c) ==
    /\ Due(c)
    /\ Refuses
    /\ GiveUpOrSleep(c, NextAttempt(c))
    /\ sinceFailure' = 0
    /\ UNCHANGED <<state, failureCount>>

\* An open breaker throws; for withRetry this is a failed attempt.
Reject(c) ==
    /\ Due(c)
    /\ Refuses
    /\ GiveUpOrSleep(c, NextAttempt(c))
    /\ UNCHANGED breakerVars

\* The operation is called; the first to come after the timeout half-opens.
LetThrough(c) ==
    /\ Due(c)
    /\ ~ Refuses
    /\ state' = IF state = "open" THEN "half-open" ELSE state
    /\ call' = [call EXCEPT ![c] = [at |-> "operation", attempt |-> NextAttempt(c)]]
    /\ UNCHANGED <<failureCount, sinceFailure>>

\* onSuccess, in whatever state the breaker is by now.
Succeed(c) ==
    /\ call[c].at = "operation"
    /\ failureCount' = 0
    /\ state' = "closed"
    /\ call' = [call EXCEPT ![c] = Idle]
    /\ UNCHANGED sinceFailure

\* Mutant of Opens: only the failure that reaches the threshold opens.
OpensOnce(count) == count = Threshold

Opens(count) == count >= Threshold

\* onFailure
Fail(c) ==
    LET count == IF failureCount < MaxFailureCount THEN failureCount + 1 ELSE failureCount IN
    /\ call[c].at = "operation"
    /\ failureCount' = count
    /\ sinceFailure' = 0
    /\ state' = IF Opens(count) THEN "open" ELSE state
    /\ GiveUpOrSleep(c, call[c].attempt)

\* Time passes for the sleeping calls and the breaker.
Tick ==
    /\ sinceFailure' = IF sinceFailure < ResetTimeout THEN sinceFailure + 1 ELSE sinceFailure
    /\ call' = [c \in Callers |->
           IF call[c].at = "sleep" /\ call[c].wait > 0
           THEN [call[c] EXCEPT !.wait = @ - 1]
           ELSE call[c]]
    /\ UNCHANGED <<state, failureCount>>
=============================================================================
