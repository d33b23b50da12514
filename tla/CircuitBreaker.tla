---------------------------- MODULE CircuitBreaker ----------------------------
(***************************************************************************)
(* The generic circuit breaker of common/resilience.  execute(fn) decides, *)
(* awaits fn, and books its outcome: calls overlap, so outcomes arrive in  *)
(* any order and long after the state that admitted their call is gone.    *)
(***************************************************************************)
EXTENDS Integers

CONSTANTS
    Calls,             \* invocations of execute
    FailureThreshold,  \* options.failureThreshold
    ResetTimeout,      \* options.resetTimeoutMs
    MaxTime,           \* how far the clock runs: a bound
    None

ASSUME BreakerAssumption ==
    /\ FailureThreshold \in Nat \ {0}
    /\ ResetTimeout \in Nat
    /\ MaxTime \in Nat
    /\ None \notin Nat

VARIABLES
    state,                \* CircuitState
    consecutiveFailures,
    openedAt,
    now,                  \* Date.now()
    call                  \* where each invocation of execute is

vars == <<state, consecutiveFailures, openedAt, now, call>>

TypeOK ==
    /\ state \in {"CLOSED", "OPEN", "HALF_OPEN"}
    /\ consecutiveFailures \in Nat
    /\ openedAt \in Nat \cup {None}
    /\ now \in Nat
    /\ call \in [Calls -> {"idle", "running", "refused", "succeeded", "failed"}]

Init ==
    /\ state = "CLOSED"
    /\ consecutiveFailures = 0
    /\ openedAt = None
    /\ now = 0
    /\ call = [c \in Calls |-> "idle"]

-------------------------------------------------------------------------------
\* Mutant of HalfOpened: one tick too late.
HalfOpenedLate ==
    IF state = "OPEN" /\ now - openedAt > ResetTimeout THEN "HALF_OPEN" ELSE state

\* maybeTransitionToHalfOpen: the state after it.
HalfOpened ==
    IF state = "OPEN" /\ openedAt # None /\ now - openedAt >= ResetTimeout
    THEN "HALF_OPEN" ELSE state

\* getState()
GetState ==
    /\ state' = HalfOpened
    /\ UNCHANGED <<consecutiveFailures, openedAt, now, call>>

\* execute() up to its await: admitted, or CircuitBreakerOpenError.
Execute(c) ==
    /\ call[c] = "idle"
    /\ state' = HalfOpened
    /\ call' = [call EXCEPT ![c] = IF HalfOpened = "OPEN" THEN "refused" ELSE "running"]
    /\ UNCHANGED <<consecutiveFailures, openedAt, now>>

OnSuccess ==
    /\ consecutiveFailures' = 0
    /\ state' = "CLOSED"
    /\ openedAt' = None

\* Mutant of OnFailure: it trips one failure late.
OnFailureLate ==
    /\ consecutiveFailures' = consecutiveFailures + 1
    /\ \/ /\ consecutiveFailures' > FailureThreshold
          /\ state' = "OPEN" /\ openedAt' = now
       \/ /\ consecutiveFailures' <= FailureThreshold
          /\ UNCHANGED <<state, openedAt>>

OnFailure ==
    /\ consecutiveFailures' = consecutiveFailures + 1
    /\ \/ /\ consecutiveFailures' >= FailureThreshold
          /\ state' = "OPEN" /\ openedAt' = now
       \/ /\ consecutiveFailures' < FailureThreshold
          /\ UNCHANGED <<state, openedAt>>

\* execute() after its await.
Resolve(c) ==
    /\ call[c] = "running"
    /\ call' = [call EXCEPT ![c] = "succeeded"]
    /\ OnSuccess
    /\ UNCHANGED now

Reject(c) ==
    /\ call[c] = "running"
    /\ call' = [call EXCEPT ![c] = "failed"]
    /\ OnFailure
    /\ UNCHANGED now

Tick ==
    /\ now < MaxTime
    /\ now' = now + 1
    /\ UNCHANGED <<state, consecutiveFailures, openedAt, call>>

Next ==
    \/ GetState \/ Tick
    \/ \E c \in Calls : Execute(c) \/ Resolve(c) \/ Reject(c)

Spec == Init /\ [][Next]_vars

-------------------------------------------------------------------------------
\* The three fields never contradict each other, in whatever order overlapping
\* calls book their outcomes: the circuit is closed exactly while fewer than
\* failureThreshold failures in a row are counted, and only then has it no
\* opening time.
FieldsAgree ==
    /\ (state = "CLOSED") <=> (consecutiveFailures < FailureThreshold)
    /\ (state = "CLOSED") <=> (openedAt = None)

\* A tripped circuit cools down: it is half open only once resetTimeoutMs has
\* passed since the last failure that opened it.
CoolsDown ==
    /\ state = "HALF_OPEN" => now - openedAt >= ResetTimeout
    /\ openedAt # None => openedAt <= now

\* execute refuses a call exactly while the circuit is hot: opened, and opened
\* less than resetTimeoutMs ago.  Late outcomes of older calls, the failures of
\* trial calls and calls of getState never make it refuse longer or admit
\* sooner.
RefusesExactlyWhileHot ==
    [][\A c \in Calls : call[c] = "idle" /\ call'[c] # "idle" =>
          ((call'[c] = "refused") <=>
             (openedAt # None /\ now - openedAt < ResetTimeout))]_vars
===============================================================================
