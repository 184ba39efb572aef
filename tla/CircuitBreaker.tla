--------------------------- MODULE CircuitBreaker ---------------------------
(***************************************************************************)
(* The circuit breaker of challenge20/circuit_breaker.go, with every       *)
(* caller goroutine's path through Call as a sequence of atomic steps:     *)
(*                                                                         *)
(*   idle --Peek--> run            (GetState() under RLock saw non-Open)   *)
(*   idle --Peek--> lock           (GetState() saw Open)                   *)
(*   lock --LockedCheck--> run | idle   (write-locked double check)        *)
(*   run  --Record--> idle         (operation result recorded under Lock)  *)
(*                                                                         *)
(* Each step is one critical section of the code (or the lock-free gap     *)
(* between two), so the RWMutex is the atomicity of these steps. The       *)
(* guarded operation runs between admission and Record, outside any lock:  *)
(* its outcome is chosen when it is recorded.                              *)
(*                                                                         *)
(* Time is the number of ticks since lastStateChange, saturated at         *)
(* Timeout + 1: isReady only compares it with Timeout.                     *)
(* ConsecutiveFailures saturates at TripThreshold + 1 for the same reason: *)
(* ReadyToTrip is the default predicate "ConsecutiveFailures >= N".        *)
(* Requests, Successes, Failures and LastFailureTime are written and never *)
(* read by the breaker under that predicate, and are left out.             *)
(***************************************************************************)
EXTENDS Naturals, FiniteSets

CONSTANTS
    Callers,         \* goroutines calling Call concurrently
    MaxRequestsCfg,  \* Config.MaxRequests as passed to NewCircuitBreaker
    Timeout,         \* Config.Timeout, in ticks
    TripThreshold    \* N of the ReadyToTrip predicate ConsecutiveFailures >= N

ASSUME /\ Callers # {}
       /\ MaxRequestsCfg \in Nat
       /\ Timeout \in Nat \ {0}   \* a zero Timeout is replaced by 30s
       /\ TripThreshold \in Nat \ {0}

Closed   == "Closed"
Open     == "Open"
HalfOpen == "HalfOpen"
States   == {Closed, Open, HalfOpen}

\* What Call returned to a caller the last time it returned.
Results == {"none", "ctxErr", "openErr", "ok", "opErr"}

\* NewCircuitBreaker: a zero MaxRequests becomes 1.
MaxRequests == IF MaxRequestsCfg = 0 THEN 1 ELSE MaxRequestsCfg

CFCap      == TripThreshold + 1
ElapsedCap == Timeout + 1

Breaker == [state: States, consecutiveFailures: 0..CFCap,
            halfOpenRequests: 0..MaxRequests, elapsed: 0..ElapsedCap]

VARIABLES
    cb,      \* the circuitBreakerImpl fields, as a Breaker record
    pc,      \* where each caller is in Call
    ret,     \* what Call last returned to each caller
    \* History variables, read only by properties:
    probe,   \* probe[c]: c was admitted during the current HalfOpen period
    trials   \* callers admitted during the current HalfOpen period

vars == <<cb, pc, ret, probe, trials>>

-----------------------------------------------------------------------------
(* The breaker's internal operations, as functions of the fields.          *)

\* setState: a no-op when the state does not change; otherwise restart the
\* clock, reset halfOpenRequests on Closed and Open and the metrics on Closed.
SetState(b, newState) ==
    IF b.state = newState THEN b
    ELSE [b EXCEPT !.state = newState,
                   !.elapsed = 0,
                   !.halfOpenRequests = IF newState \in {Closed, Open} THEN 0 ELSE @,
                   !.consecutiveFailures = IF newState = Closed THEN 0 ELSE @]

\* shouldTrip with the ReadyToTrip predicate ConsecutiveFailures >= N.
ShouldTrip(b) == b.consecutiveFailures >= TripThreshold

\* isReady: state is Open and lastStateChange + Timeout is before now.
IsReady(b) == b.state = Open /\ b.elapsed > Timeout

\* Fault variant of recordSuccess with halfOpenRequests++ moved out of the
\* "state == HalfOpen" branch: every success counts as a trial.
RecordSuccessCountsAlways(b) ==
    LET b1 == [b EXCEPT !.consecutiveFailures = 0,
                        !.halfOpenRequests = @ + 1]
    IN  IF b.state = HalfOpen /\ b1.halfOpenRequests = MaxRequests
        THEN SetState(b1, Closed)
        ELSE b1

\* recordSuccess
RecordSuccess(b) ==
    LET b1 == [b EXCEPT !.consecutiveFailures = 0,
                        !.halfOpenRequests = IF b.state = HalfOpen THEN @ + 1 ELSE @]
    IN  IF b.state = HalfOpen /\ b1.halfOpenRequests = MaxRequests
        THEN SetState(b1, Closed)
        ELSE b1

\* recordFailure
RecordFailure(b) ==
    LET b1 == [b EXCEPT !.consecutiveFailures =
                            IF @ < CFCap THEN @ + 1 ELSE @]
    IN  IF b.state = Closed /\ ShouldTrip(b1) THEN SetState(b1, Open)
        ELSE IF b.state = HalfOpen THEN SetState(b1, Open)
        ELSE b1

-----------------------------------------------------------------------------
(* History bookkeeping for a step of caller c that leaves the breaker in   *)
(* cb' and admits c when admitted is TRUE.                                 *)
Track(c, admitted) ==
    LET newPeriod == cb'.state # cb.state
        isProbe   == admitted /\ cb'.state = HalfOpen
    IN  /\ probe' = [x \in Callers |->
                        IF x = c THEN isProbe ELSE probe[x] /\ ~newPeriod]
        /\ trials' = (IF newPeriod THEN 0 ELSE trials) + (IF isProbe THEN 1 ELSE 0)

-----------------------------------------------------------------------------
Init ==
    /\ cb = [state |-> Closed, consecutiveFailures |-> 0,
             halfOpenRequests |-> 0, elapsed |-> 0]
    /\ pc = [c \in Callers |-> "idle"]
    /\ ret = [c \in Callers |-> "none"]
    /\ probe = [c \in Callers |-> FALSE]
    /\ trials = 0

\* Call with a context that is already done: return ctx.Err().
CtxDone(c) ==
    /\ pc[c] = "idle"
    /\ ret' = [ret EXCEPT ![c] = "ctxErr"]
    /\ UNCHANGED <<cb, pc, probe, trials>>

\* Call, then canExecute's GetState() under the read lock: admit unless
\* the breaker is Open, in which case go on to the write-locked check.
Peek(c) ==
    /\ pc[c] = "idle"
    /\ UNCHANGED <<cb, ret>>
    /\ IF cb.state # Open
       THEN /\ pc' = [pc EXCEPT ![c] = "run"]
            /\ Track(c, TRUE)
       ELSE /\ pc' = [pc EXCEPT ![c] = "lock"]
            /\ UNCHANGED <<probe, trials>>

\* Fault variant of canExecute without the double check: a caller that saw
\* Open goes straight to isReady once it holds the write lock.
LockedCheckNoRecheck(c) ==
    /\ pc[c] = "lock"
    /\ \/ /\ ~IsReady(cb)
          /\ pc' = [pc EXCEPT ![c] = "idle"]
          /\ ret' = [ret EXCEPT ![c] = "openErr"]
          /\ UNCHANGED <<cb, probe, trials>>
       \/ /\ IsReady(cb)
          /\ cb' = SetState(cb, HalfOpen)
          /\ pc' = [pc EXCEPT ![c] = "run"]
          /\ UNCHANGED ret
          /\ Track(c, TRUE)

\* Fault variant of canExecute that stamps lastStateChange on every
\* rejection, so that each rejected call restarts the Open timeout.
LockedCheckRejectRestartsTimer(c) ==
    /\ pc[c] = "lock"
    /\ \/ /\ cb.state # Open
          /\ pc' = [pc EXCEPT ![c] = "run"]
          /\ UNCHANGED <<cb, ret>>
          /\ Track(c, TRUE)
       \/ /\ cb.state = Open
          /\ ~IsReady(cb)
          /\ cb' = [cb EXCEPT !.elapsed = 0]
          /\ pc' = [pc EXCEPT ![c] = "idle"]
          /\ ret' = [ret EXCEPT ![c] = "openErr"]
          /\ UNCHANGED <<probe, trials>>
       \/ /\ cb.state = Open
          /\ IsReady(cb)
          /\ cb' = SetState(cb, HalfOpen)
          /\ pc' = [pc EXCEPT ![c] = "run"]
          /\ UNCHANGED ret
          /\ Track(c, TRUE)

\* canExecute under the write lock: re-check the state, reject while the
\* timeout has not passed, else move to HalfOpen and admit.
LockedCheck(c) ==
    /\ pc[c] = "lock"
    /\ \/ /\ cb.state # Open
          /\ pc' = [pc EXCEPT ![c] = "run"]
          /\ UNCHANGED <<cb, ret>>
          /\ Track(c, TRUE)
       \/ /\ cb.state = Open
          /\ ~IsReady(cb)
          /\ pc' = [pc EXCEPT ![c] = "idle"]
          /\ ret' = [ret EXCEPT ![c] = "openErr"]
          /\ UNCHANGED <<cb, probe, trials>>
       \/ /\ cb.state = Open
          /\ IsReady(cb)
          /\ cb' = SetState(cb, HalfOpen)
          /\ pc' = [pc EXCEPT ![c] = "run"]
          /\ UNCHANGED ret
          /\ Track(c, TRUE)

\* The operation returns (nil error or not) and Call records the outcome
\* under the write lock, then returns the operation's result.
Record(c) ==
    /\ pc[c] = "run"
    /\ \E ok \in BOOLEAN :
          /\ cb' = IF ok THEN RecordSuccess(cb) ELSE RecordFailure(cb)
          /\ ret' = [ret EXCEPT ![c] = IF ok THEN "ok" ELSE "opErr"]
    /\ pc' = [pc EXCEPT ![c] = "idle"]
    /\ Track(c, FALSE)

\* Time passes (saturated once isReady can no longer change).
Tick ==
    /\ cb.elapsed < ElapsedCap
    /\ cb' = [cb EXCEPT !.elapsed = @ + 1]
    /\ UNCHANGED <<pc, ret, probe, trials>>

Next ==
    \/ Tick
    \/ \E c \in Callers : CtxDone(c) \/ Peek(c) \/ LockedCheck(c) \/ Record(c)

(***************************************************************************)
(* Fairness. Time passes (Tick); a goroutine inside Call keeps running,    *)
(* as nothing in Call blocks except on a lock that is released at once     *)
(* (LockedCheck, Record); and every caller keeps calling (Peek): the       *)
(* workload of a breaker guarding a dependency that is in use. Giving up   *)
(* on a done context (CtxDone) is not assumed.                             *)
(***************************************************************************)
Fairness ==
    /\ WF_vars(Tick)
    /\ \A c \in Callers : WF_vars(Peek(c)) /\ WF_vars(LockedCheck(c)) /\ WF_vars(Record(c))

Spec == Init /\ [][Next]_vars /\ Fairness

-----------------------------------------------------------------------------
TypeOK ==
    /\ cb \in Breaker
    /\ pc \in [Callers -> {"idle", "lock", "run"}]
    /\ ret \in [Callers -> Results]
    /\ probe \in [Callers -> BOOLEAN]
    /\ trials \in Nat

-----------------------------------------------------------------------------
(***************************************************************************)
(* Refinement: the detailed breaker implements CircuitBreakerSpec, in      *)
(* which admission and recording are atomic. A caller is admitted in the   *)
(* spec when it reaches "run"; a peek that sees Open, and the wait for the *)
(* write lock, are stuttering steps of the spec.                           *)
(***************************************************************************)
Abstract == INSTANCE CircuitBreakerSpec
    WITH state          <- cb.state,
         failures       <- cb.consecutiveFailures,
         trialSuccesses <- cb.halfOpenRequests,
         elapsed        <- cb.elapsed,
         admitted       <- {c \in Callers : pc[c] = "run"},
         MaxRequests    <- MaxRequests

\* The read-locked peek followed by the write-locked re-check in canExecute
\* decides admission as if it were one atomic step on the current state:
\* no caller is rejected once another caller has half-opened the breaker,
\* none is admitted into Open before Timeout has passed, and every recorded
\* outcome moves the breaker exactly as the transition table says.
ImplementsSpec == Abstract!Spec

\* The breaker never stays out of Closed for good: an Open breaker reaches
\* HalfOpen (the first caller after the timeout half-opens it in
\* canExecute), and a HalfOpen breaker leaves HalfOpen (its probes' outcomes
\* close or reopen it in recordSuccess / recordFailure).
Recovers ==
    /\ cb.state = Open ~> cb.state = HalfOpen
    /\ cb.state = HalfOpen ~> cb.state # HalfOpen

\* The comment in canExecute: "At no time, the CB will receive more than n
\* requests in the half-open state" (n = MaxRequests): no more than
\* MaxRequests callers are admitted during one HalfOpen period.
HalfOpenAdmissionCap == trials <= MaxRequests

\* The spec's transition table: HalfOpen goes to Closed when the *trial*
\* successes reach MaxRequests, i.e. the success that closes the breaker is
\* that of a call admitted during the HalfOpen period (a probe).
ProbeOnlyClose ==
    [][\A c \in Callers :
          (/\ pc[c] = "run" /\ pc'[c] = "idle"
           /\ cb.state = HalfOpen /\ cb'.state = Closed) => probe[c]]_vars


=============================================================================
