------------------------- MODULE CircuitBreakerSpec -------------------------
(***************************************************************************)
(* What the circuit breaker promises its callers: the transition table of  *)
(* the breaker with each admission decision and each outcome recording     *)
(* taken as one indivisible step. A call is admitted when the breaker is   *)
(* not Open, or is Open with its timeout elapsed (then it half-opens);     *)
(* otherwise it is rejected. An admitted call later completes, with        *)
(* success or failure, and its outcome drives the table:                   *)
(*                                                                         *)
(*   Closed   failure, ReadyToTrip        -> Open                          *)
(*   HalfOpen failure                     -> Open                          *)
(*   HalfOpen success, trial budget used  -> Closed (counters reset)       *)
(*   otherwise                            -> no transition                 *)
(*                                                                         *)
(* CircuitBreaker, which splits admission into a read-locked peek and a    *)
(* write-locked re-check, is checked to implement this module.             *)
(***************************************************************************)
EXTENDS Naturals

CONSTANTS Callers, MaxRequests, Timeout, TripThreshold

VARIABLES
    state,           \* Closed, Open or HalfOpen
    failures,        \* consecutive failures, saturated at TripThreshold + 1
    trialSuccesses,  \* successes recorded in the current HalfOpen period
    elapsed,         \* ticks since the last transition, saturated at Timeout + 1
    admitted,        \* callers whose operation has been admitted and not recorded
    ret              \* what Call last returned to each caller

vars == <<state, failures, trialSuccesses, elapsed, admitted, ret>>

\* A transition to s: restart the clock; leaving for Closed or Open drops
\* the trial count, and Closed starts a fresh failure count.
Enter(s) ==
    /\ state' = s
    /\ elapsed' = 0
    /\ trialSuccesses' = IF s = "HalfOpen" THEN trialSuccesses ELSE 0

Ready == elapsed > Timeout

Init ==
    /\ state = "Closed"
    /\ failures = 0
    /\ trialSuccesses = 0
    /\ elapsed = 0
    /\ admitted = {}
    /\ ret = [c \in Callers |-> "none"]

CtxDone(c) ==
    /\ c \notin admitted
    /\ ret' = [ret EXCEPT ![c] = "ctxErr"]
    /\ UNCHANGED <<state, failures, trialSuccesses, elapsed, admitted>>

Admit(c) ==
    /\ c \notin admitted
    /\ state = "Open" => Ready
    /\ admitted' = admitted \cup {c}
    /\ IF state = "Open" THEN Enter("HalfOpen")
                         ELSE UNCHANGED <<state, elapsed, trialSuccesses>>
    /\ UNCHANGED <<failures, ret>>

Reject(c) ==
    /\ c \notin admitted
    /\ state = "Open"
    /\ ~Ready
    /\ ret' = [ret EXCEPT ![c] = "openErr"]
    /\ UNCHANGED <<state, failures, trialSuccesses, elapsed, admitted>>

Succeed(c) ==
    /\ c \in admitted
    /\ admitted' = admitted \ {c}
    /\ ret' = [ret EXCEPT ![c] = "ok"]
    /\ failures' = 0
    /\ CASE state = "HalfOpen" /\ trialSuccesses + 1 = MaxRequests ->
                Enter("Closed")
         [] state = "HalfOpen" ->
                /\ trialSuccesses' = trialSuccesses + 1
                /\ UNCHANGED <<state, elapsed>>
         [] OTHER ->
                UNCHANGED <<state, elapsed, trialSuccesses>>

Fail(c) ==
    LET more == IF failures <= TripThreshold THEN failures + 1 ELSE failures
    IN  /\ c \in admitted
        /\ admitted' = admitted \ {c}
        /\ ret' = [ret EXCEPT ![c] = "opErr"]
        /\ failures' = more
        /\ IF \/ state = "Closed" /\ more >= TripThreshold
              \/ state = "HalfOpen"
           THEN Enter("Open")
           ELSE UNCHANGED <<state, elapsed, trialSuccesses>>

Tick ==
    /\ elapsed <= Timeout
    /\ elapsed' = elapsed + 1
    /\ UNCHANGED <<state, failures, trialSuccesses, admitted, ret>>

Next ==
    \/ Tick
    \/ \E c \in Callers :
          CtxDone(c) \/ Admit(c) \/ Reject(c) \/ Succeed(c) \/ Fail(c)

Spec == Init /\ [][Next]_vars

=============================================================================
