---------------------------- MODULE ServiceCalls ----------------------------
(* The protected calls of Commande to one dependency: a bulkhead around the   *)
(* circuit breaker around the retries, each attempt bounded by a timeout.     *)
(* Time advances in ticks, which bound attempts and pauses.                  *)
EXTENDS CircuitBreaker, FiniteSets

CONSTANTS
    Threads,         \* threads that make calls
    MaxConcurrent,   \* slots of the bulkhead
    MaxAttempts,     \* MAX_ATTEMPTS
    Timeout,         \* longest attempt, in ticks
    Backoff,         \* longest pause between attempts, in ticks
    Rejections       \* whether the dependency may answer a 4xx that is no verdict

ASSUME ThreadsAssumption == IsFiniteSet(Threads) /\ MaxConcurrent \in Nat
ASSUME AttemptsAssumption == MaxAttempts \in Nat \ {0}
ASSUME RejectionsAssumption == Rejections \in BOOLEAN

\* A call ends before a circuit that opened meanwhile tries again: 3 attempts of about
\* 0.5 s to connect, 1 s to write and 1 s to read, with pauses of 0.6 s in all, for a
\* rest of 15 s. (The read timeout bounds each read: answers that come in one are short.)
ASSUME DurationAssumption ==
    /\ Timeout \in Nat \ {0} /\ Backoff \in Nat
    /\ MaxAttempts * Timeout + (MaxAttempts - 1) * Backoff < ResetTimeout

VARIABLES
    slots,           \* slots left in the bulkhead
    call             \* call[t]: where the call of thread t stands

vars == <<breaker, slots, call>>

Idle == [at |-> "idle", n |-> 0, left |-> 0, probe |-> FALSE]
At(t, place) == call[t].at = place
Goes(t, place) == call' = [call EXCEPT ![t].at = place, ![t].left = 0]

Init ==
    /\ BreakerInit
    /\ slots = MaxConcurrent
    /\ call = [t \in Threads |-> Idle]

\* Bulkhead.call: a call that finds no slot is refused at once.
Acquire(t) ==
    /\ At(t, "idle") /\ slots > 0
    /\ slots' = slots - 1
    /\ Goes(t, "before")
    /\ UNCHANGED breaker

\* Mutant: the slot of a refused call is not given back.
Refused_KeepsSlot(t) ==
    /\ At(t, "before") /\ Refuses
    /\ call' = [call EXCEPT ![t] = Idle]
    /\ UNCHANGED <<breaker, slots>>

\* Mutant: a refused call starts the rest again.
Refused_Restarts(t) ==
    /\ At(t, "before") /\ Refuses
    /\ Goes(t, "after")
    /\ rested' = 0
    /\ UNCHANGED <<state, failures, probing, slots>>

Refused(t) ==
    /\ At(t, "before") /\ Refuses
    /\ Goes(t, "after")
    /\ UNCHANGED <<breaker, slots>>

Admitted(t) ==
    /\ At(t, "before")
    /\ Admits
    /\ call' = [call EXCEPT ![t] = [at |-> "attempt", n |-> 1, left |-> Timeout,
                                    probe |-> state' = "HALF_OPEN"]]
    /\ UNCHANGED slots

\* The dependency gave its verdict.
Answered(t) ==
    /\ At(t, "attempt")
    /\ Goes(t, "success")
    /\ UNCHANGED <<breaker, slots>>

\* debit raises on another 4xx, which is not tried again.
Rejected(t) ==
    /\ Rejections /\ At(t, "attempt")
    /\ Goes(t, "failure")
    /\ UNCHANGED <<breaker, slots>>

\* A timeout, a cut or a 5xx: the call is tried again after a pause, or fails.
AttemptFails(t) ==
    /\ At(t, "attempt")
    /\ \/ /\ call[t].n < MaxAttempts
          /\ \E pause \in 0..Backoff :
                call' = [call EXCEPT ![t].at = "pause", ![t].left = pause]
       \/ /\ call[t].n = MaxAttempts
          /\ Goes(t, "failure")
    /\ UNCHANGED <<breaker, slots>>

TriesAgain(t) ==
    /\ At(t, "pause") /\ call[t].left = 0
    /\ call' = [call EXCEPT ![t].at = "attempt", ![t].n = @ + 1, ![t].left = Timeout]
    /\ UNCHANGED <<breaker, slots>>

Succeeds(t) == At(t, "success") /\ OnSuccess /\ Goes(t, "after") /\ UNCHANGED slots
Fails(t) == At(t, "failure") /\ OnFailure /\ Goes(t, "after") /\ UNCHANGED slots

\* The slot is given back, however the call ended.
Release(t) ==
    /\ At(t, "after")
    /\ slots' = slots + 1
    /\ call' = [call EXCEPT ![t] = Idle]
    /\ UNCHANGED breaker

Waiting(t) == call[t].at \in {"attempt", "pause"}

\* Time passes for the attempts and the pauses, and for the open circuit. The outcome
\* of a call is recorded, an attempt cut and a pause ended as soon as they can be.
Tick ==
    /\ \A t \in Threads :
          /\ call[t].at \notin {"success", "failure"}
          /\ Waiting(t) => call[t].left > 0
    /\ Rests
    /\ call' = [t \in Threads |->
                   IF Waiting(t) THEN [call[t] EXCEPT !.left = @ - 1] ELSE call[t]]
    /\ UNCHANGED slots

Continues(t) ==
    \/ Refused(t) \/ Admitted(t) \/ Answered(t) \/ Rejected(t) \/ AttemptFails(t)
    \/ TriesAgain(t) \/ Succeeds(t) \/ Fails(t) \/ Release(t)

Next == (\E t \in Threads : Acquire(t) \/ Continues(t)) \/ Tick

Spec == Init /\ [][Next]_vars

\* Threads and the clock go on, and orders keep coming.
Fairness ==
    /\ \A t \in Threads : WF_vars(Continues(t))
    /\ WF_vars(Tick)
    /\ WF_vars(\E t \in Threads : Acquire(t))

FairSpec == Spec /\ Fairness

-----------------------------------------------------------------------------
(* Properties.                                                              *)

\* The breaker, the bulkhead and the calls have the shape the code gives them; the
\* failures counted exceed the threshold by the calls under way when it opened at most.
TypeOK ==
    /\ state \in {"CLOSED", "OPEN", "HALF_OPEN"}
    /\ failures \in 0..(FailureThreshold + MaxConcurrent - 1)
    /\ rested \in 0..ResetTimeout
    /\ probing \in BOOLEAN
    /\ slots \in 0..MaxConcurrent
    /\ call \in [Threads -> [at : {"idle", "before", "attempt", "pause", "success",
                                   "failure", "after"},
                             n : 0..MaxAttempts, left : 0..(Timeout + Backoff),
                             probe : BOOLEAN]]

Probes == {t \in Threads : call[t].probe /\ (Waiting(t) \/ call[t].at \in {"success", "failure"})}

\* A half-open circuit refuses every call, so the call that will close or open it
\* is under way: refused, stale or failed calls never leave it stuck (_before_call).
HalfOpenHasProbe == state = "HALF_OPEN" => Probes # {}

\* A dependency that recovers gets one trial call at a time, whatever the calls that
\* were under way when the circuit opened do to it (circuit_breaker.py, HALF_OPEN).
OneProbe == Cardinality(Probes) <= 1

\* A slot is held by the calls under way and by nothing else, refused and failed
\* calls included (Bulkhead.call).
SlotsAreHeld ==
    slots + Cardinality({t \in Threads : ~At(t, "idle")}) = MaxConcurrent

\* An open circuit lets a call through in the end, however many calls it refuses
\* and however late those under way fail (CircuitBreaker, reset_timeout).
OpenEnds == state = "OPEN" ~> state # "OPEN"
=============================================================================
