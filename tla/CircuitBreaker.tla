--------------------------- MODULE CircuitBreaker ---------------------------
(* The circuit breaker that Commande keeps for one dependency. Each operation *)
(* runs under its lock and is one step.                                      *)
EXTENDS Naturals

CONSTANTS
    FailureThreshold,    \* failure_threshold
    ResetTimeout         \* reset_timeout, in ticks

ASSUME FailureThresholdAssumption == FailureThreshold \in Nat \ {0}
ASSUME ResetTimeoutAssumption == ResetTimeout \in Nat \ {0}

VARIABLES
    state,           \* _state
    failures,        \* _failures
    rested,          \* ticks since _opened_at, up to ResetTimeout
    probing          \* _probing

breaker == <<state, failures, rested, probing>>

BreakerInit ==
    /\ state = "CLOSED"
    /\ failures = 0
    /\ rested = 0
    /\ probing = FALSE

\* Mutant: a half-open circuit lets every call through.
Refuses_OpenOnly == state = "OPEN" /\ rested < ResetTimeout

\* _before_call raises CircuitOpenError.
Refuses ==
    \/ state = "OPEN" /\ rested < ResetTimeout
    \/ state = "HALF_OPEN" /\ probing

\* _before_call lets the call through, as a probe unless the circuit is closed.
Admits ==
    /\ ~Refuses
    /\ state' = IF state = "OPEN" THEN "HALF_OPEN" ELSE state
    /\ probing' = (probing \/ state' = "HALF_OPEN")
    /\ UNCHANGED <<failures, rested>>

OnSuccess ==
    /\ failures' = 0
    /\ state' = "CLOSED"
    /\ probing' = FALSE
    /\ UNCHANGED rested

\* _open
Opens ==
    /\ state' = "OPEN"
    /\ rested' = 0
    /\ probing' = FALSE

\* Mutant: a failed probe is counted like any failure.
OnFailure_Counts ==
    /\ failures' = failures + 1
    /\ IF failures' >= FailureThreshold /\ state # "HALF_OPEN" THEN Opens
       ELSE UNCHANGED <<state, rested, probing>>

\* A failed probe opens the circuit again, and so does the last tolerated failure.
OnFailure ==
    \/ /\ state = "HALF_OPEN"
       /\ Opens
       /\ UNCHANGED failures
    \/ /\ state # "HALF_OPEN"
       /\ failures' = failures + 1
       /\ IF failures' >= FailureThreshold THEN Opens
          ELSE UNCHANGED <<state, rested, probing>>

\* The clock, as far as the breaker reads it.
Rests ==
    /\ rested' = IF state = "OPEN" /\ rested < ResetTimeout THEN rested + 1 ELSE rested
    /\ UNCHANGED <<state, failures, probing>>
=============================================================================
