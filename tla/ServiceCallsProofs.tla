------------------------- MODULE ServiceCallsProofs -------------------------
(* A half-open circuit is never left without the call that decides it, for    *)
(* any number of threads, slots and attempts and any durations; that call is  *)
(* alone when calls are shorter than the rest; the slots are never lost.     *)
EXTENDS ServiceCalls, Integers, FiniteSetTheorems, TLAPS

Places == {"idle", "before", "attempt", "pause", "success", "failure", "after"}
Calls == [at : Places, n : Nat, left : Int, probe : BOOLEAN]

\* A call in progress between the breaker's two operations.
InFlight(c) == c.at \in {"attempt", "pause", "success", "failure"}

Inv ==
    /\ call \in [Threads -> Calls]
    /\ HalfOpenHasProbe

-----------------------------------------------------------------------------

\* The probes, as a condition on each thread.
LEMMA ProbesAre ==
    ASSUME NEW t \in Threads
    PROVE  t \in Probes <=> call[t].probe /\ InFlight(call[t])
  BY DEF Probes, InFlight, Waiting

LEMMA InitInv == Init => Inv
  BY DEF Init, BreakerInit, Inv, HalfOpenHasProbe, Idle, Calls, Places

\* A step of one thread that stays in flight, or was not, loses no probe.
LEMMA ProbesStay ==
    ASSUME Inv, NEW t \in Threads, NEW c \in Calls,
           call' = [call EXCEPT ![t] = c], state' = state,
           InFlight(call[t]) /\ call[t].probe => InFlight(c) /\ c.probe
    PROVE  Inv'
  <1>1. call' \in [Threads -> Calls]
    BY DEF Inv
  <1>2. ASSUME state' = "HALF_OPEN" PROVE Probes' # {}
    <2>1. PICK u \in Threads : call[u].probe /\ InFlight(call[u])
      BY <1>2, ProbesAre DEF Inv, HalfOpenHasProbe, Probes
    <2>2. call'[u].probe /\ InFlight(call'[u])
      BY <2>1 DEF Inv
    <2> QED
      BY <2>2 DEF Probes, InFlight, Waiting
  <1> QED
    BY <1>1, <1>2 DEF Inv, HalfOpenHasProbe

\* A step after which the circuit is not half-open needs no probe.
LEMMA NotHalfOpen ==
    ASSUME call' \in [Threads -> Calls], state' # "HALF_OPEN"
    PROVE  Inv'
  BY DEF Inv, HalfOpenHasProbe

-----------------------------------------------------------------------------

\* Steps of a thread that leave the breaker alone.
LEMMA CallStep ==
    ASSUME Inv, NEW t \in Threads,
           \/ Acquire(t) \/ Refused(t) \/ Answered(t) \/ Rejected(t)
           \/ AttemptFails(t) \/ TriesAgain(t) \/ Release(t)
    PROVE  Inv'
  <1>1. call[t] \in Calls /\ call \in [Threads -> Calls]
    BY DEF Inv
  <1>2. state' = state
    BY DEF Acquire, Refused, Answered, Rejected, AttemptFails, TriesAgain, Release, breaker
  <1>3. ASSUME NEW place \in {"before", "after"}, Goes(t, place), ~InFlight(call[t])
        PROVE  Inv'
    <2> DEFINE c == [call[t] EXCEPT !.at = place, !.left = 0]
    <2>1. c \in Calls
      <3>1. place \in Places /\ 0 \in Int
        BY DEF Places
      <3> QED
        BY <1>1, <3>1 DEF Calls
    <2>2. call' = [call EXCEPT ![t] = c]
      BY <1>1, <1>3 DEF Goes
    <2> HIDE DEF c
    <2> QED
      BY <1>2, <1>3, <2>1, <2>2, ProbesStay
  <1>4. ASSUME NEW place \in {"attempt", "pause", "success", "failure"},
               NEW n \in Nat, NEW left \in Int,
               call' = [call EXCEPT ![t].at = place, ![t].n = n, ![t].left = left]
        PROVE  Inv'
    <2> DEFINE c == [call[t] EXCEPT !.at = place, !.n = n, !.left = left]
    <2>1. c \in Calls /\ call' = [call EXCEPT ![t] = c]
      BY <1>1, <1>4 DEF Calls, Places
    <2>2. InFlight(c) /\ c.probe = call[t].probe
      BY <1>1 DEF Calls, InFlight
    <2> HIDE DEF c
    <2> QED
      BY <1>2, <2>1, <2>2, ProbesStay
  <1>5. ASSUME NEW place \in {"pause", "success", "failure"}, NEW left \in Int,
               call' = [call EXCEPT ![t].at = place, ![t].left = left]
        PROVE  Inv'
    <2>1. call' = [call EXCEPT ![t].at = place, ![t].n = call[t].n, ![t].left = left]
      BY <1>1, <1>5 DEF Calls
    <2>2. call[t].n \in Nat
      BY <1>1 DEF Calls
    <2> QED
      BY <1>4, <2>1, <2>2
  <1>6. CASE Acquire(t) \/ Refused(t)
    BY <1>3, <1>6 DEF Acquire, Refused, At, InFlight
  <1>7. CASE Release(t)
    <2>1. call' = [call EXCEPT ![t] = Idle] /\ ~InFlight(call[t]) /\ Idle \in Calls
      BY <1>7 DEF Release, At, InFlight, Idle, Calls, Places
    <2> QED
      BY <1>2, <2>1, ProbesStay
  <1>8. CASE Answered(t) \/ Rejected(t)
    <2>1. 0 \in Int
      OBVIOUS
    <2> QED
      BY <1>5, <1>8, <2>1 DEF Answered, Rejected, Goes
  <1>9. CASE AttemptFails(t)
    <2>1. CASE Goes(t, "failure")
      <3>1. 0 \in Int
        OBVIOUS
      <3> QED
        BY <1>5, <2>1, <3>1 DEF Goes
    <2>2. ASSUME NEW pause \in 0..Backoff,
                 call' = [call EXCEPT ![t].at = "pause", ![t].left = pause]
          PROVE  Inv'
      <3>1. pause \in Int
        BY DurationAssumption
      <3> QED
        BY <1>5, <2>2, <3>1
    <2> QED
      BY <1>9, <2>1, <2>2 DEF AttemptFails
  <1>10. CASE TriesAgain(t)
    <2>1. call' = [call EXCEPT ![t].at = "attempt", ![t].n = call[t].n + 1, ![t].left = Timeout]
      BY <1>1, <1>10 DEF TriesAgain
    <2>2. call[t].n + 1 \in Nat /\ Timeout \in Int
      BY <1>1, DurationAssumption DEF Calls
    <2> QED
      BY <1>4, <2>1, <2>2
  <1> QED
    BY <1>6, <1>7, <1>8, <1>9, <1>10

\* Steps of a thread that operate the breaker.
LEMMA BreakerStep ==
    ASSUME Inv, NEW t \in Threads, Admitted(t) \/ Succeeds(t) \/ Fails(t)
    PROVE  Inv'
  <1>1. CASE Admitted(t)
    <2> DEFINE c == [at |-> "attempt", n |-> 1, left |-> Timeout, probe |-> state' = "HALF_OPEN"]
    <2>1. c \in Calls
      BY DurationAssumption DEF Calls, Places
    <2>2. call' = [call EXCEPT ![t] = c] /\ call' \in [Threads -> Calls]
      BY <1>1, <2>1 DEF Admitted, Inv
    <2>3. state' = "HALF_OPEN" => t \in Probes'
      BY <2>2 DEF Probes, Waiting, Inv
    <2> QED
      BY <2>2, <2>3 DEF Inv, HalfOpenHasProbe
  <1>2. CASE Succeeds(t) \/ Fails(t)
    <2>1. state' # "HALF_OPEN"
      BY <1>2 DEF Succeeds, Fails, OnSuccess, OnFailure, Opens
    <2>2. call' \in [Threads -> Calls]
      BY <1>2 DEF Succeeds, Fails, Goes, Inv, Calls, Places
    <2> QED
      BY <2>1, <2>2, NotHalfOpen
  <1> QED
    BY <1>1, <1>2

LEMMA TickStep ==
    ASSUME Inv, Tick
    PROVE  Inv'
  <1>1. state' = state
    BY DEF Tick, Rests
  <1>2. \A u \in Threads : call'[u] \in Calls /\ call'[u].at = call[u].at
                              /\ call'[u].probe = call[u].probe
    BY DEF Tick, Inv, Calls
  <1>3. call' \in [Threads -> Calls]
    BY <1>2 DEF Tick
  <1>4. Probes' = Probes
    BY <1>2 DEF Probes, Waiting
  <1> QED
    BY <1>1, <1>3, <1>4 DEF Inv, HalfOpenHasProbe

LEMMA Step == Inv /\ [Next]_vars => Inv'
  <1> SUFFICES ASSUME Inv, [Next]_vars PROVE Inv'
    OBVIOUS
  <1>1. CASE UNCHANGED vars
    BY <1>1 DEF vars, breaker, Inv, HalfOpenHasProbe, Probes, Waiting
  <1>2. ASSUME NEW t \in Threads, Acquire(t) \/ Continues(t) PROVE Inv'
    BY <1>2, CallStep, BreakerStep DEF Continues
  <1> QED
    BY <1>1, <1>2, TickStep DEF Next

\* The circuit never waits for a call that is not there (_before_call, _on_success,
\* _on_failure): the argument needs no bound on how long the calls last.
THEOREM ProbeSafety == Spec => []HalfOpenHasProbe
  <1>1. Inv => HalfOpenHasProbe
    BY DEF Inv
  <1> QED
    BY <1>1, InitInv, Step, PTL DEF Spec

-----------------------------------------------------------------------------
(* One probe at a time, and what the counters hold.                         *)

\* The ticks that a call in flight may still take, and those of a whole call.
Remaining(c) ==
    IF c.at = "attempt" THEN c.left + (MaxAttempts - c.n) * (Timeout + Backoff)
    ELSE IF c.at = "pause" THEN c.left + Timeout + (MaxAttempts - c.n - 1) * (Timeout + Backoff)
    ELSE 0

Longest == MaxAttempts * Timeout + (MaxAttempts - 1) * Backoff

\* The values a call takes.
GoodCalls ==
    {c \in [at : Places, n : 0..MaxAttempts, left : 0..(Timeout + Backoff), probe : BOOLEAN] :
        /\ InFlight(c) => c.n >= 1
        /\ c.at = "attempt" => c.left <= Timeout
        /\ c.at = "pause" => c.n < MaxAttempts /\ c.left <= Backoff}

Shape ==
    /\ call \in [Threads -> GoodCalls]
    /\ state \in {"CLOSED", "OPEN", "HALF_OPEN"}
    /\ rested \in 0..ResetTimeout
    /\ probing \in BOOLEAN
    /\ slots \in Nat

\* The calls under way when the circuit opens end before it tries again, so that the
\* trial call is alone: a probe is in flight in a half-open circuit only, with no other.
Alone ==
    /\ \A t \in Threads : InFlight(call[t]) /\ call[t].probe => state = "HALF_OPEN"
    /\ state = "HALF_OPEN" =>
          probing /\ \A t, u \in Threads : InFlight(call[t]) /\ InFlight(call[u]) => t = u
    /\ state = "OPEN" =>
          \A t \in Threads : InFlight(call[t]) => rested + Remaining(call[t]) <= Longest

Busy == {t \in Threads : ~At(t, "idle")}
InFlights == {t \in Threads : InFlight(call[t])}

\* Each slot is accounted for, and an open circuit can still count the failures of the
\* calls under way only.
Counted ==
    /\ SlotsAreHeld
    /\ failures \in 0..(FailureThreshold + MaxConcurrent - 1)
    /\ state = "CLOSED" => failures < FailureThreshold
    /\ state = "OPEN" =>
          failures + Cardinality(InFlights) <= FailureThreshold + MaxConcurrent - 1

CallsInv == Shape /\ Alone /\ Counted

LEMMA Durations ==
    /\ MaxAttempts \in Nat \ {0} /\ Timeout \in Nat \ {0} /\ Backoff \in Nat
    /\ ResetTimeout \in Nat /\ FailureThreshold \in Nat \ {0} /\ MaxConcurrent \in Nat
    /\ Longest \in Nat /\ Longest < ResetTimeout
  BY DurationAssumption, AttemptsAssumption, ResetTimeoutAssumption,
     FailureThresholdAssumption, ThreadsAssumption DEF Longest

\* A call in flight has between nothing and a whole call left.
LEMMA RemainingBound ==
    ASSUME NEW c \in GoodCalls, InFlight(c)
    PROVE  Remaining(c) \in 0..Longest
  <1> DEFINE W == Timeout + Backoff
  <1>1. W \in Nat /\ Longest = Timeout + (MaxAttempts - 1) * W
    BY Durations DEF Longest
  <1>2. c.n \in 1..MaxAttempts /\ c.left \in Nat
    BY Durations DEF GoodCalls
  <1>3. ASSUME NEW k \in Nat, k <= MaxAttempts - 1
        PROVE  k * W \in Nat /\ k * W <= (MaxAttempts - 1) * W
    BY <1>1, <1>3, Durations
  <1>4. CASE c.at = "attempt"
    <2>1. Remaining(c) = c.left + (MaxAttempts - c.n) * W /\ c.left <= Timeout
      BY <1>4 DEF Remaining, GoodCalls
    <2>2. MaxAttempts - c.n \in Nat /\ MaxAttempts - c.n <= MaxAttempts - 1
      BY <1>2, Durations
    <2>3. (MaxAttempts - c.n) * W \in Nat /\ (MaxAttempts - c.n) * W <= (MaxAttempts - 1) * W
      BY <1>3, <2>2
    <2> HIDE DEF W
    <2> QED
      BY <1>1, <1>2, <2>1, <2>3, Durations
  <1>5. CASE c.at = "pause"
    <2> DEFINE k == MaxAttempts - c.n - 1
    <2>1. Remaining(c) = c.left + Timeout + k * W /\ c.left <= Backoff /\ c.n < MaxAttempts
      BY <1>5 DEF Remaining, GoodCalls
    <2>2. k \in Nat /\ k + 1 \in Nat /\ k + 1 <= MaxAttempts - 1
      BY <1>2, <2>1, Durations
    <2>3. k * W \in Nat /\ (k + 1) * W = k * W + W /\ (k + 1) * W <= (MaxAttempts - 1) * W
      BY <1>1, <1>3, <2>2
    <2>4. k * W \in Nat /\ k * W + W <= (MaxAttempts - 1) * W /\ (MaxAttempts - 1) * W \in Nat
      BY <1>1, <2>3, Durations
    <2>5. W = Timeout + Backoff
      OBVIOUS
    <2> HIDE DEF k, W
    <2> QED
      BY <1>1, <1>2, <2>1, <2>4, <2>5, Durations
  <1>6. CASE c.at \in {"success", "failure"}
    BY <1>6, Durations DEF Remaining
  <1> QED
    BY <1>4, <1>5, <1>6 DEF InFlight

\* A thread goes on in its call: no operation of the breaker, and no more time left.
Quiet(t) == Answered(t) \/ Rejected(t) \/ AttemptFails(t) \/ TriesAgain(t)

LEMMA GoodAreCalls == GoodCalls \subseteq Calls
  BY Durations DEF GoodCalls, Calls

\* The calls after a step that changes the place and the bounds of one.
Puts(t, place, n, left) == call' = [call EXCEPT ![t].at = place, ![t].n = n, ![t].left = left]
Moves(t, place, left) == call' = [call EXCEPT ![t].at = place, ![t].left = left]

LEMMA Edited ==
    ASSUME call \in [Threads -> Calls], NEW t \in Threads,
           NEW place \in Places, NEW n \in Nat, NEW left \in Int,
           Puts(t, place, n, left)
    PROVE  \E d \in Calls :
              /\ call' = [call EXCEPT ![t] = d]
              /\ d.at = place /\ d.n = n /\ d.left = left /\ d.probe = call[t].probe
  <1> DEFINE d == [call[t] EXCEPT !.at = place, !.n = n, !.left = left]
  <1>1. call[t] \in Calls
    OBVIOUS
  <1>3. d \in Calls
    BY <1>1 DEF Calls, Places
  <1>4. call' = [call EXCEPT ![t] = d]
    BY <1>1 DEF Calls, Places, Puts
  <1>5. d.at = place /\ d.n = n /\ d.left = left /\ d.probe = call[t].probe
    BY <1>1 DEF Calls
  <1> HIDE DEF d
  <1> QED
    BY <1>3, <1>4, <1>5

\* A call whose attempt ends.
LEMMA Moved ==
    ASSUME call \in [Threads -> Calls], NEW t \in Threads,
           NEW place \in Places, NEW left \in Int,
           Moves(t, place, left)
    PROVE  \E d \in Calls :
              /\ call' = [call EXCEPT ![t] = d]
              /\ d.at = place /\ d.n = call[t].n /\ d.left = left /\ d.probe = call[t].probe
  <1>1. call[t] \in Calls /\ call[t].n \in Nat
    BY DEF Calls
  <1>2. Puts(t, place, call[t].n, left)
    BY <1>1 DEF Calls, Puts, Moves
  <1> QED
    BY <1>1, <1>2, Edited

LEMMA GoodOnes ==
    ASSUME NEW d \in Calls, d.n \in 0..MaxAttempts, d.left \in 0..(Timeout + Backoff),
           InFlight(d) => d.n >= 1,
           d.at = "attempt" => d.left <= Timeout,
           d.at = "pause" => d.n < MaxAttempts /\ d.left <= Backoff
    PROVE  d \in GoodCalls
  BY DEF Calls, GoodCalls

LEMMA QuietMove ==
    ASSUME Shape, NEW t \in Threads, Quiet(t)
    PROVE  \E d \in GoodCalls :
              /\ call' = [call EXCEPT ![t] = d]
              /\ InFlight(call[t]) /\ InFlight(d) /\ d.probe = call[t].probe
              /\ Remaining(d) <= Remaining(call[t])
  <1> DEFINE c == call[t]
             W == Timeout + Backoff
  <1>1. call \in [Threads -> GoodCalls] /\ call \in [Threads -> Calls] /\ c \in GoodCalls
    BY GoodAreCalls DEF Shape
  <1>2. InFlight(c) /\ Remaining(c) \in 0..Longest
    BY <1>1, RemainingBound DEF Quiet, Answered, Rejected, AttemptFails, TriesAgain, At, InFlight
  <1>3. c.n \in 1..MaxAttempts /\ c.left \in Nat
    BY <1>1, <1>2, Durations DEF GoodCalls
  <1>4. ASSUME NEW place \in {"success", "failure"}, Moves(t, place, 0)
        PROVE  \E d \in GoodCalls :
                  /\ call' = [call EXCEPT ![t] = d]
                  /\ InFlight(d) /\ d.probe = c.probe /\ Remaining(d) <= Remaining(c)
    <2>1. PICK d \in Calls :
             /\ call' = [call EXCEPT ![t] = d]
             /\ d.at = place /\ d.n = c.n /\ d.left = 0 /\ d.probe = c.probe
      <3>1. place \in Places /\ c.n \in Nat /\ 0 \in Int
        BY <1>3 DEF Places
      <3> QED
        BY <1>1, <1>4, <3>1, Moved
    <2>2. d \in GoodCalls /\ InFlight(d) /\ Remaining(d) = 0
      BY <1>3, <2>1, GoodOnes, Durations DEF InFlight, Remaining
    <2>3. Remaining(d) <= Remaining(c)
      BY <1>2, <2>2, Durations
    <2> QED
      BY <2>1, <2>2, <2>3
  <1>5. ASSUME NEW pause \in 0..Backoff, At(t, "attempt"), c.n < MaxAttempts,
               Moves(t, "pause", pause)
        PROVE  \E d \in GoodCalls :
                  /\ call' = [call EXCEPT ![t] = d]
                  /\ InFlight(d) /\ d.probe = c.probe /\ Remaining(d) <= Remaining(c)
    <2>1. PICK d \in Calls :
             /\ call' = [call EXCEPT ![t] = d]
             /\ d.at = "pause" /\ d.n = c.n /\ d.left = pause /\ d.probe = c.probe
      <3>1. "pause" \in Places /\ c.n \in Nat /\ pause \in Int
        BY <1>3, Durations DEF Places
      <3> QED
        BY <1>1, <1>5, <3>1, Moved
    <2>6. d \in GoodCalls /\ InFlight(d)
      BY <1>3, <1>5, <2>1, GoodOnes, Durations DEF InFlight
    <2>2. /\ Remaining(d) = pause + Timeout + (MaxAttempts - c.n - 1) * W
          /\ Remaining(c) = c.left + (MaxAttempts - c.n) * W
      BY <1>5, <2>1 DEF Remaining, At
    <2>3. /\ (MaxAttempts - c.n) * W = (MaxAttempts - c.n - 1) * W + W
          /\ (MaxAttempts - c.n - 1) * W \in Nat
      BY <1>3, <1>5, Durations
    <2>4. W = Timeout + Backoff
      OBVIOUS
    <2>5. Remaining(d) <= Remaining(c)
      <3> HIDE DEF W
      <3> QED
        BY <1>3, <2>2, <2>3, <2>4, Durations
    <2> QED
      BY <1>2, <2>1, <2>5, <2>6
  <1>6. CASE TriesAgain(t)
    <2>1. c.at = "pause" /\ c.n < MaxAttempts /\ c.left = 0
      BY <1>1, <1>6 DEF TriesAgain, At, GoodCalls
    <2>2. PICK d \in Calls :
             /\ call' = [call EXCEPT ![t] = d]
             /\ d.at = "attempt" /\ d.n = c.n + 1 /\ d.left = Timeout /\ d.probe = c.probe
      <3>1. Puts(t, "attempt", c.n + 1, Timeout)
        BY <1>1, <1>6 DEF TriesAgain, Puts
      <3>2. "attempt" \in Places /\ c.n + 1 \in Nat /\ Timeout \in Int
        BY <1>3, Durations DEF Places
      <3> QED
        BY <1>1, <3>1, <3>2, Edited
    <2>7. d \in GoodCalls /\ InFlight(d)
      BY <1>3, <2>1, <2>2, GoodOnes, Durations DEF InFlight
    <2>3. /\ Remaining(d) = Timeout + (MaxAttempts - (c.n + 1)) * W
          /\ Remaining(c) = 0 + Timeout + (MaxAttempts - c.n - 1) * W
      BY <2>1, <2>2 DEF Remaining
    <2>4. MaxAttempts - (c.n + 1) = MaxAttempts - c.n - 1 /\ W \in Nat
      BY <1>3, Durations
    <2>5. (MaxAttempts - c.n - 1) * W \in Nat
      BY <1>3, <2>1, <2>4, Durations
    <2>6. Remaining(d) <= Remaining(c)
      <3> HIDE DEF W
      <3> QED
        BY <2>3, <2>4, <2>5, Durations
    <2> QED
      BY <1>2, <2>2, <2>6, <2>7
  <1>7. \/ Moves(t, "success", 0) \/ Moves(t, "failure", 0)
        \/ /\ At(t, "attempt") /\ c.n < MaxAttempts
           /\ \E pause \in 0..Backoff : Moves(t, "pause", pause)
        \/ TriesAgain(t)
    BY DEF Quiet, Answered, Rejected, AttemptFails, Goes, Moves
  <1> QED
    BY <1>2, <1>4, <1>5, <1>6, <1>7

\* The sets of calls after a step of thread t that leaves its call at d.
LEMMA SetsAfter ==
    ASSUME call \in [Threads -> GoodCalls], NEW t \in Threads, NEW d \in GoodCalls,
           call' = [call EXCEPT ![t] = d]
    PROVE  /\ Busy' = IF d.at = "idle" THEN Busy \ {t} ELSE Busy \cup {t}
           /\ InFlights' = IF InFlight(d) THEN InFlights \cup {t} ELSE InFlights \ {t}
           /\ call' \in [Threads -> GoodCalls]
           /\ call'[t] = d /\ \A u \in Threads : u # t => call'[u] = call[u]
  <1>1. call'[t] = d /\ \A u \in Threads : u # t => call'[u] = call[u]
    OBVIOUS
  <1>2. call' \in [Threads -> GoodCalls]
    OBVIOUS
  <1>3. \A u \in Threads : /\ u \in Busy <=> call[u].at # "idle"
                           /\ u \in Busy' <=> call'[u].at # "idle"
                           /\ u \in InFlights <=> InFlight(call[u])
                           /\ u \in InFlights' <=> InFlight(call'[u])
    BY DEF Busy, At, InFlights, InFlight
  <1>4. /\ Busy \subseteq Threads /\ Busy' \subseteq Threads
        /\ InFlights \subseteq Threads /\ InFlights' \subseteq Threads
    BY DEF Busy, InFlights
  <1> QED
    BY <1>1, <1>2, <1>3, <1>4

LEMMA CallsAreFinite ==
    /\ IsFiniteSet(Busy) /\ IsFiniteSet(InFlights) /\ InFlights \subseteq Busy
    /\ Cardinality(InFlights) \in Nat /\ Cardinality(Busy) \in Nat
    /\ Cardinality(InFlights) <= Cardinality(Busy)
    /\ SlotsAreHeld <=> slots + Cardinality(Busy) = MaxConcurrent
  <1>1. Busy \subseteq Threads /\ InFlights \subseteq Busy
    BY DEF Busy, InFlights, InFlight, At
  <1>2. IsFiniteSet(Busy) /\ IsFiniteSet(InFlights)
    BY <1>1, ThreadsAssumption, FS_Subset
  <1>3. /\ Cardinality(InFlights) \in Nat /\ Cardinality(Busy) \in Nat
        /\ Cardinality(InFlights) <= Cardinality(Busy)
    BY <1>1, <1>2, FS_Subset, FS_CardinalityType
  <1> QED
    BY <1>1, <1>2, <1>3 DEF SlotsAreHeld, Busy

\* A call that starts, is refused or ends leaves the breaker alone.
LEMMA AsideStep ==
    ASSUME CallsInv, NEW t \in Threads, Acquire(t) \/ Refused(t) \/ Release(t)
    PROVE  CallsInv'
  <1>1. /\ call \in [Threads -> GoodCalls] /\ call \in [Threads -> Calls]
        /\ call[t] \in GoodCalls /\ call[t] \in Calls
    BY GoodAreCalls DEF CallsInv, Shape
  <1>2. ASSUME NEW place \in {"before", "after"}, Goes(t, place)
        PROVE  \E d \in GoodCalls : call' = [call EXCEPT ![t] = d] /\ d.at = place
    <2>1. Moves(t, place, 0) /\ place \in Places /\ 0 \in Int
      BY <1>2 DEF Goes, Moves, Places
    <2>2. PICK d \in Calls :
             /\ call' = [call EXCEPT ![t] = d]
             /\ d.at = place /\ d.n = call[t].n /\ d.left = 0 /\ d.probe = call[t].probe
      BY <1>1, <2>1, Moved
    <2>3. call[t].n \in 0..MaxAttempts
      BY <1>1 DEF GoodCalls
    <2>4. d \in GoodCalls
      BY <2>2, <2>3, GoodOnes, Durations DEF InFlight
    <2> QED
      BY <2>2, <2>4
  <1>3. Idle \in GoodCalls
    BY Durations DEF Idle, GoodCalls, Places, InFlight
  <1>4. \E d \in GoodCalls :
           /\ call' = [call EXCEPT ![t] = d] /\ ~InFlight(d)
           /\ \/ call[t].at = "idle" /\ d.at # "idle" /\ slots > 0 /\ slots' = slots - 1
              \/ call[t].at # "idle" /\ d.at # "idle" /\ slots' = slots
              \/ call[t].at # "idle" /\ d.at = "idle" /\ slots' = slots + 1
    <2>1. CASE Acquire(t)
      BY <1>2, <2>1 DEF Acquire, At, InFlight
    <2>2. CASE Refused(t)
      BY <1>2, <2>2 DEF Refused, At, InFlight
    <2>3. CASE Release(t)
      BY <1>3, <2>3 DEF Release, At, InFlight, Idle
    <2> QED
      BY <2>1, <2>2, <2>3
  <1>5. PICK d \in GoodCalls :
           /\ call' = [call EXCEPT ![t] = d] /\ ~InFlight(d)
           /\ \/ call[t].at = "idle" /\ d.at # "idle" /\ slots > 0 /\ slots' = slots - 1
              \/ call[t].at # "idle" /\ d.at # "idle" /\ slots' = slots
              \/ call[t].at # "idle" /\ d.at = "idle" /\ slots' = slots + 1
    BY <1>4
  <1>6. UNCHANGED breaker /\ ~InFlight(call[t])
    BY DEF Acquire, Refused, Release, At, InFlight
  <1>7. Shape'
    BY <1>1, <1>5, <1>6 DEF CallsInv, Shape, breaker
  <1>8. \A u \in Threads : InFlight(call'[u]) => call'[u] = call[u]
    BY <1>1, <1>5, SetsAfter
  <1>9. Alone'
    BY <1>6, <1>8 DEF CallsInv, Alone, breaker
  <1>10. InFlights' = InFlights
    BY <1>1, <1>5, <1>6, SetsAfter DEF InFlights
  <1>11. SlotsAreHeld'
    <2>1. Busy' = IF d.at = "idle" THEN Busy \ {t} ELSE Busy \cup {t}
      BY <1>1, <1>5, SetsAfter
    <2>2. t \in Busy <=> call[t].at # "idle"
      BY DEF Busy, At
    <2>3. slots + Cardinality(Busy) = MaxConcurrent /\ slots \in Nat
      BY CallsAreFinite DEF CallsInv, Counted, Shape
    <2>4. /\ t \notin Busy => Cardinality(Busy \cup {t}) = Cardinality(Busy) + 1
          /\ t \in Busy => Cardinality(Busy \ {t}) = Cardinality(Busy) - 1
      BY CallsAreFinite, FS_AddElement, FS_RemoveElement
    <2>5. t \in Busy => Busy \cup {t} = Busy
      OBVIOUS
    <2>6. \/ slots' = slots - 1 /\ Cardinality(Busy') = Cardinality(Busy) + 1
          \/ slots' = slots /\ Cardinality(Busy') = Cardinality(Busy)
          \/ slots' = slots + 1 /\ Cardinality(Busy') = Cardinality(Busy) - 1
      <3>1. CASE t \notin Busy
        BY <1>5, <2>1, <2>2, <2>4, <3>1
      <3>2. CASE t \in Busy
        BY <1>5, <2>1, <2>2, <2>4, <2>5, <3>2
      <3> QED
        BY <3>1, <3>2
    <2>7. Cardinality(Busy) \in Nat
      BY CallsAreFinite
    <2>8. slots' + Cardinality(Busy') = MaxConcurrent
      BY <2>3, <2>6, <2>7
    <2> QED
      BY <2>8 DEF SlotsAreHeld, Busy
  <1>12. Counted'
    BY <1>6, <1>10, <1>11 DEF CallsInv, Counted, breaker
  <1> QED
    BY <1>7, <1>9, <1>12 DEF CallsInv

\* A call that goes on holds its slot and its time.
LEMMA QuietStep ==
    ASSUME CallsInv, NEW t \in Threads, Quiet(t)
    PROVE  CallsInv'
  <1>1. call \in [Threads -> GoodCalls] /\ UNCHANGED <<breaker, slots>>
    BY DEF CallsInv, Shape, Quiet, Answered, Rejected, AttemptFails, TriesAgain
  <1>2. PICK d \in GoodCalls :
           /\ call' = [call EXCEPT ![t] = d]
           /\ InFlight(call[t]) /\ InFlight(d) /\ d.probe = call[t].probe
           /\ Remaining(d) <= Remaining(call[t])
    BY QuietMove DEF CallsInv
  <1>3. /\ Busy' = Busy \cup {t} /\ InFlights' = InFlights \cup {t}
        /\ call' \in [Threads -> GoodCalls] /\ call'[t] = d
        /\ \A u \in Threads : u # t => call'[u] = call[u]
    BY <1>1, <1>2, SetsAfter DEF InFlight
  <1>4. Busy' = Busy /\ InFlights' = InFlights
    BY <1>2, <1>3 DEF Busy, InFlights, InFlight, At
  <1>5. Shape'
    BY <1>1, <1>3 DEF CallsInv, Shape, breaker
  <1>6. \A u \in Threads : /\ InFlight(call'[u]) <=> InFlight(call[u])
                           /\ call'[u].probe = call[u].probe
    BY <1>2, <1>3
  <1>7. ASSUME NEW u \in Threads, InFlight(call[u]), rested + Remaining(call[u]) <= Longest
        PROVE  rested + Remaining(call'[u]) <= Longest
    <2>1. /\ Remaining(call[u]) \in 0..Longest /\ Remaining(d) \in 0..Longest
          /\ Remaining(call'[u]) \in 0..Longest /\ rested \in Nat
      BY <1>1, <1>2, <1>3, <1>6, <1>7, RemainingBound, Durations DEF CallsInv, Shape
    <2>2. Remaining(call'[u]) <= Remaining(call[u])
      BY <1>2, <1>3, <2>1, Durations
    <2> QED
      BY <1>7, <2>1, <2>2, Durations
  <1>8. Alone'
    BY <1>1, <1>6, <1>7 DEF CallsInv, Alone, breaker
  <1>9. SlotsAreHeld'
    BY <1>1, <1>4 DEF CallsInv, Counted, SlotsAreHeld, Busy
  <1>10. Counted'
    BY <1>1, <1>4, <1>9 DEF CallsInv, Counted, breaker
  <1> QED
    BY <1>5, <1>8, <1>10 DEF CallsInv

\* A closed circuit admits any call. An open one admits a call once it has rested, when
\* the calls that were under way as it opened have all ended.
LEMMA AdmittedStep ==
    ASSUME CallsInv, NEW t \in Threads, Admitted(t)
    PROVE  CallsInv'
  <1> DEFINE d == [at |-> "attempt", n |-> 1, left |-> Timeout, probe |-> state' = "HALF_OPEN"]
  <1>1. /\ call \in [Threads -> GoodCalls] /\ call' = [call EXCEPT ![t] = d]
        /\ At(t, "before") /\ Admits /\ slots' = slots
    BY DEF CallsInv, Shape, Admitted
  <1>2. d \in GoodCalls /\ InFlight(d) /\ d.at = "attempt" /\ (d.probe <=> state' = "HALF_OPEN")
    <2>1. d \in Calls
      BY Durations DEF Calls, Places
    <2>2. d.at = "attempt" /\ d.n = 1 /\ d.left = Timeout
      OBVIOUS
    <2>3. d.probe <=> state' = "HALF_OPEN"
      BY Zenon
    <2>4. d \in GoodCalls
      <3> HIDE DEF d
      <3> QED
        BY <2>1, <2>2, GoodOnes, Durations
    <2> QED
      BY <2>2, <2>3, <2>4 DEF InFlight
  <1> HIDE DEF d
  <1>3. /\ Busy' = Busy \cup {t} /\ InFlights' = InFlights \cup {t}
        /\ call' \in [Threads -> GoodCalls] /\ call'[t] = d
        /\ \A u \in Threads : u # t => call'[u] = call[u]
    BY <1>1, <1>2, SetsAfter
  <1>4. Busy' = Busy
    BY <1>1, <1>3 DEF Busy, At
  <1>5. SlotsAreHeld'
    BY <1>1, <1>4 DEF CallsInv, Counted, SlotsAreHeld, Busy
  <1>6. state # "HALF_OPEN" /\ (state = "OPEN" => rested = ResetTimeout)
    BY <1>1, Durations, SMTT(30) DEF CallsInv, Shape, Alone, Admits, Refuses
  <1>7. UNCHANGED <<failures, rested>> /\ probing' \in BOOLEAN
    BY <1>1 DEF Admits
  <1>8. ~ InFlight(call[t])
    BY <1>1 DEF At, InFlight
  <1>9. CASE state = "OPEN"
    <2>1. ASSUME NEW u \in Threads, InFlight(call[u])
          PROVE  FALSE
      <3>1. rested + Remaining(call[u]) <= Longest
        BY <1>9, <2>1 DEF CallsInv, Alone
      <3>2. Remaining(call[u]) \in 0..Longest
        BY <1>1, <2>1, RemainingBound
      <3> QED
        BY <1>6, <1>9, <3>1, <3>2, Durations
    <2>2. state' = "HALF_OPEN" /\ probing' = TRUE
      BY <1>1, <1>9 DEF Admits
    <2>3. \A u \in Threads : InFlight(call'[u]) => u = t
      BY <1>3, <2>1
    <2>4. Alone'
      BY <2>2, <2>3 DEF Alone
    <2>5. Shape' /\ Counted'
      BY <1>1, <1>3, <1>5, <1>7, <2>2 DEF CallsInv, Shape, Counted
    <2> QED
      BY <2>4, <2>5 DEF CallsInv
  <1>10. CASE state = "CLOSED"
    <2>1. state' = "CLOSED"
      BY <1>1, <1>10 DEF Admits
    <2>2. \A u \in Threads : ~ (InFlight(call'[u]) /\ call'[u].probe)
      BY <1>2, <1>3, <1>10, <2>1 DEF CallsInv, Alone
    <2>3. Alone'
      BY <2>1, <2>2 DEF Alone
    <2>4. Shape' /\ Counted'
      BY <1>1, <1>3, <1>5, <1>7, <1>10, <2>1 DEF CallsInv, Shape, Counted
    <2> QED
      BY <2>3, <2>4 DEF CallsInv
  <1> QED
    BY <1>6, <1>9, <1>10 DEF CallsInv, Shape

\* The outcome of a call: a probe decides the circuit, and a call that was under way when
\* it opened can only start its rest again.
LEMMA OutcomeStep ==
    ASSUME CallsInv, NEW t \in Threads, Succeeds(t) \/ Fails(t)
    PROVE  CallsInv'
  <1>1. /\ call \in [Threads -> GoodCalls] /\ call \in [Threads -> Calls]
        /\ InFlight(call[t]) /\ Goes(t, "after") /\ slots' = slots
    BY GoodAreCalls DEF CallsInv, Shape, Succeeds, Fails, At, InFlight
  <1>2. PICK d \in GoodCalls : call' = [call EXCEPT ![t] = d] /\ d.at = "after"
    <2>1. Moves(t, "after", 0) /\ "after" \in Places /\ 0 \in Int
      BY <1>1 DEF Goes, Moves, Places
    <2>2. PICK d \in Calls :
             /\ call' = [call EXCEPT ![t] = d]
             /\ d.at = "after" /\ d.n = call[t].n /\ d.left = 0 /\ d.probe = call[t].probe
      BY <1>1, <2>1, Moved
    <2>3. call[t] \in GoodCalls /\ call[t].n \in 0..MaxAttempts
      BY <1>1 DEF GoodCalls
    <2>4. d \in GoodCalls
      BY <2>2, <2>3, GoodOnes, Durations DEF InFlight
    <2> QED
      BY <2>2, <2>4
  <1>3. /\ Busy' = Busy \cup {t} /\ InFlights' = InFlights \ {t}
        /\ call' \in [Threads -> GoodCalls] /\ call'[t] = d
        /\ \A u \in Threads : u # t => call'[u] = call[u]
    BY <1>1, <1>2, SetsAfter DEF InFlight
  <1>4. Busy' = Busy /\ t \in InFlights
    BY <1>1, <1>3 DEF Busy, At, InFlights, InFlight
  <1>5. SlotsAreHeld'
    BY <1>1, <1>4 DEF CallsInv, Counted, SlotsAreHeld, Busy
  <1>6. \A u \in Threads : InFlight(call'[u]) => u # t /\ call'[u] = call[u]
    BY <1>2, <1>3 DEF InFlight
  <1>7. /\ Cardinality(InFlights') = Cardinality(InFlights) - 1
        /\ Cardinality(InFlights) \in Nat /\ Cardinality(InFlights') \in Nat
        /\ Cardinality(InFlights) <= MaxConcurrent
    <2>1. Cardinality(InFlights') = Cardinality(InFlights) - 1
      BY <1>3, <1>4, CallsAreFinite, FS_RemoveElement
    <2>2. IsFiniteSet(InFlights')
      BY <1>3, CallsAreFinite, FS_RemoveElement
    <2>3. slots + Cardinality(Busy) = MaxConcurrent /\ slots \in Nat
      BY CallsAreFinite DEF CallsInv, Counted, Shape
    <2> QED
      BY <2>1, <2>2, <2>3, CallsAreFinite, FS_CardinalityType, Durations
  <1>8. failures \in Nat /\ failures <= FailureThreshold + MaxConcurrent - 1
    BY Durations DEF CallsInv, Counted
  <1>9. \A u \in Threads :
           ~ (InFlight(call'[u]) /\ call'[u].probe)
    BY <1>1, <1>6 DEF CallsInv, Alone
  <1>10. CASE OnSuccess
    <2>1. state' = "CLOSED" /\ failures' = 0 /\ probing' = FALSE /\ rested' = rested
      BY <1>10 DEF OnSuccess
    <2>2. Shape'
      <3>1. probing' \in BOOLEAN
        BY <2>1
      <3> QED
        BY <1>1, <1>3, <2>1, <3>1 DEF CallsInv, Shape
    <2>3. Alone' /\ Counted'
      BY <1>5, <1>9, <2>1, Durations DEF Alone, Counted
    <2> QED
      BY <2>2, <2>3 DEF CallsInv
  <1>11. CASE OnFailure /\ state = "HALF_OPEN"
    <2>1. state' = "OPEN" /\ failures' = failures /\ probing' = FALSE /\ rested' = 0
      BY <1>11 DEF OnFailure, Opens
    <2>2. \A u \in Threads : ~InFlight(call'[u])
      BY <1>1, <1>6, <1>11 DEF CallsInv, Alone
    <2>3. InFlights' = {}
      BY <2>2 DEF InFlights
    <2>4. Cardinality(InFlights') = 0
      BY <2>3, FS_EmptySet
    <2>5. Shape' /\ Alone'
      <3>1. probing' \in BOOLEAN
        BY <2>1, Zenon
      <3>2. rested' \in 0..ResetTimeout
        BY <2>1, Durations
      <3>3. Shape'
        BY <1>1, <1>3, <2>1, <3>1, <3>2 DEF CallsInv, Shape
      <3> QED
        BY <2>1, <2>2, <3>3 DEF Alone
    <2>6. Counted'
      BY <1>5, <1>8, <2>1, <2>4, Durations DEF Counted
    <2> QED
      BY <2>5, <2>6 DEF CallsInv
  <1>12. CASE OnFailure /\ state # "HALF_OPEN"
    <2>1. /\ failures' = failures + 1
          /\ \/ state' = "OPEN" /\ rested' = 0 /\ probing' = FALSE
             \/ UNCHANGED <<state, rested, probing>> /\ failures' < FailureThreshold
      BY <1>8, <1>12, Durations DEF OnFailure, Opens
    <2>2. Shape'
      <3>1. probing' \in BOOLEAN
        BY <2>1, Zenon DEF CallsInv, Shape
      <3>2. rested' \in 0..ResetTimeout
        <4>1. rested \in 0..ResetTimeout
          BY DEF CallsInv, Shape
        <4> QED
          BY <2>1, <4>1, Durations
      <3> QED
        BY <1>1, <1>3, <2>1, <3>1, <3>2 DEF CallsInv, Shape
    <2>3. ASSUME state' = "OPEN", NEW u \in Threads, InFlight(call'[u])
          PROVE  rested' + Remaining(call'[u]) <= Longest
      <3>1. Remaining(call'[u]) \in 0..Longest
        BY <1>3, <2>3, RemainingBound
      <3> QED
        BY <1>6, <2>1, <2>3, <3>1, Durations DEF CallsInv, Alone
    <2>4. Alone'
      BY <1>9, <1>12, <2>1, <2>3 DEF Alone
    <2>5. /\ state = "CLOSED" => failures < FailureThreshold
          /\ state = "OPEN" =>
                failures + Cardinality(InFlights) <= FailureThreshold + MaxConcurrent - 1
          /\ state \in {"CLOSED", "OPEN"}
      BY <1>12 DEF CallsInv, Counted, Shape
    <2>6. failures' + Cardinality(InFlights') <= FailureThreshold + MaxConcurrent - 1
      BY <1>7, <1>8, <2>1, <2>5, Durations
    <2>7. failures' \in 0..(FailureThreshold + MaxConcurrent - 1)
      BY <1>7, <1>8, <2>1, <2>6, Durations
    <2>8. state' = "CLOSED" => failures' < FailureThreshold
      BY <2>1
    <2> QED
      BY <1>5, <2>2, <2>4, <2>6, <2>7, <2>8 DEF CallsInv, Counted
  <1> QED
    BY <1>10, <1>11, <1>12 DEF Succeeds, Fails

\* A tick takes its part of every call under way and of the rest of the circuit.
LEMMA ClockStep ==
    ASSUME CallsInv, Tick
    PROVE  CallsInv'
  <1>1. UNCHANGED <<state, failures, probing, slots>> /\ call \in [Threads -> GoodCalls]
    BY DEF Tick, Rests, CallsInv, Shape
  <1>2. ASSUME NEW t \in Threads
        PROVE  /\ call'[t] \in GoodCalls
               /\ call'[t].at = call[t].at /\ call'[t].probe = call[t].probe
               /\ InFlight(call[t]) => Remaining(call'[t]) = Remaining(call[t]) - 1
    <2>1. call[t] \in GoodCalls /\ call[t] \in Calls
      BY <1>1, GoodAreCalls
    <2>2. CASE Waiting(t)
      <3>1. /\ call'[t] \in Calls /\ call'[t].left = call[t].left - 1
            /\ call'[t].at = call[t].at /\ call'[t].probe = call[t].probe
            /\ call'[t].n = call[t].n
        BY <2>1, <2>2 DEF Tick, Calls
      <3>2. call[t].left > 0 /\ call[t].at \in {"attempt", "pause"}
        BY <2>2 DEF Tick, Waiting
      <3>3. /\ call[t].n \in 0..MaxAttempts /\ call[t].left \in 0..(Timeout + Backoff)
            /\ call[t].n >= 1
            /\ call[t].at = "attempt" => call[t].left <= Timeout
            /\ call[t].at = "pause" => call[t].n < MaxAttempts /\ call[t].left <= Backoff
        BY <2>1, <3>2 DEF GoodCalls, InFlight
      <3>4. call'[t] \in GoodCalls
        <4> DEFINE d == call'[t]
        <4>1. d \in Calls /\ d.n \in 0..MaxAttempts /\ d.left \in 0..(Timeout + Backoff)
          BY <3>1, <3>2, <3>3, Durations
        <4>2. /\ d.n >= 1
              /\ d.at = "attempt" => d.left <= Timeout
              /\ d.at = "pause" => d.n < MaxAttempts /\ d.left <= Backoff
          BY <3>1, <3>2, <3>3, Durations
        <4>3. d \in GoodCalls
          <5> HIDE DEF d
          <5> QED
            BY <4>1, <4>2, GoodOnes
        <4> QED
          BY <4>3
      <3>5. Remaining(call'[t]) = Remaining(call[t]) - 1
        <4>1. (MaxAttempts - call[t].n) * (Timeout + Backoff) \in Int
          BY <3>3, Durations
        <4>2. (MaxAttempts - call[t].n - 1) * (Timeout + Backoff) \in Int
          BY <3>3, Durations
        <4> QED
          BY <3>1, <3>2, <3>3, <4>1, <4>2, Durations DEF Remaining
      <3> QED
        BY <3>1, <3>4, <3>5
    <2>3. CASE ~Waiting(t)
      <3>1. call'[t] = call[t] /\ ~InFlight(call[t])
        BY <2>3 DEF Tick, Waiting, InFlight
      <3> QED
        BY <2>1, <3>1
    <2> QED
      BY <2>2, <2>3
  <1>3. call' \in [Threads -> GoodCalls]
    BY <1>2 DEF Tick
  <1>4. /\ rested' \in 0..ResetTimeout /\ rested' <= rested + 1
        /\ rested \in Nat /\ rested' \in Nat
    BY Durations DEF Tick, Rests, CallsInv, Shape
  <1>5. Shape'
    BY <1>1, <1>3, <1>4 DEF CallsInv, Shape
  <1>6. \A t \in Threads : InFlight(call'[t]) <=> InFlight(call[t])
    BY <1>2 DEF InFlight
  <1>7. ASSUME state = "OPEN", NEW t \in Threads, InFlight(call[t])
        PROVE  rested' + Remaining(call'[t]) <= Longest
    <2>1. rested + Remaining(call[t]) <= Longest
      BY <1>7 DEF CallsInv, Alone
    <2>2. Remaining(call[t]) \in 0..Longest /\ Remaining(call'[t]) = Remaining(call[t]) - 1
      BY <1>1, <1>2, <1>7, RemainingBound
    <2> QED
      BY <1>4, <2>1, <2>2, Durations
  <1>8. Alone'
    BY <1>1, <1>2, <1>6, <1>7 DEF CallsInv, Alone
  <1>9. InFlights' = InFlights /\ Busy' = Busy
    BY <1>2, <1>6 DEF InFlights, Busy, At
  <1>10. SlotsAreHeld'
    BY <1>1, <1>9 DEF CallsInv, Counted, SlotsAreHeld, Busy
  <1>11. Counted'
    BY <1>1, <1>9, <1>10 DEF CallsInv, Counted
  <1> QED
    BY <1>5, <1>8, <1>11 DEF CallsInv

LEMMA InitCalls == Init => CallsInv
  <1> SUFFICES ASSUME Init PROVE CallsInv
    OBVIOUS
  <1>1. Idle \in GoodCalls /\ Idle.at = "idle"
    BY Durations DEF Idle, GoodCalls, Places, InFlight
  <1>2. /\ call \in [Threads -> GoodCalls] /\ \A t \in Threads : call[t].at = "idle"
        /\ slots = MaxConcurrent
        /\ state = "CLOSED" /\ failures = 0 /\ rested = 0 /\ probing = FALSE
    BY <1>1 DEF Init, BreakerInit
  <1>3. Busy = {}
    BY <1>2 DEF Busy, At
  <1>4. SlotsAreHeld
    BY <1>2, <1>3, FS_EmptySet, CallsAreFinite, Durations
  <1>5. Shape
    <2>1. probing \in BOOLEAN
      BY <1>2, Zenon
    <2>2. rested \in 0..ResetTimeout /\ slots \in Nat
      BY <1>2, Durations
    <2> QED
      BY <1>2, <2>1, <2>2 DEF Shape
  <1>6. Alone /\ Counted
    BY <1>2, <1>4, Durations DEF Alone, Counted, InFlight
  <1> QED
    BY <1>5, <1>6 DEF CallsInv

LEMMA CallsStep == CallsInv /\ [Next]_vars => CallsInv'
  <1> SUFFICES ASSUME CallsInv, [Next]_vars PROVE CallsInv'
    OBVIOUS
  <1>1. CASE UNCHANGED vars
    BY <1>1 DEF vars, breaker, CallsInv, Shape, Alone, Counted, SlotsAreHeld, InFlights, At
  <1>2. ASSUME NEW t \in Threads, Acquire(t) \/ Continues(t) PROVE CallsInv'
    BY <1>2, AsideStep, QuietStep, AdmittedStep, OutcomeStep DEF Continues, Quiet
  <1> QED
    BY <1>1, <1>2, ClockStep DEF Next

\* The inductive invariant of the calls, the bulkhead and the breaker (clients.py).
THEOREM CallsInvariant == Spec => []CallsInv
  BY InitCalls, CallsStep, PTL DEF Spec

\* The breaker, the bulkhead and the calls keep their shape; an open circuit counts at
\* most the failures of the calls that were under way when it opened (_on_failure).
THEOREM TypeSafety == Spec => []TypeOK
  <1>1. CallsInv => TypeOK
    <2> SUFFICES ASSUME CallsInv PROVE TypeOK
      OBVIOUS
    <2>1. call \in [Threads -> [at : Places, n : 0..MaxAttempts, left : 0..(Timeout + Backoff),
                                probe : BOOLEAN]]
      BY DEF CallsInv, Shape, GoodCalls
    <2>2. slots \in 0..MaxConcurrent
      BY CallsAreFinite, Durations DEF CallsInv, Shape, Counted
    <2> QED
      BY <2>1, <2>2 DEF CallsInv, Shape, Counted, TypeOK, Places
  <1> QED
    BY <1>1, CallsInvariant, PTL

\* A slot is held by the calls under way and by nothing else (Bulkhead.call).
THEOREM SlotSafety == Spec => []SlotsAreHeld
  <1>1. CallsInv => SlotsAreHeld
    BY DEF CallsInv, Counted
  <1> QED
    BY <1>1, CallsInvariant, PTL

\* Whatever the calls under way when it opened do, a half-open circuit lets one call
\* through at a time (circuit_breaker._before_call): they end before it tries again.
THEOREM OneProbeSafety == Spec => []OneProbe
  <1>1. CallsInv => OneProbe
    <2> SUFFICES ASSUME CallsInv PROVE OneProbe
      OBVIOUS
    <2>1. \A t, u \in Probes : t = u
      BY DEF CallsInv, Alone, Probes, InFlight, Waiting
    <2>2. Probes = {} \/ \E t \in Probes : Probes = {t}
      BY <2>1
    <2>3. Cardinality(Probes) \in {0, 1}
      BY <2>2, FS_EmptySet, FS_Singleton
    <2> QED
      BY <2>3 DEF OneProbe
  <1> QED
    BY <1>1, CallsInvariant, PTL
=============================================================================
