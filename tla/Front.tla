-------------------------------- MODULE Front --------------------------------
(* Clients, the gateway and the threads of Commande. Each attempt of a       *)
(* forward to Commande is one request there, and the gateway may stop waiting *)
(* for a request that Commande still runs.                                    *)
EXTENDS Gateway

CONSTANTS Threads, Connections, Tasks

VARIABLES stage, task, placed

\* Attempt n of the forward of r.
Jobs == {j \in Clients \X (1..Attempts) : j[2] <= Tries(<<j[1], "commande">>)}
Placing == {j \in Jobs : j[1] \in Posts}

C == INSTANCE CommandeThreads

commandeVars == <<stage, task, placed>>

ASSUME ThreadsAssumption ==
    Threads \in Nat \ {0} /\ Connections \in Nat \ {0} /\ IsFiniteSet(Tasks)

\* The gateway's connections to Commande outnumber its threads (proxy.py), and what
\* they let in cannot hold every thread and every connection at once.
ASSUME SizesAssumption == Threads < Pool["commande"] /\ Pool["commande"] < Threads + Connections

vars == <<leg, commandeVars>>

Init == GatewayInit /\ C!CommandeThreadsInit

ToCommande(j) == <<j[1], "commande">>

\* The gateway still waits for the answer to j.
Awaited(j) == Is(ToCommande(j), "sent") /\ leg[ToCommande(j)].n = j[2]

\* An answer that the gateway no longer waits for is lost.
Answers(j, code) == IF Awaited(j) THEN Answered(ToCommande(j), code) ELSE UNCHANGED leg

GatewaySteps(f) ==
    \/ Connect(f) \/ PoolTimeout(f) \/ TimeoutException(f) \/ TransportError(f)
    \/ Service(f) = "livraison" /\ Answered(f, "done")

Runs(j) ==
    \/ /\ C!Begins(j) \/ C!CallsEnd(j) \/ C!Connects(j)
          \/ C!Reads(j) \/ C!Commits(j) \/ C!Refreshes(j)
       /\ UNCHANGED leg
    \/ C!Finishes(j) /\ Answers(j, "done")
    \/ C!WaitTimesOut(j) /\ Answers(j, "error")
    \/ C!Raises(j) /\ Answers(j, "error")

Next ==
    \/ \E r \in Clients : Receive(r) /\ UNCHANGED commandeVars
    \/ \E f \in Forwards : GatewaySteps(f) /\ UNCHANGED commandeVars
    \/ \E j \in Jobs : Awaited(j) /\ C!Arrives(j) /\ UNCHANGED leg
    \/ \E j \in Jobs : Runs(j)
    \/ \E b \in Tasks : (C!TaskConnects(b) \/ C!TaskEnds(b)) /\ UNCHANGED leg

Spec == Init /\ [][Next]_vars

\* What holds a thread or a connection goes on; nothing is assumed of the gateway.
Fairness ==
    /\ \A j \in Jobs : WF_vars(Runs(j))
    /\ \A b \in Tasks : WF_vars(C!TaskEnds(b) /\ UNCHANGED leg)

FairSpec == Spec /\ Fairness

-----------------------------------------------------------------------------
(* Properties.                                                              *)

Codes == {"none", "done", "error", "full", "lost"}

\* No more threads and connections are taken than there are.
TypeOK ==
    /\ leg \in [Forwards -> [at : {"idle", "pool", "sent", "over"},
                             n : 1..Attempts, code : Codes]]
    /\ \A s \in Services : Open(s) <= Pool[s]
    /\ stage \in [Jobs -> C!Stages] /\ task \in [Tasks -> {"rests", "works"}]
    /\ placed \subseteq Placing
    /\ Cardinality({j \in Jobs : stage[j] \in C!InThread}) <= Threads

PlacedBy(r) == {j \in placed : j[1] = r}

\* A client that placed one order finds one, or learns that there is none: accepted, it
\* exists; refused for want of a connection, nothing was sent and nothing will be
\* (proxy.py, "rejouer un POST /orders créerait une seconde commande"). An error, or no
\* answer, tells it nothing: create_order may have committed before it raised.
AnswerTellsTheOrder ==
    \A r \in Posts :
        /\ Cardinality(PlacedBy(r)) <= 1
        /\ Reply(r) = "done" => PlacedBy(r) # {}
        /\ Reply(r) = "full" => \A j \in Jobs : j[1] = r => C!At(j, "none")

\* Every thread waits for a connection, and every connection for a thread.
Standstill ==
    /\ ~C!ThreadIsFree
    /\ \A j \in Jobs : stage[j] \in C!InThread => stage[j] \in {"waits", "rereads"}
    /\ ~C!ConnectionIsFree
    /\ \A j \in Jobs : stage[j] \in C!Connected => C!At(j, "leaves")
    /\ \A b \in Tasks : task[b] = "rests"

\* Threads that wait for connections and connections that wait for threads never block
\* each other unless the gateway gave up requests that Commande still runs: what it waits
\* for is bounded by its own pool (database.py, proxy.py SERVICE_MAX_CONNECTIONS).
StandstillNeedsAbandoned ==
    Standstill => \E j \in Jobs : stage[j] \in {"waits", "rereads", "leaves"} /\ ~Awaited(j)

\* A request that reached Commande ends, standstill or not: mieux vaut une erreur qu'un
\* blocage (database.py, pool_timeout).
EveryRequestEnds == \A j \in Jobs : C!At(j, "queued") ~> C!At(j, "ended")
=============================================================================
