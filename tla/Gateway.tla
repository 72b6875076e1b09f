------------------------------- MODULE Gateway -------------------------------
(* The gateway between the clients and the services. A client's request is   *)
(* relayed by one forward or, for the tracking of an order, by two in         *)
(* parallel. Each service has its own pool of connections.                    *)
EXTENDS Naturals, FiniteSets

CONSTANTS
    Posts,           \* clients' POST /orders
    Trackings,       \* clients' GET /orders/{id}/suivi
    Attempts,        \* GATEWAY_ATTEMPTS
    Pool             \* Pool[s]: SERVICE_MAX_CONNECTIONS, DEFAULT_MAX_CONNECTIONS

Services == {"commande", "livraison"}

ASSUME AttemptsAssumption == Attempts \in Nat \ {0}
ASSUME PoolAssumption == Pool \in [Services -> Nat \ {0}]
ASSUME ClientsAssumption ==
    IsFiniteSet(Posts) /\ IsFiniteSet(Trackings) /\ Posts \cap Trackings = {}

VARIABLE leg         \* leg[f]: where forward f stands, its attempt and its outcome

Clients == Posts \cup Trackings
Forwards == (Clients \X {"commande"}) \cup (Trackings \X {"livraison"})

Client(f) == f[1]
Service(f) == f[2]

GatewayInit == leg = [f \in Forwards |-> [at |-> "idle", n |-> 1, code |-> "none"]]

Is(f, place) == leg[f].at = place
Moves(f, place) == leg' = [leg EXCEPT ![f].at = place]
Concludes(f, code) == leg' = [leg EXCEPT ![f] = [at |-> "over", n |-> 1, code |-> code]]

Open(s) == Cardinality({f \in Forwards : Service(f) = s /\ Is(f, "sent")})

\* Mutant: every method is replayed.
Tries_Always(f) == Attempts

\* Reads only are replayed.
Tries(f) == IF Client(f) \in Trackings THEN Attempts ELSE 1

\* The route of the client's request calls forward; order_tracking calls it twice.
Receive(r) ==
    /\ Is(<<r, "commande">>, "idle")
    /\ leg' = [f \in Forwards |->
                  IF Client(f) = r THEN [leg[f] EXCEPT !.at = "pool"] ELSE leg[f]]

\* Mutant: the number of connections is not limited.
Connect_Unlimited(f) == Is(f, "pool") /\ Moves(f, "sent")

Connect(f) ==
    /\ Is(f, "pool") /\ Open(Service(f)) < Pool[Service(f)]
    /\ Moves(f, "sent")

\* No connection was free for POOL_TIMEOUT: 503, no other attempt.
PoolTimeout(f) ==
    /\ Is(f, "pool") /\ Open(Service(f)) >= Pool[Service(f)]
    /\ Concludes(f, "full")

\* The service did not answer in time: 504, no other attempt. It goes on.
TimeoutException(f) == Is(f, "sent") /\ Concludes(f, "lost")

\* The connection was refused or cut: another attempt after a pause, or 502.
TransportError(f) ==
    /\ Is(f, "sent")
    /\ IF leg[f].n < Tries(f)
       THEN leg' = [leg EXCEPT ![f].at = "pool", ![f].n = @ + 1]
       ELSE Concludes(f, "lost")

\* Whatever the service answers is relayed, an error too.
Answered(f, code) == Is(f, "sent") /\ Concludes(f, code)

\* The answer to the client: the outcome of the forward. A tracking waits for both,
\* and only that of Commande counts: without Livraison it shows no delivery.
Reply(r) ==
    IF \A f \in Forwards : Client(f) = r => Is(f, "over")
    THEN leg[<<r, "commande">>].code ELSE "none"
=============================================================================
