-------------------------- MODULE LivraisonSessions --------------------------
(* Livraison as it runs: the consumer's thread, which takes READY messages one *)
(* at a time, and threads that serve POST /deliveries all run                  *)
(* handle_order_ready, each in its own database session.                       *)
EXTENDS OrderIds, Sequences, Naturals

CONSTANTS
    Posters,         \* threads that serve POST /deliveries
    MaxReady         \* bound on the READY messages published, redeliveries aside

ASSUME PostersAssumption == "consumer" \notin Posters
ASSUME MaxReadyAssumption == MaxReady \in Nat

VARIABLES
    delivery,        \* delivery[o]: `statut` of the row of o, NONE without a row
    uncovered,       \* orders for which assign_courier finds nobody
    crew,            \* crew[w]: what thread w holds between two statements
    inbox,           \* livraison.order_ready; the message being handled stays at its
                     \* head until it is acknowledged
    ready,           \* READY messages published so far, in order
    announced,       \* announced[o]: verdicts of o that reached the broker
    silenced,        \* orders whose announcement was lost
    rejected         \* orders with a READY message whose handling raised before its commit

deliveryVars ==
    <<delivery, uncovered, crew, inbox, ready, announced, silenced, rejected>>

Crew == {"consumer"} \cup Posters
IdleHand == [at |-> "idle"]

LivraisonSessionsInit ==
    /\ delivery = [o \in Orders |-> "NONE"]
    /\ uncovered \in SUBSET Orders
    /\ crew = [w \in Crew |-> IdleHand]
    /\ inbox = <<>> /\ ready = <<>>
    /\ announced = [o \in Orders |-> 0]
    /\ silenced = {} /\ rejected = {}

Works(w, place) == crew[w].at = place
Carries(w, place, o) == crew' = [crew EXCEPT ![w] = [at |-> place, order |-> o]]

\* handle_order_ready returns: a request is over, the consumer has its message to
\* acknowledge.
Returns(w, o) ==
    /\ crew' = [crew EXCEPT ![w] = IF w = "consumer" THEN [at |-> "ack", order |-> o]
                                   ELSE IdleHand]
    /\ UNCHANGED inbox

\* Thread w is done. The consumer's message, acknowledged or rejected, leaves the queue,
\* unless the broker's connection was lost: then it is delivered again.
Ends(w) ==
    /\ crew' = [crew EXCEPT ![w] = IdleHand]
    /\ \/ w = "consumer" /\ inbox' = Tail(inbox)
       \/ UNCHANGED inbox

\* Committed and not yet announced.
Announcing == {crew[w].order : w \in {v \in Crew : Works(v, "publish")}}

L == INSTANCE Livraison WITH announcing <- Announcing

-----------------------------------------------------------------------------

\* The relay of Commande publishes a READY, perhaps again.
Published(o) ==
    /\ Len(ready) < MaxReady
    /\ ready' = Append(ready, o) /\ inbox' = Append(inbox, o)
    /\ UNCHANGED <<delivery, uncovered, crew, announced, silenced, rejected>>

\* Mutant: the message is acknowledged before it is handled.
HandleOrderReady_AckFirst(w, o) ==
    /\ Works(w, "idle")
    /\ w = "consumer" => inbox # <<>> /\ o = Head(inbox)
    /\ inbox' = IF w = "consumer" THEN Tail(inbox) ELSE inbox
    /\ IF delivery[o] = "NONE" THEN Carries(w, "insert", o) ELSE UNCHANGED crew
    /\ UNCHANGED <<delivery, uncovered, ready, announced, silenced, rejected>>

\* A delivery already recorded is returned; otherwise a courier is looked for.
HandleOrderReady(w, o) ==
    /\ Works(w, "idle")
    /\ w = "consumer" => inbox # <<>> /\ o = Head(inbox)
    /\ IF delivery[o] = "NONE" THEN Carries(w, "insert", o) /\ UNCHANGED inbox
       ELSE Returns(w, o)
    /\ UNCHANGED <<delivery, uncovered, ready, announced, silenced, rejected>>

\* Mutant: a thread that finds the order taken at its commit announces it too.
InsertDelivery_AnnouncesAnyway(w) ==
    /\ Works(w, "insert")
    /\ LET o == crew[w].order IN
       /\ delivery' = IF delivery[o] # "NONE" THEN delivery
                      ELSE [delivery EXCEPT ![o] =
                               IF o \in uncovered THEN "FAILED" ELSE "ASSIGNED"]
       /\ Carries(w, "publish", o)
    /\ UNCHANGED <<uncovered, inbox, ready, announced, silenced, rejected>>

\* Mutant: `order_id` is not unique, and the later commit replaces the row.
InsertDelivery_Reassigns(w) ==
    /\ Works(w, "insert")
    /\ LET o == crew[w].order IN
       /\ \E verdict \in {"ASSIGNED", "FAILED"} :
             delivery' = [delivery EXCEPT ![o] = verdict]
       /\ Carries(w, "publish", o)
    /\ UNCHANGED <<uncovered, inbox, ready, announced, silenced, rejected>>

\* The delivery is committed, or refused when another thread committed the order first:
\* the request answers 500, the consumer's message is rejected.
InsertDelivery(w) ==
    /\ Works(w, "insert")
    /\ LET o == crew[w].order IN
       \/ /\ delivery[o] = "NONE"
          /\ delivery' = [delivery EXCEPT ![o] =
                             IF o \in uncovered THEN "FAILED" ELSE "ASSIGNED"]
          /\ Carries(w, "publish", o)
          /\ UNCHANGED inbox
       \/ /\ delivery[o] # "NONE"
          /\ Ends(w)
          /\ UNCHANGED delivery
    /\ UNCHANGED <<uncovered, ready, announced, silenced, rejected>>

\* The verdict reaches the broker, or nobody is told: the broker cannot be reached, or
\* the row could not be read back before.
Publish(w) ==
    /\ Works(w, "publish")
    /\ LET o == crew[w].order IN
       /\ \/ announced' = [announced EXCEPT ![o] = @ + 1] /\ UNCHANGED silenced
          \/ silenced' = silenced \cup {o} /\ UNCHANGED announced
       /\ Returns(w, o)
    /\ UNCHANGED <<delivery, uncovered, ready, rejected>>

\* The acknowledgement, which a stop (Stops) or a lost connection (Ends) may prevent.
Acknowledge ==
    /\ Works("consumer", "ack")
    /\ Ends("consumer")
    /\ UNCHANGED <<delivery, uncovered, ready, announced, silenced, rejected>>

\* The database refuses the commit: the consumer's message is rejected, not requeued.
Raises(w) ==
    /\ Works(w, "insert")
    /\ rejected' = IF w = "consumer" THEN rejected \cup {crew[w].order} ELSE rejected
    /\ Ends(w)
    /\ UNCHANGED <<delivery, uncovered, ready, announced, silenced>>

\* Livraison stops and starts again: the message that was not acknowledged comes back.
Stops ==
    /\ crew' = [w \in Crew |-> IdleHand]
    /\ silenced' = silenced \cup Announcing
    /\ UNCHANGED <<delivery, uncovered, inbox, ready, announced, rejected>>

LivraisonSessionsNext ==
    \/ \E o \in Orders : Published(o)
    \/ \E w \in Crew :
          \/ \E o \in Orders : HandleOrderReady(w, o)
          \/ InsertDelivery(w) \/ Publish(w) \/ Raises(w)
    \/ Acknowledge \/ Stops

LivraisonSessionsSpec ==
    LivraisonSessionsInit /\ [][LivraisonSessionsNext]_deliveryVars

-----------------------------------------------------------------------------
(* Properties.                                                              *)

LivraisonTypeOK ==
    /\ delivery \in [Orders -> L!DeliveryStatus]
    /\ uncovered \subseteq Orders
    /\ crew \in [Crew -> {IdleHand} \cup [at : {"insert", "publish", "ack"}, order : Orders]]
    /\ ready \in Seq(Orders) /\ Len(ready) <= MaxReady
    /\ inbox \in Seq(Orders) /\ Len(inbox) <= Len(ready)
    /\ announced \in [Orders -> Nat]
    /\ silenced \subseteq Orders /\ rejected \subseteq Orders

\* The consumer, the requests, redeliveries and stops together are the one assignment
\* and the one announcement per order that the saga sees (service.handle_order_ready).
LivraisonPromise == L!LivraisonSpec

\* However many threads handle an order, and after any stop, its verdict is announced
\* exactly once or was lost by the broker or a stop ("sans réassigner ni republier").
AnnouncedOnceOrLost ==
    \A o \in Orders \ Announcing :
        IF delivery[o] = "NONE" THEN announced[o] = 0 /\ o \notin silenced
        ELSE announced[o] + (IF o \in silenced THEN 1 ELSE 0) = 1

\* A READY message leaves the queue only once its order has a delivery, or after an
\* error of the database: not on a stop, a lost connection or an acknowledgement that
\* comes again, and not when the commit of a request wins over the consumer's
\* (messaging.py, the acknowledgement after the handler).
TakenIsDelivered ==
    \A i \in 1..(Len(ready) - Len(inbox)) :
        ready[i] \in rejected \/ delivery[ready[i]] # "NONE"
=============================================================================
