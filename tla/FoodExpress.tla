---------------------------- MODULE FoodExpress ----------------------------
(* The saga that takes an order through Restaurant, Paiement and Livraison. *)
(* Commande runs one thread per POST /orders, the RabbitMQ consumer and the *)
(* deadline thread that conclude the delivery, HTTP callbacks that do the    *)
(* same, and the outbox relay. Its HTTP calls travel over a network that     *)
(* loses and delays; the services and the broker answer them.                *)
EXTENDS Commande, Paiement, Restaurant, Livraison

CONSTANTS
    MaxAttempts,     \* MAX_ATTEMPTS of with_retry
    Background,      \* which of the two background finishers run
    Callbacks,       \* threads that serve POST /orders/{id}/delivery-result
    MaxFaults        \* bound on crashes and failed handlers

ASSUME MaxAttemptsAssumption == MaxAttempts \in Nat \ {0}
ASSUME BackgroundAssumption == Background \subseteq {"consumer", "deadline"}
ASSUME CallbacksAssumption == Callbacks \cap {"consumer", "deadline"} = {}
ASSUME MaxFaultsAssumption == MaxFaults \in Nat

VARIABLES
    phase,           \* phase[o]: where the thread of POST /orders stands
    attempt,         \* attempt[o]: attempts made of the call of this phase
    reply,           \* reply[o]: the answer that reached that thread
    work,            \* threads between the read and the commit of apply_delivery_result
    drain,           \* the queue that the relay drains
    batch,           \* the rows it selected and has not dealt with
    step,            \* how far it is with the first of them
    net,             \* HTTP requests on their way to Paiement and Restaurant
    readyQ,          \* orders in the queue livraison.order_ready
    unacked,         \* those delivered to Livraison and committed, not yet acknowledged
    verdictQ,        \* verdicts in the queue commande.delivery_result
    bound,           \* whether livraison.order_ready exists
    sent,            \* events that reached the broker
    faults           \* faults so far

requestVars == <<phase, attempt, reply>>
relayVars == <<drain, batch, step>>
brokerVars == <<readyQ, unacked, verdictQ, bound, sent>>
serviceVars == <<tx, acceptance>>
vars == <<commandeVars, requestVars, work, relayVars, net, brokerVars,
          serviceVars, livraisonVars, faults>>

Phases == {"new", "accept", "debit", "undo_unavailable", "undo_declined", "ended"}
Calling == {"accept", "debit"}
Finishers == Background \cup Callbacks
Verdicts == [order : Orders, success : BOOLEAN]
Work == [by : Finishers, order : Orders, success : BOOLEAN]
Requests == [op : {"accept", "debit", "cancel", "refund", "void"}, order : Orders,
             n : 0..MaxAttempts]

\* A compensation: one attempt, no answer used.
Compensation(op, o) == [op |-> op, order |-> o, n |-> 0]

Init ==
    /\ CommandeInit /\ PaiementInit /\ RestaurantInit /\ LivraisonInit
    /\ phase = [o \in Orders |-> "new"]
    /\ attempt = [o \in Orders |-> 0]
    /\ reply = [o \in Orders |-> "none"]
    /\ work = {} /\ net = {}
    /\ drain = "idle" /\ batch = {} /\ step = "loaded"
    /\ readyQ = {} /\ unacked = {} /\ verdictQ = {} /\ bound \in BOOLEAN /\ sent = {}
    /\ faults = 0

-----------------------------------------------------------------------------
(* The thread of POST /orders: create_order.                                *)

Goes(o, p) ==
    /\ phase' = [phase EXCEPT ![o] = p]
    /\ attempt' = [attempt EXCEPT ![o] = 0]
    /\ reply' = [reply EXCEPT ![o] = "none"]

\* The menu is read (get_menu): unreachable, without the dish, or fine.
ReadMenu(o) ==
    /\ phase[o] = "new"
    /\ \/ \E cause \in {"MENU_UNAVAILABLE", "PLAT_ABSENT"} :
             Goes(o, "ended") /\ Cancel(o, {cause})
       \/ Goes(o, "accept") /\ UNCHANGED commandeVars
    /\ UNCHANGED <<work, relayVars, net, brokerVars, serviceVars, livraisonVars, faults>>

\* Mutant: one attempt too many.
SendAttempt_OneMore(o) ==
    /\ phase[o] \in Calling
    /\ reply[o] = "none"
    /\ attempt[o] <= MaxAttempts
    /\ attempt' = [attempt EXCEPT ![o] = @ + 1]
    /\ net' = net \cup {[op |-> phase[o], order |-> o, n |-> attempt[o] + 1]}
    /\ UNCHANGED <<commandeVars, phase, reply, work, relayVars, brokerVars, serviceVars,
                   livraisonVars, faults>>

\* with_retry sends the call, again after a timeout or a 5xx.
SendAttempt(o) ==
    /\ phase[o] \in Calling
    /\ reply[o] = "none"
    /\ attempt[o] < MaxAttempts
    /\ attempt' = [attempt EXCEPT ![o] = @ + 1]
    /\ net' = net \cup {[op |-> phase[o], order |-> o, n |-> attempt[o] + 1]}
    /\ UNCHANGED <<commandeVars, phase, reply, work, relayVars, brokerVars, serviceVars,
                   livraisonVars, faults>>

\* The bulkhead is full or the circuit open before any attempt, the last attempt
\* timed out, or the service answered a 4xx that is no verdict.
Unavailable(o) ==
    \/ attempt[o] = 0
    \/ attempt[o] = MaxAttempts /\ reply[o] = "none"
    \/ reply[o] = "rejected"

AcceptUnavailable(o) ==
    /\ phase[o] = "accept" /\ Unavailable(o)
    /\ Goes(o, "ended")
    /\ Cancel(o, {"ACCEPT_UNAVAILABLE"})
    /\ UNCHANGED <<work, relayVars, net, brokerVars, serviceVars, livraisonVars, faults>>

AcceptAnswered(o) ==
    /\ phase[o] = "accept"
    /\ \/ reply[o] = "ok" /\ Goes(o, "debit") /\ UNCHANGED commandeVars
       \/ reply[o] = "refused" /\ Goes(o, "ended") /\ Cancel(o, {"ACCEPT_REFUSED"})
    /\ UNCHANGED <<work, relayVars, net, brokerVars, serviceVars, livraisonVars, faults>>

\* Mutant: a payment that did not answer is taken for declined.
DebitFails_AsDeclined(o) ==
    /\ phase[o] = "debit"
    /\ Unavailable(o) \/ reply[o] = "refused"
    /\ Goes(o, "undo_declined")
    /\ net' = net \cup {Compensation("cancel", o)}
    /\ UNCHANGED <<commandeVars, work, relayVars, brokerVars, serviceVars, livraisonVars,
                   faults>>

\* The debit failed or was declined: the restaurant is asked to forget the order.
DebitFails(o) ==
    /\ phase[o] = "debit"
    /\ \/ Unavailable(o) /\ Goes(o, "undo_unavailable")
       \/ reply[o] = "refused" /\ Goes(o, "undo_declined")
    /\ net' = net \cup {Compensation("cancel", o)}
    /\ UNCHANGED <<commandeVars, work, relayVars, brokerVars, serviceVars, livraisonVars,
                   faults>>

DebitCaptured(o) ==
    /\ phase[o] = "debit" /\ reply[o] = "ok"
    /\ Goes(o, "ended")
    /\ RequestDelivery(o)
    /\ UNCHANGED <<work, relayVars, net, brokerVars, serviceVars, livraisonVars, faults>>

\* The restaurant answered the compensation or did not: the cancellation is committed.
CancelAfterDebit(o) ==
    /\ \/ phase[o] = "undo_unavailable" /\ CancelAndVoid(o)
       \/ phase[o] = "undo_declined" /\ Cancel(o, {"PAYMENT_DECLINED"})
    /\ Goes(o, "ended")
    /\ UNCHANGED <<work, relayVars, net, brokerVars, serviceVars, livraisonVars, faults>>

RequestThread(o) ==
    \/ ReadMenu(o) \/ SendAttempt(o)
    \/ AcceptUnavailable(o) \/ AcceptAnswered(o)
    \/ DebitFails(o) \/ DebitCaptured(o) \/ CancelAfterDebit(o)

-----------------------------------------------------------------------------
(* The services answer. A reply reaches the thread that waits for it, or    *)
(* comes too late: a timeout is a reply that is not received.                *)

Replies(m, r) ==
    \/ UNCHANGED reply
    \/ /\ phase[m.order] = m.op /\ attempt[m.order] = m.n /\ reply[m.order] = "none"
       /\ reply' = [reply EXCEPT ![m.order] = r]

RestaurantAccepts(m) ==
    /\ m \in net /\ m.op = "accept"
    /\ Accept(m.order)
    /\ Replies(m, AcceptReply(acceptance'[m.order]))
    /\ net' = net \ {m}
    /\ UNCHANGED <<commandeVars, phase, attempt, work, relayVars, brokerVars, tx,
                   livraisonVars, faults>>

RestaurantCancels(m) ==
    /\ m \in net /\ m.op = "cancel"
    /\ CancelAcceptance(m.order)
    /\ net' = net \ {m}
    /\ UNCHANGED <<commandeVars, requestVars, work, relayVars, brokerVars, tx,
                   livraisonVars, faults>>

\* An amount that rounds to zero is refused by the schema (422) and touches nothing.
PaiementDebits(m) ==
    /\ m \in net /\ m.op = "debit"
    /\ \/ Debit(m.order) /\ Replies(m, DebitReply(tx'[m.order]))
       \/ tx[m.order] = "NONE" /\ UNCHANGED tx /\ Replies(m, "rejected")
    /\ net' = net \ {m}
    /\ UNCHANGED <<commandeVars, phase, attempt, work, relayVars, brokerVars, acceptance,
                   livraisonVars, faults>>

PaiementRefunds(m) ==
    /\ m \in net /\ m.op = "refund"
    /\ Refund(m.order)
    /\ net' = net \ {m}
    /\ UNCHANGED <<commandeVars, requestVars, work, relayVars, brokerVars, acceptance,
                   livraisonVars, faults>>

\* Mutant: the batch is not sorted.
IsHead_Unsorted(r) == r \in batch

\* The row the relay deals with is the oldest of its batch.
IsHead(r) == r \in batch /\ \A q \in batch : r.id <= q.id

PaiementVoids(m) ==
    /\ m \in net /\ m.op = "void"
    /\ Void(m.order)
    /\ \/ UNCHANGED step
       \/ /\ drain = "voids" /\ step = "waiting"
          /\ \E r \in batch : IsHead(r) /\ r.order = m.order
          /\ step' = "sent"
    /\ net' = net \ {m}
    /\ UNCHANGED <<commandeVars, requestVars, work, drain, batch, brokerVars, acceptance,
                   livraisonVars, faults>>

\* The connection fails before the service acts.
RequestLost(m) ==
    /\ m \in net
    /\ net' = net \ {m}
    /\ UNCHANGED <<commandeVars, requestVars, work, relayVars, brokerVars, serviceVars,
                   livraisonVars, faults>>

Services(m) ==
    \/ RestaurantAccepts(m) \/ RestaurantCancels(m)
    \/ PaiementDebits(m) \/ PaiementRefunds(m) \/ PaiementVoids(m)
    \/ RequestLost(m)

-----------------------------------------------------------------------------
(* The finishers: apply_delivery_result read the order, call the            *)
(* compensations and commit without reading it again.                        *)

Verdict(w) == [order |-> w.order, success |-> w.success]

\* Mutant: the deadline runs from the publication of the request.
Begin_OncePublished(w) ==
    /\ orders[w.order] = "AWAITING_DELIVERY"
    /\ \A v \in work : v.by # w.by
    /\ w.by = "consumer" => Verdict(w) \in verdictQ
    /\ w.by = "deadline" => ~w.success /\ w.order \in readyQ
    /\ work' = work \cup {w}
    /\ net' = IF w.success THEN net
              ELSE net \cup {Compensation("refund", w.order), Compensation("cancel", w.order)}
    /\ UNCHANGED <<commandeVars, requestVars, relayVars, brokerVars, serviceVars,
                   livraisonVars, faults>>

\* The order is read as waiting. On failure the refund and the cancellation are
\* requested; the deadline has deleted the unpublished READY row before, and its
\* transaction holds that row until it commits (see Locked).
Begin(w) ==
    /\ orders[w.order] = "AWAITING_DELIVERY"
    /\ \A v \in work : v.by # w.by
    /\ w.by = "consumer" => Verdict(w) \in verdictQ
    /\ w.by = "deadline" => ~w.success
    /\ work' = work \cup {w}
    /\ net' = IF w.success THEN net
              ELSE net \cup {Compensation("refund", w.order), Compensation("cancel", w.order)}
    /\ UNCHANGED <<commandeVars, requestVars, relayVars, brokerVars, serviceVars,
                   livraisonVars, faults>>

\* The commit, and the consumer's acknowledgement, which a lost connection undoes.
Finish(w) ==
    /\ w \in work
    /\ work' = work \ {w}
    /\ CASE w.success -> Confirm(w.order)
         [] ~w.success /\ w.by # "deadline" -> Cancel(w.order, {"DELIVERY_FAILED"})
         [] OTHER -> Expire(w.order)
    /\ \/ UNCHANGED verdictQ
       \/ w.by = "consumer" /\ verdictQ' = verdictQ \ {Verdict(w)}
    /\ UNCHANGED <<requestVars, relayVars, net, readyQ, unacked, bound, sent, serviceVars,
                   livraisonVars, faults>>

\* A verdict that finds its order concluded is acknowledged without effect, one for an
\* order that is not recorded is rejected.
VerdictIgnored(v) ==
    /\ "consumer" \in Background
    /\ v \in verdictQ
    /\ \A w \in work : w.by # "consumer"
    /\ orders[v.order] # "AWAITING_DELIVERY"
    /\ verdictQ' = verdictQ \ {v}
    /\ UNCHANGED <<commandeVars, requestVars, work, relayVars, net, readyQ, unacked, bound,
                   sent, serviceVars, livraisonVars, faults>>

Finishing == \E w \in Work : Begin(w) \/ Finish(w)

-----------------------------------------------------------------------------
(* The outbox relay: relay_once, in turns of two drains.                    *)

Drains(q, rows) == drain' = q /\ batch' = rows /\ step' = "loaded"
DrainsVoids == Drains("voids", Pending(Voids))
TurnEnds == Drains("idle", {})

\* The transaction of the deadline thread holds the row it deletes.
Locked(r) ==
    /\ r \in UndeliveredRequests(r.order)
    /\ \E w \in work : w.by = "deadline" /\ w.order = r.order

TurnStarts ==
    /\ drain = "idle"
    /\ Pending(outbox) # {}
    /\ Drains("events", Pending(Events))
    /\ UNCHANGED <<commandeVars, requestVars, work, net, brokerVars, serviceVars,
                   livraisonVars, faults>>

\* The row goes to the broker, which drops it when no queue is bound to its type.
Publish(r) ==
    /\ drain = "events" /\ step = "loaded" /\ IsHead(r)
    /\ step' = "sent"
    /\ sent' = sent \cup {[type |-> r.type, order |-> r.order]}
    /\ readyQ' = IF r.type = "READY" /\ bound THEN readyQ \cup {r.order} ELSE readyQ
    /\ UNCHANGED <<commandeVars, requestVars, work, drain, batch, net, unacked, verdictQ,
                   bound, serviceVars, livraisonVars, faults>>

\* The broker is down, or there is nothing left: the other queue is drained.
EventsEnd ==
    /\ drain = "events" /\ (step = "loaded" \/ batch = {})
    /\ DrainsVoids
    /\ UNCHANGED <<commandeVars, requestVars, work, net, brokerVars, serviceVars,
                   livraisonVars, faults>>

SendVoid(r) ==
    /\ drain = "voids" /\ step = "loaded" /\ IsHead(r)
    /\ step' = "waiting"
    /\ net' = net \cup {Compensation("void", r.order)}
    /\ UNCHANGED <<commandeVars, requestVars, work, drain, batch, brokerVars, serviceVars,
                   livraisonVars, faults>>

\* No answer to a void, or there is nothing left: the turn is over.
VoidsEnd ==
    /\ drain = "voids" /\ (step = "waiting" \/ batch = {})
    /\ TurnEnds
    /\ UNCHANGED <<commandeVars, requestVars, work, net, brokerVars, serviceVars,
                   livraisonVars, faults>>

\* published_at is committed, which makes the session forget the rows it loaded.
Mark(r) ==
    /\ step = "sent" /\ IsHead(r) /\ r \in outbox /\ ~Locked(r)
    /\ MarkPublished(r)
    /\ batch' = batch \ {r}
    /\ step' = "expired"
    /\ UNCHANGED <<requestVars, work, drain, net, brokerVars, serviceVars, livraisonVars,
                   faults>>

Reload(r) ==
    /\ step = "expired" /\ IsHead(r) /\ r \in outbox
    /\ step' = "loaded"
    /\ UNCHANGED <<commandeVars, requestVars, work, drain, batch, net, brokerVars,
                   serviceVars, livraisonVars, faults>>

\* The row to mark or to load was deleted: the exception ends the turn.
RowDeleted(r) ==
    /\ step \in {"sent", "expired"} /\ IsHead(r) /\ r \notin outbox
    /\ TurnEnds
    /\ UNCHANGED <<commandeVars, requestVars, work, net, brokerVars, serviceVars,
                   livraisonVars, faults>>

RelayRow(r) == Publish(r) \/ SendVoid(r) \/ Mark(r) \/ Reload(r) \/ RowDeleted(r)
Relay == TurnStarts \/ EventsEnd \/ VoidsEnd \/ \E r \in batch : RelayRow(r)

-----------------------------------------------------------------------------
(* Livraison: its consumer takes one message at a time, and threads that     *)
(* serve POST /deliveries run the same handler for any order.                *)

\* The durable queue is declared and bound when Livraison first reaches the broker.
Bind ==
    /\ ~bound
    /\ bound' = TRUE
    /\ UNCHANGED <<commandeVars, requestVars, work, relayVars, net, readyQ, unacked, verdictQ,
                   sent, serviceVars, livraisonVars, faults>>

\* The consumer assigns a courier to the order of its message.
CourierAssigned(o) ==
    /\ o \in readyQ /\ unacked = {}
    /\ Assign(o)
    /\ unacked' = {o}
    /\ UNCHANGED <<commandeVars, requestVars, work, relayVars, net, readyQ, verdictQ, bound,
                   sent, serviceVars, faults>>

\* POST /deliveries assigns one without the broker, to an order in whatever state.
CourierRequested(o) ==
    /\ Assign(o)
    /\ UNCHANGED <<commandeVars, requestVars, work, relayVars, net, brokerVars, serviceVars,
                   faults>>

\* The verdict is published or, the broker being down, lost.
VerdictAnnounced(o) ==
    /\ Announced(o)
    /\ \/ verdictQ' = verdictQ \cup {[order |-> o, success |-> delivery[o] = "ASSIGNED"]}
       \/ UNCHANGED verdictQ
    /\ UNCHANGED <<commandeVars, requestVars, work, relayVars, net, readyQ, unacked, bound,
                   sent, serviceVars, faults>>

\* The message is acknowledged, after the announcement or because its order has a
\* delivery already; with the connection lost it is delivered again.
Acknowledged(o) ==
    /\ o \in readyQ
    /\ unacked = {} \/ (unacked = {o} /\ o \notin announcing)
    /\ AlreadyAssigned(o)
    /\ unacked' = {}
    /\ readyQ' = readyQ \ {o} \/ UNCHANGED readyQ
    /\ UNCHANGED <<commandeVars, requestVars, work, relayVars, net, verdictQ, bound, sent,
                   serviceVars, faults>>

LivraisonThreads ==
    \/ Bind
    \/ \E o \in Orders :
          CourierAssigned(o) \/ CourierRequested(o) \/ VerdictAnnounced(o) \/ Acknowledged(o)

-----------------------------------------------------------------------------
(* Crashes and handlers that raise, MaxFaults of them.                      *)

Fault == faults < MaxFaults /\ faults' = faults + 1

\* Commande stops and starts again: its threads are gone, its database stays.
CommandeCrashes ==
    /\ Fault
    /\ phase' = [o \in Orders |-> IF phase[o] = "new" THEN "new" ELSE "ended"]
    /\ attempt' = [o \in Orders |-> 0]
    /\ reply' = [o \in Orders |-> "none"]
    /\ work' = {}
    /\ TurnEnds
    /\ UNCHANGED <<commandeVars, net, brokerVars, serviceVars, livraisonVars>>

\* create_order raises, its commit included: the session is rolled back.
RequestFails(o) ==
    /\ Fault
    /\ phase[o] \notin {"new", "ended"}
    /\ Goes(o, "ended")
    /\ UNCHANGED <<commandeVars, work, relayVars, net, brokerVars, serviceVars, livraisonVars>>

\* apply_delivery_result raises: rolled back, and the consumer drops its message.
FinishFails(w) ==
    /\ Fault
    /\ w \in work
    /\ work' = work \ {w}
    /\ verdictQ' = IF w.by = "consumer" THEN verdictQ \ {Verdict(w)} ELSE verdictQ
    /\ UNCHANGED <<commandeVars, requestVars, relayVars, net, readyQ, unacked, bound, sent,
                   serviceVars, livraisonVars>>

\* The relay's turn raises, between a publication and its mark for instance.
RelayFails ==
    /\ Fault
    /\ drain # "idle"
    /\ TurnEnds
    /\ UNCHANGED <<commandeVars, requestVars, work, net, brokerVars, serviceVars,
                   livraisonVars>>

\* Livraison stops before its announcements or its acknowledgement: the message will be
\* delivered again.
LivraisonCrashes ==
    /\ Fault
    /\ announcing \cup unacked # {}
    /\ announcing' = {} /\ unacked' = {}
    /\ UNCHANGED <<commandeVars, requestVars, work, relayVars, net, readyQ, verdictQ, bound,
                   sent, serviceVars, delivery>>

\* handle_order_ready raises before its commit: the message is dropped.
MessageDropped(o) ==
    /\ Fault
    /\ o \in readyQ /\ unacked = {}
    /\ readyQ' = readyQ \ {o}
    /\ UNCHANGED <<commandeVars, requestVars, work, relayVars, net, unacked, verdictQ, bound,
                   sent, serviceVars, livraisonVars>>

Faults ==
    \/ CommandeCrashes \/ RelayFails \/ LivraisonCrashes
    \/ \E o \in Orders : RequestFails(o) \/ MessageDropped(o)
    \/ \E w \in work : FinishFails(w)

-----------------------------------------------------------------------------

Next ==
    \/ \E o \in Orders : RequestThread(o)
    \/ \E m \in net : Services(m)
    \/ Finishing
    \/ \E v \in verdictQ : VerdictIgnored(v)
    \/ Relay
    \/ LivraisonThreads
    \/ Faults

Spec == Init /\ [][Next]_vars

DeadlineThread == \E w \in Work : w.by = "deadline" /\ (Begin(w) \/ Finish(w))
VoidAnswered == \E m \in net : PaiementVoids(m) /\ step' = "sent"

(* Threads that run go on; a broker tried again and again takes an event in *)
(* the end, and Paiement a void. Nothing is assumed of the consumers.        *)
Fairness ==
    /\ \A o \in Orders : WF_vars(phase[o] # "new" /\ RequestThread(o))
    /\ WF_vars(DeadlineThread)
    /\ WF_vars(Relay)
    /\ SF_vars(\E r \in batch : Publish(r))
    /\ SF_vars(VoidAnswered)

FairSpec == Spec /\ Fairness

-----------------------------------------------------------------------------
(* Properties.                                                              *)

\* The state of every process, queue and table has the shape the code gives it.
TypeOK ==
    /\ orders \in [Orders -> OrderStatus]
    /\ saga_log \in [Orders -> SUBSET Steps]
    /\ outbox \subseteq Rows /\ published \subseteq Nat /\ nextId \in Nat
    /\ tx \in [Orders -> TxStatus]
    /\ acceptance \in [Orders -> AcceptanceStatus]
    /\ delivery \in [Orders -> DeliveryStatus] /\ announcing \subseteq Orders
    /\ phase \in [Orders -> Phases]
    /\ attempt \in [Orders -> 0..MaxAttempts]
    /\ reply \in [Orders -> {"none", "ok", "refused", "rejected"}]
    /\ work \subseteq Work
    /\ drain \in {"idle", "events", "voids"}
    /\ batch \subseteq Rows
    /\ step \in {"loaded", "expired", "waiting", "sent"}
    /\ net \subseteq Requests
    /\ readyQ \subseteq Orders /\ unacked \subseteq Orders /\ verdictQ \subseteq Verdicts
    /\ bound \in BOOLEAN
    /\ sent \subseteq [type : EventTypes, order : Orders]
    /\ faults \in 0..MaxFaults

Paid(o) == tx[o] \in Refundable
Taken(o) == acceptance[o] \in {"ACCEPTED", "CANCELLED"}

\* The broker carries a request for a courier only once Commande has recorded the order,
\* the restaurant has taken it and the client has been debited, whatever was retried,
\* answered late or lost on the way (saga.create_order, outbox.relay_once). It is a
\* promise of the saga: POST /deliveries looks for a courier for whoever asks.
CourierRequestsAreEarned ==
    \A e \in sent : e.type = "READY" =>
        orders[e.order] # "ABSENT" /\ Paid(e.order) /\ Taken(e.order)

\* Once the client reads that a debit, if any, will be undone, the transaction of the
\* order is settled or the outbox still has the void to send: no late debit, crash or
\* lost answer leaves a captured transaction with nobody after it (saga.create_order on
\* PaymentUnavailable, outbox._drain). It is about the row Paiement keeps: a charge whose
\* commit failed leaves no row, and stays with the PSP (service.debit).
DebitUnknownIsPursued ==
    \A o \in Orders : "PAYMENT_UNAVAILABLE" \in saga_log[o] /\ tx[o] \notin Settled =>
        \E r \in Pending(Voids) : r.order = o

\* A client told that the payment was declined is never debited for the order, not
\* even by an earlier attempt that Paiement receives last (clients.debit retried).
DeclinedIsNeverCharged ==
    \A o \in Orders : "PAYMENT_DECLINED" \in saga_log[o] => tx[o] = "DECLINED"

Concluded(o) == \E e \in sent : e.order = o /\ e.type \in Terminal

\* The request for a courier never reaches Livraison after the conclusion of its
\* order was published: the relay keeps the order of the outbox across failures,
\* crashes between publication and mark, and deletions (outbox._drain).
ReadyBeforeConclusion ==
    [][\A o \in readyQ' \ readyQ : ~Concluded(o)]_vars

\* A concluded order keeps its status (saga.apply_delivery_result, "idempotent";
\* deadlines.py, "un verdict tardif est ignoré").
ConclusionIsFinal ==
    [][\A o \in Orders : orders[o] \in Terminal => orders'[o] = orders[o]]_vars

\* An order is confirmed only if its client was debited and its restaurant took it, and
\* once it has a courier unless an HTTP callback decided so: verdicts that are repeated,
\* late, announced for POST /deliveries or ahead of the order, expiries under way and
\* finishers that raise confirm nothing else (saga.apply_delivery_result, consumer._handle).
ConfirmedWithCourier ==
    [][\A o \in Orders : orders[o] # "CONFIRMED" /\ orders'[o] = "CONFIRMED" =>
          /\ Paid(o) /\ Taken(o)
          /\ \/ delivery[o] = "ASSIGNED"
             \/ \E w \in work \ work' : w.by \in Callbacks /\ w.order = o]_vars

\* No order waits for a courier for ever, whatever becomes of the broker, of
\* Livraison and of the verdicts (deadlines.expire_overdue).
EveryOrderConcludes ==
    \A o \in Orders : orders[o] = "AWAITING_DELIVERY" ~> orders[o] \in Terminal

\* The transaction of a debit of unknown outcome is settled in the end, whatever the
\* crashes and the voids that were lost (outbox.relay_once, service.void_order). As in
\* DebitUnknownIsPursued, what the PSP did and Paiement could not commit is not undone.
UnknownDebitIsSettled ==
    \A o \in Orders : "PAYMENT_UNAVAILABLE" \in saga_log[o] ~> tx[o] \in Settled

\* Every conclusion is published in the end (outbox.relay_once).
ConclusionIsPublished ==
    \A o \in Orders, s \in Terminal :
        orders[o] = s ~> [type |-> s, order |-> o] \in sent

\* "Votre commande n'a pas été prise" (models.py, RESTAURANT_ACCEPT UNAVAILABLE):
\* the restaurant does not prepare the order, or is about to be told not to.
NotTakenMeansNotAccepted ==
    \A o \in Orders : "ACCEPT_UNAVAILABLE" \in saga_log[o] /\ acceptance[o] = "ACCEPTED" =>
        Compensation("cancel", o) \in net

\* "`DeliveryAssigned` ⇒ CONFIRMED", "`DeliveryFailed` ⇒ `Paiement.refund()` +
\* `Restaurant.cancel()` ⇒ CANCELLED" (saga.py): an order confirmed by a verdict, which no
\* thread is finishing and whose log tells of no failed delivery, keeps its debit.
ConfirmedKeepsItsDebit ==
    \A o \in Orders :
        /\ orders[o] = "CONFIRMED" /\ "DELIVERY_FAILED" \notin saga_log[o]
        /\ \A w \in work : w.order # o
        => tx[o] = "CAPTURED"

\* "Chaque étape est tracée dans saga_log" (saga.py): when the request is over, an order
\* whose debit was captured, at once, by a retry or after its timeout, tells the client
\* of it. Only a crash or a failed commit, which undoes the whole order, can break this.
DebitIsTraced ==
    \A o \in Orders : phase[o] = "ended" /\ Paid(o) =>
        saga_log[o] \cap {"PAYMENT_OK", "PAYMENT_UNAVAILABLE"} # {} \/ faults > 0

-----------------------------------------------------------------------------
(* The inductive invariant behind the safety properties.                    *)

Committed(o) == orders[o] # "ABSENT" /\ Paid(o) /\ Taken(o)

\* What the request thread has learned from an answer holds at the service.
AnswersAreTrue ==
    \A o \in Orders :
        /\ phase[o] = "accept" /\ reply[o] = "ok" => Taken(o)
        /\ phase[o] \in {"debit", "undo_unavailable", "undo_declined"} => Taken(o)
        /\ phase[o] = "debit" /\ reply[o] = "ok" => Paid(o)

\* A courier is requested from the broker, or about to be, for committed orders only.
RequestsAreCommitted ==
    /\ \A r \in outbox \cup batch : r.type = "READY" => Committed(r.order)
    /\ \A e \in sent : e.type = "READY" => Committed(e.order)

\* Ids name rows, and the next one is fresh.
IdsAreFresh ==
    /\ \A r \in outbox \cup batch : r.id < nextId
    /\ \A i \in published : i < nextId
    /\ \A r, q \in outbox \cup batch : r.id = q.id => r = q

\* The relay drains one queue at a time, and holds voids that still exist.
BatchIsOneQueue ==
    /\ drain = "idle" => batch = {}
    /\ drain = "events" => \A r \in batch : r.type # "VOID"
    /\ drain = "voids" => \A r \in batch : r.type = "VOID" /\ r \in outbox

\* A void about to be marked has been carried out.
MarkedVoidIsDone ==
    drain = "voids" /\ step = "sent" =>
        \A r \in batch : IsHead(r) => tx[r.order] \in Settled

\* Only orders whose debit is of unknown outcome are voided, once their thread is over.
VoidsAreForUnknownDebits ==
    /\ \A r \in outbox \cup batch : r.type = "VOID" =>
          "PAYMENT_UNAVAILABLE" \in saga_log[r.order]
    /\ \A m \in net : m.op = "void" => "PAYMENT_UNAVAILABLE" \in saga_log[m.order]
    /\ \A o \in Orders : tx[o] = "VOIDED" => "PAYMENT_UNAVAILABLE" \in saga_log[o]
    /\ \A o \in Orders : phase[o] # "ended" => saga_log[o] = {}

\* An order is recorded when its request ends, and finished only once recorded.
FinishersComeAfter ==
    /\ \A o \in Orders : orders[o] # "ABSENT" => phase[o] = "ended"
    /\ \A w \in work : orders[w.order] # "ABSENT"

\* A refusal that the request thread has read is the bank's.
RefusalIsDeclined ==
    \A o \in Orders :
        /\ phase[o] = "debit" /\ reply[o] = "refused" => tx[o] = "DECLINED"
        /\ phase[o] = "undo_declined" => tx[o] = "DECLINED"

\* The conjunction that every step preserves: what the threads, the queues and the
\* outbox rows know about the services is true (saga.py, outbox.py).
IndInv ==
    /\ TypeOK
    /\ AnswersAreTrue /\ RequestsAreCommitted
    /\ IdsAreFresh /\ BatchIsOneQueue /\ MarkedVoidIsDone /\ DebitUnknownIsPursued
    /\ VoidsAreForUnknownDebits /\ FinishersComeAfter
    /\ RefusalIsDeclined /\ DeclinedIsNeverCharged
=============================================================================
