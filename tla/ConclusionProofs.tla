--------------------------- MODULE ConclusionProofs ---------------------------
(* How orders end, for any number of orders, attempts and faults: a request  *)
(* that is over has told of its debit, a courier is asked for before the      *)
(* conclusion is published, and an order is confirmed once it is served.      *)
(* Each needs an invariant of its own beside IndInv.                          *)
EXTENDS FoodExpressProofs

-----------------------------------------------------------------------------
(* The three invariants.                                                    *)

\* The client is told that the debit was captured, or will be undone.
Traced(o) == saga_log[o] \cap {"PAYMENT_OK", "PAYMENT_UNAVAILABLE"} # {}

\* No debit of o was captured, and none on its way can be.
NoDebit(o) ==
    /\ ~Paid(o)
    /\ tx[o] = "DECLINED" \/ \A m \in net : m.op = "debit" => m.order # o

\* The thread has sent no debit, or is over and told nothing of one.
Silent(o) ==
    \/ phase[o] \in {"new", "accept"}
    \/ phase[o] = "ended" /\ ~Traced(o) /\ faults = 0

\* A debit is sent in the phase of that name only, which ends with a trace of it
\* unless the bank refused it.
TraceInv == \A o \in Orders : Silent(o) => NoDebit(o)

\* Rows and conclusions are those of recorded orders.
RowsAreRecorded ==
    /\ \A r \in outbox \cup batch : orders[r.order] # "ABSENT"
    /\ \A e \in sent : orders[e.order] # "ABSENT"

\* What the relay holds is not marked.
BatchIsPending == \A r \in batch : r.id \notin published

\* The request for a courier precedes the conclusion of its order in the outbox, and
\* is in every batch that holds the conclusion, unless it was published before.
RequestIsFirst ==
    \A r \in outbox \cup batch, c \in outbox \cup batch :
        r.type = "READY" /\ c.type \in Terminal /\ r.order = c.order =>
            /\ r.id < c.id
            /\ drain = "events" /\ c \in batch /\ r.id \notin published => r \in batch

\* Once a conclusion has reached the broker no request of its order is left to publish.
ConclusionIsLast ==
    \A r \in outbox \cup batch :
        r.type = "READY" /\ Concluded(r.order) => r.id \in published

OutboxInv == RowsAreRecorded /\ BatchIsPending /\ RequestIsFirst /\ ConclusionIsLast

\* A verdict, in its queue or in the hands of the consumer, is that of the delivery, and
\* the deadline never confirms.
VerdictsAreTrue ==
    /\ \A o \in announcing : delivery[o] # "NONE"
    /\ \A v \in verdictQ :
          delivery[v.order] = IF v.success THEN "ASSIGNED" ELSE "FAILED"
    /\ \A w \in work : w.by = "consumer" =>
          delivery[w.order] = IF w.success THEN "ASSIGNED" ELSE "FAILED"
    /\ \A w \in work : w.by = "deadline" => ~w.success

\* An order that waits for its courier, or that a finisher read as waiting, was debited
\* and taken by the restaurant.
WaitingIsEarned ==
    /\ \A o \in Orders : orders[o] = "AWAITING_DELIVERY" => Paid(o) /\ Taken(o)
    /\ \A w \in work : Paid(w.order) /\ Taken(w.order)

ServedInv == VerdictsAreTrue /\ WaitingIsEarned

-----------------------------------------------------------------------------
(* A debit is traced.                                                       *)

LEMMA TraceFrame ==
    ASSUME TraceInv, UNCHANGED tx,
           \A m \in net' : m.op = "debit" => m \in net,
           \A o \in Orders : Silent(o)' => Silent(o)
    PROVE  TraceInv'
  BY DEF TraceInv, NoDebit, Paid

\* A commit of the saga leaves the other orders alone and forgets no step of this one.
LEMMA CommitTrace ==
    ASSUME TypeOK, NEW o \in Orders,
           \/ \E steps : Cancel(o, steps)
           \/ RequestDelivery(o) \/ CancelAndVoid(o) \/ Confirm(o) \/ Expire(o)
    PROVE  /\ \A p \in Orders : Traced(p) => Traced(p)'
           /\ \A p \in Orders : p # o => saga_log'[p] = saga_log[p]
           /\ RequestDelivery(o) \/ CancelAndVoid(o) => Traced(o)'
  <1>1. saga_log \in [Orders -> SUBSET Steps]
    BY DEF TypeOK
  <1>2. \E steps : /\ saga_log' = [saga_log EXCEPT ![o] = @ \cup steps]
                   /\ RequestDelivery(o) => "PAYMENT_OK" \in steps
                   /\ CancelAndVoid(o) => "PAYMENT_UNAVAILABLE" \in steps
    BY <1>1 DEF Cancel, RequestDelivery, CancelAndVoid, Confirm, Expire, Commit
  <1> QED
    BY <1>1, <1>2 DEF Traced

LEMMA RequestTrace ==
    ASSUME IndInv, TraceInv, NEW o \in Orders, RequestThread(o)
    PROVE  TraceInv'
  <1> USE DEF commandeVars, requestVars, relayVars, brokerVars, serviceVars, livraisonVars
  <1>1. TypeOK
    BY DEF IndInv
  <1>2. ASSUME NEW place, Goes(o, place)
        PROVE  /\ phase'[o] = place
               /\ \A p \in Orders : p # o => phase'[p] = phase[p]
    BY <1>1, <1>2 DEF Goes, TypeOK
  <1>3. CASE ReadMenu(o) \/ AcceptUnavailable(o) \/ AcceptAnswered(o)
    <2>1. Silent(o)
      BY <1>3 DEF ReadMenu, AcceptUnavailable, AcceptAnswered, Silent
    <2>2. /\ \A p \in Orders : p # o => phase'[p] = phase[p] /\ saga_log'[p] = saga_log[p]
          /\ UNCHANGED <<tx, net, faults>>
      BY <1>1, <1>2, <1>3, CommitTrace DEF ReadMenu, AcceptUnavailable, AcceptAnswered
    <2>3. \A p \in Orders : Silent(p)' => Silent(p)
      BY <2>1, <2>2 DEF Silent, Traced
    <2> QED
      BY <2>2, <2>3, TraceFrame
  <1>4. CASE SendAttempt(o)
    <2>1. \A p \in Orders : Silent(p)' <=> Silent(p)
      BY <1>4 DEF SendAttempt, Silent, Traced
    <2>2. ASSUME NEW m \in net', m \notin net, m.op = "debit"
          PROVE  ~Silent(m.order)
      BY <1>4, <2>2 DEF SendAttempt, Silent
    <2> QED
      BY <1>4, <2>1, <2>2 DEF SendAttempt, TraceInv, NoDebit, Paid
  <1>5. CASE DebitFails(o)
    <2>1. /\ \A m \in net' : m.op = "debit" => m \in net
          /\ UNCHANGED <<tx, saga_log, faults>>
          /\ phase'[o] \in {"undo_unavailable", "undo_declined"}
          /\ \A p \in Orders : p # o => phase'[p] = phase[p]
      BY <1>2, <1>5 DEF DebitFails, Compensation
    <2>2. \A p \in Orders : Silent(p)' => Silent(p)
      BY <2>1 DEF Silent, Traced
    <2> QED
      BY <2>1, <2>2, TraceFrame
  <1>6. CASE DebitCaptured(o) \/ (CancelAfterDebit(o) /\ CancelAndVoid(o))
    <2>1. /\ Traced(o)' /\ phase'[o] = "ended"
          /\ \A p \in Orders : p # o => phase'[p] = phase[p] /\ saga_log'[p] = saga_log[p]
          /\ UNCHANGED <<tx, net, faults>>
      BY <1>1, <1>2, <1>6, CommitTrace DEF DebitCaptured, CancelAfterDebit
    <2>2. \A p \in Orders : Silent(p)' => Silent(p)
      BY <2>1 DEF Silent, Traced
    <2> QED
      BY <2>1, <2>2, TraceFrame
  <1>7. CASE CancelAfterDebit(o) /\ ~CancelAndVoid(o)
    <2>1. tx[o] = "DECLINED" /\ Cancel(o, {"PAYMENT_DECLINED"})
      BY <1>7 DEF CancelAfterDebit, IndInv, RefusalIsDeclined
    <2>2. /\ \A p \in Orders : p # o => phase'[p] = phase[p] /\ saga_log'[p] = saga_log[p]
          /\ UNCHANGED <<tx, net, faults>>
      BY <1>1, <1>2, <1>7, <2>1, CommitTrace DEF CancelAfterDebit
    <2>3. \A p \in Orders : p # o /\ Silent(p)' => Silent(p)
      BY <2>2 DEF Silent, Traced
    <2>4. NoDebit(o)'
      BY <2>1, <2>2 DEF NoDebit, Paid, Refundable
    <2> QED
      BY <2>2, <2>3, <2>4 DEF TraceInv, NoDebit, Paid
  <1> QED
    BY <1>3, <1>4, <1>5, <1>6, <1>7 DEF RequestThread

\* Paiement captures no debit that it was not asked for.
LEMMA ServiceTrace ==
    ASSUME IndInv, TraceInv, NEW m \in net, Services(m)
    PROVE  TraceInv'
  <1> USE DEF commandeVars, requestVars, relayVars, brokerVars, serviceVars, livraisonVars
  <1>1. TypeOK /\ m.order \in Orders
    BY DEF IndInv, TypeOK, Requests
  <1>2. /\ net' \subseteq net
        /\ UNCHANGED <<phase, saga_log, faults>>
    BY DEF Services, RestaurantAccepts, RestaurantCancels, PaiementDebits, PaiementRefunds,
           PaiementVoids, RequestLost
  <1>3. \A p \in Orders : Silent(p)' => Silent(p)
    BY <1>2 DEF Silent, Traced
  <1>4. CASE UNCHANGED tx
    BY <1>2, <1>3, <1>4, TraceFrame
  <1>5. CASE tx' # tx
    <2>1. (m.op = "debit" /\ Debit(m.order)) \/ Refund(m.order) \/ Void(m.order)
      BY <1>5 DEF Services, RestaurantAccepts, RestaurantCancels, PaiementDebits,
                  PaiementRefunds, PaiementVoids, RequestLost
    <2>2. ASSUME NEW p \in Orders, NoDebit(p)
          PROVE  ~Paid(p)' /\ (tx[p] = "DECLINED" => tx'[p] = "DECLINED")
      BY <1>1, <2>1, <2>2 DEF NoDebit, Debit, Refund, Void, VoidOutcome, Paid, Refundable,
                              TypeOK, TxStatus
    <2> QED
      BY <1>2, <1>3, <2>2 DEF TraceInv, NoDebit
  <1> QED
    BY <1>4, <1>5

\* The other threads send no debit and forget no step.
LEMMA OtherTrace ==
    ASSUME IndInv, TraceInv,
           Finishing \/ (\E v \in verdictQ : VerdictIgnored(v)) \/ Relay \/ LivraisonThreads
    PROVE  TraceInv'
  <1> USE DEF commandeVars, requestVars, relayVars, brokerVars, serviceVars, livraisonVars
  <1>1. TypeOK
    BY DEF IndInv
  <1>2. /\ UNCHANGED <<phase, tx, faults>>
        /\ \A m \in net' : m.op = "debit" => m \in net
    BY DEF Finishing, Begin, Finish, VerdictIgnored, Relay, TurnStarts, EventsEnd, VoidsEnd,
           RelayRow, Publish, SendVoid, Mark, Reload, RowDeleted, LivraisonThreads, Bind,
           CourierAssigned, CourierRequested, VerdictAnnounced, Acknowledged, Compensation
  <1>3. \A p \in Orders : Traced(p) => Traced(p)'
    <2>1. CASE UNCHANGED saga_log
      BY <2>1 DEF Traced
    <2>2. ASSUME NEW w \in Work, Finish(w)
          PROVE  \A p \in Orders : Traced(p) => Traced(p)'
      <3>1. w.order \in Orders
        BY DEF Work
      <3> QED
        BY <1>1, <2>2, <3>1, CommitTrace DEF Finish
    <2> QED
      BY <2>1, <2>2
         DEF Finishing, Begin, VerdictIgnored, Relay, TurnStarts, EventsEnd, VoidsEnd,
             RelayRow, Publish, SendVoid, Mark, MarkPublished, Reload, RowDeleted,
             LivraisonThreads, Bind, CourierAssigned, CourierRequested, VerdictAnnounced, Acknowledged
  <1> QED
    BY <1>2, <1>3, TraceFrame DEF Silent

\* After a fault nothing is claimed of the requests that were under way.
LEMMA FaultTrace ==
    ASSUME IndInv, TraceInv, Faults
    PROVE  TraceInv'
  <1> USE DEF commandeVars, requestVars, relayVars, brokerVars, serviceVars, livraisonVars
  <1>1. TypeOK
    BY DEF IndInv
  <1>2. UNCHANGED <<tx, net>> /\ faults' # 0
    BY <1>1 DEF Faults, CommandeCrashes, RelayFails, LivraisonCrashes, RequestFails,
                MessageDropped, FinishFails, Fault, TypeOK
  <1>3. \A p \in Orders : phase'[p] = phase[p] \/ phase'[p] = "ended"
    BY <1>1 DEF Faults, CommandeCrashes, RelayFails, LivraisonCrashes, RequestFails, Goes,
                MessageDropped, FinishFails, TypeOK
  <1> QED
    BY <1>2, <1>3, TraceFrame DEF Silent

LEMMA TraceStep == IndInv /\ TraceInv /\ [Next]_vars => TraceInv'
  <1> SUFFICES ASSUME IndInv, TraceInv, [Next]_vars
               PROVE  TraceInv'
    OBVIOUS
  <1>1. CASE UNCHANGED vars
    BY <1>1, TraceFrame DEF vars, commandeVars, requestVars, serviceVars, Silent, Traced
  <1> QED
    BY <1>1, RequestTrace, ServiceTrace, OtherTrace, FaultTrace DEF Next

LEMMA InitTrace == Init => TraceInv
  BY DEF Init, PaiementInit, TraceInv, NoDebit, Paid, Refundable

\* The client learns of every debit that was captured for its order, unless Commande
\* stopped or its commit failed (saga.create_order).
THEOREM TraceSafety == Spec => []DebitIsTraced
  <1>1. IndInv /\ TraceInv => DebitIsTraced
    BY DEF IndInv, TypeOK, TraceInv, Silent, NoDebit, Traced, DebitIsTraced
  <1>2. IndInv /\ TraceInv /\ [Next]_vars => TraceInv'
    BY TraceStep
  <1> QED
    BY <1>1, <1>2, InitTrace, Invariant, PTL DEF Spec

-----------------------------------------------------------------------------
(* A courier is asked for before the conclusion is published.               *)

OutboxFrame ==
    UNCHANGED <<orders, outbox, published, nextId, drain, batch, sent>>

LEMMA OutboxStays ==
    ASSUME OutboxInv, OutboxFrame
    PROVE  OutboxInv'
  BY DEF OutboxInv, OutboxFrame, RowsAreRecorded, BatchIsPending, RequestIsFirst,
         ConclusionIsLast, Concluded

\* A transaction on order o inserts fresh rows; a request for a courier is the first
\* row of its order.
LEMMA RowsAdded ==
    ASSUME NEW o \in Orders, TypeOK,
           \/ \E steps : Cancel(o, steps)
           \/ RequestDelivery(o) /\ orders[o] = "ABSENT"
           \/ CancelAndVoid(o) \/ Confirm(o) \/ Expire(o)
    PROVE  /\ \A p \in Orders : p # o => orders'[p] = orders[p]
           /\ orders'[o] # "ABSENT"
           /\ published' = published
           /\ \A r \in outbox' \ outbox : r.order = o /\ r.id \in Nat /\ r.id >= nextId
           /\ \A r \in outbox' \ outbox : r.type = "READY" =>
                 /\ orders[o] = "ABSENT"
                 /\ \A c \in outbox' \ outbox : c.type = "READY"
  <1>1. nextId \in Nat /\ orders \in [Orders -> OrderStatus]
    BY DEF TypeOK
  <1>2. CASE \E steps : Cancel(o, steps)
    BY <1>1, <1>2, OneRow DEF Cancel, Commit
  <1>3. CASE RequestDelivery(o) /\ orders[o] = "ABSENT"
    BY <1>1, <1>3, OneRow DEF RequestDelivery, Commit
  <1>4. CASE CancelAndVoid(o)
    BY <1>1, <1>4, TwoRows DEF CancelAndVoid, Commit
  <1>5. CASE Confirm(o)
    BY <1>1, <1>5, OneRow DEF Confirm, Commit
  <1>6. CASE Expire(o)
    BY <1>1, <1>6, OneRow DEF Expire, Commit
  <1> QED
    BY <1>2, <1>3, <1>4, <1>5, <1>6

LEMMA OutboxCommit ==
    ASSUME NEW o \in Orders, IndInv, OutboxInv,
           \/ \E steps : Cancel(o, steps)
           \/ RequestDelivery(o) /\ orders[o] = "ABSENT"
           \/ CancelAndVoid(o) \/ Confirm(o) \/ Expire(o),
           UNCHANGED <<drain, batch, sent>>
    PROVE  OutboxInv'
  <1> DEFINE New == outbox' \ outbox
             Old == outbox \cup batch
  <1>1. /\ TypeOK
        /\ \A r \in Old : r.id \in Nat /\ r.id < nextId /\ r.order \in Orders
        /\ \A e \in sent : e.order \in Orders
        /\ nextId \in Nat
    BY DEF IndInv, TypeOK, IdsAreFresh, Rows
  <1>2. /\ \A p \in Orders : p # o => orders'[p] = orders[p]
        /\ orders'[o] # "ABSENT"
        /\ published' = published
        /\ \A r \in New : r.order = o /\ r.id \in Nat /\ r.id >= nextId
        /\ \A r \in New : r.type = "READY" =>
              orders[o] = "ABSENT" /\ \A c \in New : c.type = "READY"
    BY <1>1, RowsAdded
  <1>3. \A r \in (outbox \cup batch)' : r \in Old \/ r \in New
    OBVIOUS
  <1> HIDE DEF New
  <1>4. RowsAreRecorded'
    BY <1>1, <1>2, <1>3 DEF OutboxInv, RowsAreRecorded
  <1>5. BatchIsPending'
    BY <1>2 DEF OutboxInv, BatchIsPending
  <1>6. ASSUME NEW r \in (outbox \cup batch)', NEW c \in (outbox \cup batch)',
               r.type = "READY", c.type \in Terminal, r.order = c.order
        PROVE  /\ r.id < c.id
               /\ drain' = "events" /\ c \in batch' /\ r.id \notin published' => r \in batch'
    <2>1. CASE r \in Old /\ c \in Old
      BY <1>2, <1>6, <2>1 DEF OutboxInv, RequestIsFirst
    <2>2. CASE r \in Old /\ c \in New
      <3>1. r.id < c.id
        BY <1>1, <1>2, <2>2
      <3>2. c \notin batch
        BY <1>1, <1>2, <2>2
      <3> QED
        BY <3>1, <3>2
    <2>3. CASE r \in New
      <3>1. c \notin New
        BY <1>2, <1>6, <2>3 DEF Terminal
      <3>2. orders[c.order] # "ABSENT"
        BY <1>3, <3>1 DEF OutboxInv, RowsAreRecorded
      <3> QED
        BY <1>2, <1>6, <2>3, <3>2
    <2> QED
      BY <1>3, <2>1, <2>2, <2>3
  <1>7. RequestIsFirst'
    BY <1>6 DEF RequestIsFirst
  <1>8. ASSUME NEW r \in (outbox \cup batch)', r.type = "READY", Concluded(r.order)
        PROVE  r.id \in published'
    <2>1. CASE r \in Old
      BY <1>2, <1>8, <2>1 DEF OutboxInv, ConclusionIsLast
    <2>2. CASE r \in New
      BY <1>2, <1>8, <2>2 DEF OutboxInv, RowsAreRecorded, Concluded
    <2> QED
      BY <1>3, <2>1, <2>2
  <1>9. ConclusionIsLast'
    BY <1>8 DEF ConclusionIsLast, Concluded
  <1> QED
    BY <1>4, <1>5, <1>7, <1>9 DEF OutboxInv

LEMMA RequestOutbox ==
    ASSUME IndInv, OutboxInv, NEW o \in Orders, RequestThread(o)
    PROVE  OutboxInv'
  <1> USE DEF commandeVars, relayVars, brokerVars
  <1>1. phase[o] # "ended" => orders[o] = "ABSENT"
    BY DEF IndInv, FinishersComeAfter
  <1>2. \/ OutboxFrame
        \/ /\ UNCHANGED <<drain, batch, sent>>
           /\ \/ \E steps : Cancel(o, steps)
              \/ RequestDelivery(o) /\ orders[o] = "ABSENT"
              \/ CancelAndVoid(o)
    BY <1>1 DEF RequestThread, ReadMenu, SendAttempt, AcceptUnavailable, AcceptAnswered,
                DebitFails, DebitCaptured, CancelAfterDebit, OutboxFrame
  <1> QED
    BY <1>2, OutboxStays, OutboxCommit

LEMMA FinisherOutbox ==
    ASSUME IndInv, OutboxInv, Finishing
    PROVE  OutboxInv'
  <1> USE DEF commandeVars, relayVars, brokerVars
  <1>1. PICK w \in Work : Begin(w) \/ Finish(w)
    BY DEF Finishing
  <1>2. CASE Begin(w)
    BY <1>2, OutboxStays DEF Begin, OutboxFrame
  <1>3. CASE Finish(w)
    <2>1. w.order \in Orders
      BY DEF Work
    <2>2. /\ UNCHANGED <<drain, batch, sent>>
          /\ \/ \E steps : Cancel(w.order, steps)
             \/ Confirm(w.order) \/ Expire(w.order)
      BY <1>3 DEF Finish
    <2> QED
      BY <2>1, <2>2, OutboxCommit
  <1> QED
    BY <1>1, <1>2, <1>3

\* A batch that is taken is complete; one that is dropped was not needed.
LEMMA OutboxDrains ==
    ASSUME IndInv, OutboxInv, NEW q \in {"idle", "events", "voids"}, NEW rows,
           Drains(q, rows), rows \in SUBSET Pending(outbox),
           q = "events" => rows = Pending(Events),
           UNCHANGED <<orders, outbox, published, nextId, sent>>
    PROVE  OutboxInv'
  <1>1. drain' = q /\ batch' = rows /\ rows \subseteq outbox
    BY DEF Drains, Pending
  <1>2. RowsAreRecorded' /\ ConclusionIsLast'
    BY <1>1 DEF OutboxInv, RowsAreRecorded, ConclusionIsLast, Concluded
  <1>3. BatchIsPending'
    BY <1>1 DEF BatchIsPending, Pending
  <1>4. RequestIsFirst'
    BY <1>1 DEF OutboxInv, RequestIsFirst, Pending, Events
  <1> QED
    BY <1>2, <1>3, <1>4 DEF OutboxInv

\* The head of the batch is a conclusion only when its request is behind it.
LEMMA PublishOutbox ==
    ASSUME IndInv, OutboxInv, NEW r \in batch, Publish(r)
    PROVE  OutboxInv'
  <1> USE DEF commandeVars, brokerVars
  <1>1. /\ drain = "events" /\ IsHead(r) /\ UNCHANGED <<orders, outbox, published, drain, batch>>
        /\ sent' = sent \cup {[type |-> r.type, order |-> r.order]}
    BY DEF Publish
  <1>2. \A q \in outbox \cup batch : q.id \in Nat
    BY DEF IndInv, TypeOK, Rows
  <1>3. RowsAreRecorded'
    BY <1>1 DEF OutboxInv, RowsAreRecorded
  <1>4. ASSUME NEW q \in outbox \cup batch, q.type = "READY", Concluded(q.order)'
        PROVE  q.id \in published
    <2>1. CASE Concluded(q.order)
      BY <1>4, <2>1 DEF OutboxInv, ConclusionIsLast
    <2>2. CASE r.type \in Terminal /\ r.order = q.order
      <3>1. q.id < r.id /\ (q.id \notin published => q \in batch)
        BY <1>1, <1>4, <2>2 DEF OutboxInv, RequestIsFirst
      <3>2. q \notin batch
        BY <1>1, <1>2, <3>1 DEF IsHead
      <3> QED
        BY <3>1, <3>2
    <2> QED
      BY <1>1, <1>4, <2>1, <2>2 DEF Concluded
  <1>5. ConclusionIsLast'
    BY <1>1, <1>4 DEF ConclusionIsLast
  <1>6. BatchIsPending' /\ RequestIsFirst'
    BY <1>1 DEF OutboxInv, BatchIsPending, RequestIsFirst
  <1> QED
    BY <1>3, <1>5, <1>6 DEF OutboxInv

LEMMA MarkOutbox ==
    ASSUME IndInv, OutboxInv, NEW r \in batch, Mark(r)
    PROVE  OutboxInv'
  <1> USE DEF brokerVars
  <1>1. /\ published' = published \cup {r.id} /\ batch' = batch \ {r}
        /\ UNCHANGED <<orders, outbox, drain, sent>>
    BY DEF Mark, MarkPublished
  <1>2. \A q, s \in outbox \cup batch : q.id = s.id => q = s
    BY DEF IndInv, IdsAreFresh
  <1>3. BatchIsPending'
    BY <1>1, <1>2 DEF OutboxInv, BatchIsPending
  <1>4. RequestIsFirst'
    BY <1>1 DEF OutboxInv, RequestIsFirst
  <1>5. RowsAreRecorded' /\ ConclusionIsLast'
    BY <1>1 DEF OutboxInv, RowsAreRecorded, ConclusionIsLast, Concluded
  <1> QED
    BY <1>3, <1>4, <1>5 DEF OutboxInv

LEMMA RelayOutbox ==
    ASSUME IndInv, OutboxInv, Relay
    PROVE  OutboxInv'
  <1> USE DEF commandeVars, brokerVars
  <1>1. /\ Pending(Events) \subseteq Pending(outbox)
        /\ Pending(Voids) \subseteq Pending(outbox)
    BY DEF Pending, Events, Voids
  <1>2. CASE TurnStarts
    BY <1>1, <1>2, OutboxDrains DEF TurnStarts
  <1>3. CASE EventsEnd
    BY <1>1, <1>3, OutboxDrains DEF EventsEnd, DrainsVoids
  <1>4. CASE VoidsEnd
    BY <1>4, OutboxDrains DEF VoidsEnd, TurnEnds
  <1>5. ASSUME NEW r \in batch, SendVoid(r) \/ Reload(r)
        PROVE  OutboxInv'
    BY <1>5, OutboxStays DEF SendVoid, Reload, OutboxFrame
  <1>6. ASSUME NEW r \in batch, RowDeleted(r)
        PROVE  OutboxInv'
    BY <1>6, OutboxDrains DEF RowDeleted, TurnEnds
  <1> QED
    BY <1>2, <1>3, <1>4, <1>5, <1>6, PublishOutbox, MarkOutbox DEF Relay, RelayRow

LEMMA FaultOutbox ==
    ASSUME IndInv, OutboxInv, Faults
    PROVE  OutboxInv'
  <1> USE DEF commandeVars, relayVars, brokerVars
  <1>1. \/ OutboxFrame
        \/ TurnEnds /\ UNCHANGED <<orders, outbox, published, nextId, sent>>
    BY DEF Faults, CommandeCrashes, RelayFails, LivraisonCrashes, RequestFails,
           MessageDropped, FinishFails, OutboxFrame
  <1> QED
    BY <1>1, OutboxStays, OutboxDrains DEF TurnEnds

LEMMA OutboxStep == IndInv /\ OutboxInv /\ [Next]_vars => OutboxInv'
  <1> SUFFICES ASSUME IndInv, OutboxInv, [Next]_vars
               PROVE  OutboxInv'
    OBVIOUS
  <1> USE DEF commandeVars, relayVars, brokerVars
  <1>1. CASE UNCHANGED vars
    BY <1>1, OutboxStays DEF vars, OutboxFrame
  <1>2. ASSUME NEW m \in net, Services(m)
        PROVE  OutboxInv'
    BY <1>2, OutboxStays
       DEF Services, RestaurantAccepts, RestaurantCancels, PaiementDebits, PaiementRefunds,
           PaiementVoids, RequestLost, OutboxFrame
  <1>3. CASE (\E v \in verdictQ : VerdictIgnored(v)) \/ LivraisonThreads
    BY <1>3, OutboxStays DEF VerdictIgnored, LivraisonThreads, Bind, CourierAssigned,
                             CourierRequested, VerdictAnnounced, Acknowledged, OutboxFrame
  <1> QED
    BY <1>1, <1>2, <1>3, RequestOutbox, FinisherOutbox, RelayOutbox, FaultOutbox DEF Next

LEMMA InitOutbox == Init => OutboxInv
  BY DEF Init, CommandeInit, OutboxInv, RowsAreRecorded, BatchIsPending, RequestIsFirst,
         ConclusionIsLast

\* Only a publication brings a request to Livraison, and it publishes a pending row.
LEMMA RequestArrives ==
    ASSUME IndInv, OutboxInv, [Next]_vars, NEW o \in readyQ' \ readyQ
    PROVE  ~Concluded(o)
  <1> USE DEF brokerVars
  <1>1. PICK r \in batch : Publish(r)
    BY DEF Next, vars, RequestThread, ReadMenu, SendAttempt, AcceptUnavailable,
           AcceptAnswered, DebitFails, DebitCaptured, CancelAfterDebit,
           Services, RestaurantAccepts, RestaurantCancels, PaiementDebits, PaiementRefunds,
           PaiementVoids, RequestLost, Finishing, Begin, Finish, VerdictIgnored,
           Relay, TurnStarts, EventsEnd, VoidsEnd, RelayRow, SendVoid, Mark, Reload, RowDeleted,
           LivraisonThreads, Bind, CourierAssigned, CourierRequested, VerdictAnnounced, Acknowledged,
           Faults, CommandeCrashes, RelayFails, LivraisonCrashes, RequestFails,
           MessageDropped, FinishFails
  <1>2. r.type = "READY" /\ o = r.order
    BY <1>1 DEF Publish
  <1> QED
    BY <1>2 DEF OutboxInv, ConclusionIsLast, BatchIsPending

\* The relay keeps the order of the outbox through failures, crashes between publication
\* and mark, and rows deleted under it (outbox._drain).
THEOREM OrderSafety == Spec => ReadyBeforeConclusion
  <1>1. IndInv /\ OutboxInv /\ [Next]_vars => [\A o \in readyQ' \ readyQ : ~Concluded(o)]_vars
    BY RequestArrives
  <1>2. IndInv /\ OutboxInv /\ [Next]_vars => OutboxInv'
    BY OutboxStep
  <1> QED
    BY <1>1, <1>2, InitOutbox, Invariant, PTL DEF Spec, ReadyBeforeConclusion

-----------------------------------------------------------------------------
(* A confirmed order is served.                                             *)

\* Livraison changes no delivery that it has recorded.
LEMMA VerdictsStay ==
    ASSUME TypeOK, VerdictsAreTrue,
           \A o \in Orders : delivery[o] # "NONE" => delivery'[o] = delivery[o],
           \A o \in announcing' : o \in announcing \/ delivery'[o] # "NONE",
           verdictQ' \subseteq verdictQ, work' \subseteq work
    PROVE  VerdictsAreTrue'
  <1>1. /\ \A o \in announcing : o \in Orders
        /\ \A v \in verdictQ : v.order \in Orders
        /\ \A w \in work : w.order \in Orders
    BY DEF TypeOK, Verdicts, Work
  <1> QED
    BY <1>1 DEF VerdictsAreTrue

LEMMA WaitingStays ==
    ASSUME TypeOK, WaitingIsEarned,
           \A o \in Orders : Paid(o) => Paid(o)',
           \A o \in Orders : Taken(o) => Taken(o)',
           \A o \in Orders : orders'[o] = "AWAITING_DELIVERY" =>
                                 orders[o] = "AWAITING_DELIVERY" \/ (Paid(o) /\ Taken(o)),
           \A w \in work' : w \in work \/ (w \in Work /\ orders[w.order] = "AWAITING_DELIVERY")
    PROVE  WaitingIsEarned'
  <1>1. \A w \in work \cup Work : w.order \in Orders
    BY DEF TypeOK, Work
  <1> QED
    BY <1>1 DEF WaitingIsEarned

\* The status of the orders after a commit of the saga.
LEMMA CommitStatus ==
    ASSUME TypeOK, NEW o \in Orders, NEW statut, NEW steps, NEW deleted, NEW types,
           Commit(o, statut, steps, deleted, types)
    PROVE  orders'[o] = statut /\ \A p \in Orders : p # o => orders'[p] = orders[p]
  BY DEF TypeOK, Commit

\* An order waits once its request has read that it was taken and paid.
LEMMA RequestServes ==
    ASSUME IndInv, ServedInv, NEW o \in Orders, RequestThread(o)
    PROVE  /\ ServedInv'
           /\ \A p \in Orders : orders'[p] = "CONFIRMED" => orders[p] = "CONFIRMED"
  <1> USE DEF commandeVars, requestVars, relayVars, brokerVars, serviceVars, livraisonVars
  <1>1. TypeOK /\ VerdictsAreTrue /\ WaitingIsEarned
    BY DEF IndInv, ServedInv
  <1>2. UNCHANGED <<verdictQ, work, tx, acceptance, delivery, announcing>>
    BY DEF RequestThread, ReadMenu, SendAttempt, AcceptUnavailable, AcceptAnswered,
           DebitFails, DebitCaptured, CancelAfterDebit
  <1>3. \/ orders' = orders
        \/ \E steps, deleted, types : Commit(o, "CANCELLED", steps, deleted, types)
        \/ /\ \E steps, deleted, types : Commit(o, "AWAITING_DELIVERY", steps, deleted, types)
           /\ Paid(o) /\ Taken(o)
    BY DEF RequestThread, ReadMenu, SendAttempt, AcceptUnavailable, AcceptAnswered,
           DebitFails, DebitCaptured, CancelAfterDebit, Cancel, CancelAndVoid,
           RequestDelivery, IndInv, AnswersAreTrue
  <1>4. \A p \in Orders :
           /\ orders'[p] = "CONFIRMED" => orders[p] = "CONFIRMED"
           /\ orders'[p] = "AWAITING_DELIVERY" =>
                 orders[p] = "AWAITING_DELIVERY" \/ (Paid(p) /\ Taken(p))
    BY <1>1, <1>3, CommitStatus
  <1>5. WaitingIsEarned'
    BY <1>1, <1>2, <1>4, WaitingStays DEF Paid, Taken
  <1>6. VerdictsAreTrue'
    BY <1>1, <1>2, VerdictsStay DEF VerdictsAreTrue
  <1> QED
    BY <1>4, <1>5, <1>6 DEF ServedInv

\* What was paid stays paid or refunded, what was taken stays taken or cancelled.
LEMMA ServiceServes ==
    ASSUME IndInv, ServedInv, NEW m \in net, Services(m)
    PROVE  ServedInv' /\ orders' = orders
  <1> USE DEF commandeVars, requestVars, relayVars, brokerVars, serviceVars, livraisonVars
  <1>1. TypeOK /\ VerdictsAreTrue /\ WaitingIsEarned /\ m.order \in Orders
    BY DEF IndInv, ServedInv, TypeOK, Requests
  <1>2. UNCHANGED <<orders, verdictQ, work, delivery, announcing>>
    BY DEF Services, RestaurantAccepts, RestaurantCancels, PaiementDebits, PaiementRefunds,
           PaiementVoids, RequestLost
  <1>3. \A o \in Orders : Paid(o) => Paid(o)'
    <2>1. tx' = tx \/ Debit(m.order) \/ Refund(m.order) \/ Void(m.order)
      BY DEF Services, RestaurantAccepts, RestaurantCancels, PaiementDebits, PaiementRefunds,
             PaiementVoids, RequestLost
    <2>2. CASE tx' = tx
      BY <2>2 DEF Paid
    <2> QED
      BY <1>1, <2>1, <2>2, PaiementKeeps DEF TypeOK
  <1>4. \A o \in Orders : Taken(o) => Taken(o)'
    <2>1. acceptance' = acceptance \/ Accept(m.order) \/ CancelAcceptance(m.order)
      BY DEF Services, RestaurantAccepts, RestaurantCancels, PaiementDebits, PaiementRefunds,
             PaiementVoids, RequestLost
    <2>2. CASE acceptance' = acceptance
      BY <2>2 DEF Taken
    <2> QED
      BY <1>1, <2>1, <2>2, RestaurantKeeps DEF TypeOK
  <1>5. WaitingIsEarned'
    BY <1>1, <1>2, <1>3, <1>4, WaitingStays
  <1>6. VerdictsAreTrue'
    BY <1>1, <1>2, VerdictsStay DEF VerdictsAreTrue
  <1> QED
    BY <1>2, <1>5, <1>6 DEF ServedInv

\* A finisher begins with an order that waits, the consumer with the verdict of its
\* delivery as well.
LEMMA FinisherServes ==
    ASSUME IndInv, ServedInv, Finishing
    PROVE  ServedInv'
  <1> USE DEF commandeVars, requestVars, relayVars, brokerVars, serviceVars, livraisonVars
  <1>1. TypeOK /\ VerdictsAreTrue /\ WaitingIsEarned
    BY DEF IndInv, ServedInv
  <1>2. PICK w \in Work : Begin(w) \/ Finish(w)
    BY DEF Finishing
  <1>3. w.order \in Orders
    BY DEF Work
  <1>4. CASE Begin(w)
    <2>1. /\ UNCHANGED <<orders, verdictQ, tx, acceptance, delivery, announcing>>
          /\ work' = work \cup {w} /\ orders[w.order] = "AWAITING_DELIVERY"
      BY <1>4 DEF Begin
    <2>2. WaitingIsEarned'
      BY <1>1, <2>1, WaitingStays DEF Paid, Taken
    <2>3. w.by = "consumer" => delivery[w.order] = IF w.success THEN "ASSIGNED" ELSE "FAILED"
      BY <1>1, <1>4 DEF Begin, Verdict, VerdictsAreTrue
    <2>4. w.by = "deadline" => ~w.success
      BY <1>4 DEF Begin
    <2>5. VerdictsAreTrue'
      BY <1>1, <2>1, <2>3, <2>4 DEF VerdictsAreTrue
    <2> QED
      BY <2>2, <2>5 DEF ServedInv
  <1>5. CASE Finish(w)
    <2>1. /\ UNCHANGED <<tx, acceptance, delivery, announcing>>
          /\ verdictQ' \subseteq verdictQ /\ work' \subseteq work
      BY <1>5 DEF Finish
    <2>2. PICK statut \in {"CONFIRMED", "CANCELLED"} :
             \E steps, deleted, types : Commit(w.order, statut, steps, deleted, types)
      BY <1>5 DEF Finish, Confirm, Cancel, Expire
    <2>3. \A p \in Orders : orders'[p] = "AWAITING_DELIVERY" => orders[p] = "AWAITING_DELIVERY"
      BY <1>1, <1>3, <2>2, CommitStatus
    <2>4. WaitingIsEarned'
      BY <1>1, <2>1, <2>3, WaitingStays DEF Paid, Taken
    <2>5. VerdictsAreTrue'
      BY <1>1, <2>1, VerdictsStay DEF VerdictsAreTrue
    <2> QED
      BY <2>4, <2>5 DEF ServedInv
  <1> QED
    BY <1>2, <1>4, <1>5

\* A courier is found once, for the broker or for a request; the verdict announced is
\* the one recorded.
LEMMA LivraisonServes ==
    ASSUME IndInv, ServedInv, LivraisonThreads
    PROVE  ServedInv' /\ orders' = orders
  <1> USE DEF commandeVars, requestVars, relayVars, brokerVars, serviceVars, livraisonVars
  <1>1. TypeOK /\ VerdictsAreTrue /\ WaitingIsEarned
    BY DEF IndInv, ServedInv
  <1>2. UNCHANGED <<orders, work, tx, acceptance>>
    BY DEF LivraisonThreads, Bind, CourierAssigned, CourierRequested, VerdictAnnounced,
           Acknowledged
  <1>3. WaitingIsEarned'
    BY <1>1, <1>2, WaitingStays DEF Paid, Taken
  <1>4. CASE \E o \in Orders : CourierAssigned(o) \/ CourierRequested(o)
    <2>1. PICK o \in Orders : Assign(o) /\ verdictQ' = verdictQ
      BY <1>4 DEF CourierAssigned, CourierRequested
    <2>2. /\ delivery[o] = "NONE" /\ delivery'[o] # "NONE"
          /\ \A p \in Orders : p # o => delivery'[p] = delivery[p]
          /\ announcing' = announcing \cup {o}
      BY <1>1, <2>1 DEF Assign, TypeOK
    <2>3. \A p \in announcing' : p \in announcing \/ delivery'[p] # "NONE"
      BY <2>2
    <2>4. VerdictsAreTrue'
      BY <1>1, <1>2, <2>1, <2>2, <2>3, VerdictsStay
    <2> QED
      BY <1>2, <1>3, <2>4 DEF ServedInv
  <1>5. CASE \E o \in Orders : VerdictAnnounced(o)
    <2>1. PICK o \in Orders : VerdictAnnounced(o)
      BY <1>5
    <2>2. /\ o \in announcing /\ delivery' = delivery /\ announcing' \subseteq announcing
          /\ \A v \in verdictQ' : v \in verdictQ
                \/ v = [order |-> o, success |-> delivery[o] = "ASSIGNED"]
      BY <2>1 DEF VerdictAnnounced, Announced
    <2>3. delivery[o] \in {"ASSIGNED", "FAILED"}
      BY <1>1, <2>2 DEF VerdictsAreTrue, TypeOK, DeliveryStatus
    <2>4. ASSUME NEW v, v = [order |-> o, success |-> delivery[o] = "ASSIGNED"]
          PROVE  delivery[v.order] = IF v.success THEN "ASSIGNED" ELSE "FAILED"
      <3>1. v.order = o /\ (v.success <=> delivery[o] = "ASSIGNED")
        BY <2>4
      <3> QED
        BY <2>3, <3>1
    <2>5. \A v \in verdictQ' : delivery[v.order] = IF v.success THEN "ASSIGNED" ELSE "FAILED"
      BY <1>1, <2>2, <2>4 DEF VerdictsAreTrue
    <2>6. VerdictsAreTrue'
      BY <1>1, <1>2, <2>2, <2>5 DEF VerdictsAreTrue
    <2> QED
      BY <1>2, <1>3, <2>6 DEF ServedInv
  <1>6. CASE Bind \/ \E o \in Orders : Acknowledged(o)
    <2>1. UNCHANGED <<delivery, announcing, verdictQ>>
      BY <1>6 DEF Bind, Acknowledged, AlreadyAssigned
    <2>2. VerdictsAreTrue'
      BY <1>1, <1>2, <2>1, VerdictsStay DEF VerdictsAreTrue
    <2> QED
      BY <1>2, <1>3, <2>2 DEF ServedInv
  <1> QED
    BY <1>4, <1>5, <1>6 DEF LivraisonThreads

\* The relay, faults and verdicts that come too late end no order.
LEMMA OtherServes ==
    ASSUME IndInv, ServedInv,
           (\E v \in verdictQ : VerdictIgnored(v)) \/ Relay \/ Faults \/ UNCHANGED vars
    PROVE  ServedInv' /\ orders' = orders
  <1> USE DEF commandeVars, requestVars, relayVars, brokerVars, serviceVars, livraisonVars
  <1>1. TypeOK /\ VerdictsAreTrue /\ WaitingIsEarned
    BY DEF IndInv, ServedInv
  <1>2. /\ UNCHANGED <<orders, tx, acceptance, delivery>>
        /\ announcing' \subseteq announcing /\ verdictQ' \subseteq verdictQ
        /\ work' \subseteq work
    BY DEF VerdictIgnored, Relay, TurnStarts, EventsEnd, VoidsEnd, RelayRow, Publish, SendVoid,
           Mark, MarkPublished, Reload, RowDeleted, Faults, CommandeCrashes, RelayFails,
           LivraisonCrashes, RequestFails, MessageDropped, FinishFails, vars
  <1>3. WaitingIsEarned'
    BY <1>1, <1>2, WaitingStays DEF Paid, Taken
  <1>4. VerdictsAreTrue'
    BY <1>1, <1>2, VerdictsStay DEF VerdictsAreTrue
  <1> QED
    BY <1>2, <1>3, <1>4 DEF ServedInv

LEMMA ServedStep == IndInv /\ ServedInv /\ [Next]_vars => ServedInv'
  BY RequestServes, ServiceServes, FinisherServes, LivraisonServes, OtherServes DEF Next

LEMMA InitServed == Init => ServedInv
  BY DEF Init, CommandeInit, LivraisonInit, ServedInv, VerdictsAreTrue, WaitingIsEarned

\* Only the commit of a finisher with a positive verdict confirms an order.
LEMMA ConfirmedByFinisher ==
    ASSUME IndInv, ServedInv, [Next]_vars, NEW o \in Orders,
           orders[o] # "CONFIRMED", orders'[o] = "CONFIRMED"
    PROVE  \E w \in work \ work' : w.order = o /\ w.success
  <1>1. TypeOK
    BY DEF IndInv
  <1>2. PICK w \in Work : Begin(w) \/ Finish(w)
    BY RequestServes, ServiceServes, LivraisonServes, OtherServes DEF Next, Finishing
  <1>3. ~Begin(w)
    BY DEF Begin, commandeVars
  <1>4. Finish(w) /\ w \in work \ work' /\ w.order \in Orders
    BY <1>2, <1>3 DEF Finish, Work
  <1>5. CASE w.success
    <2>1. Confirm(w.order)
      BY <1>4, <1>5 DEF Finish
    <2> QED
      BY <1>1, <1>4, <1>5, <2>1, CommitStatus DEF Confirm
  <1>6. CASE ~w.success
    <2>1. Cancel(w.order, {"DELIVERY_FAILED"}) \/ Expire(w.order)
      BY <1>4, <1>6 DEF Finish
    <2>2. \E steps, deleted, types : Commit(w.order, "CANCELLED", steps, deleted, types)
      BY <2>1 DEF Cancel, Expire
    <2> QED
      BY <1>1, <1>4, <2>2, CommitStatus
  <1> QED
    BY <1>5, <1>6

\* Whatever verdicts, expiries, callbacks and faults surround it, an order is confirmed
\* only when it is paid and taken and its courier found, unless a callback said so
\* (saga.apply_delivery_result).
THEOREM ServedSafety == Spec => ConfirmedWithCourier
  <1>1. ASSUME IndInv, ServedInv, [Next]_vars, NEW o \in Orders,
               orders[o] # "CONFIRMED", orders'[o] = "CONFIRMED"
        PROVE  /\ Paid(o) /\ Taken(o)
               /\ \/ delivery[o] = "ASSIGNED"
                  \/ \E w \in work \ work' : w.by \in Callbacks /\ w.order = o
    <2>1. PICK w \in work \ work' : w.order = o /\ w.success
      BY <1>1, ConfirmedByFinisher
    <2>2. Paid(o) /\ Taken(o)
      BY <1>1, <2>1 DEF ServedInv, WaitingIsEarned
    <2>3. w.by \in Callbacks \/ w.by = "consumer" \/ w.by = "deadline"
      BY <1>1, BackgroundAssumption DEF IndInv, TypeOK, Work, Finishers
    <2>4. w.by # "deadline" /\ (w.by = "consumer" => delivery[o] = "ASSIGNED")
      BY <1>1, <2>1 DEF ServedInv, VerdictsAreTrue
    <2> QED
      BY <2>1, <2>2, <2>3, <2>4
  <1>2. IndInv /\ ServedInv /\ [Next]_vars =>
            [\A o \in Orders : orders[o] # "CONFIRMED" /\ orders'[o] = "CONFIRMED" =>
                /\ Paid(o) /\ Taken(o)
                /\ \/ delivery[o] = "ASSIGNED"
                   \/ \E w \in work \ work' : w.by \in Callbacks /\ w.order = o]_vars
    BY <1>1
  <1>3. IndInv /\ ServedInv /\ [Next]_vars => ServedInv'
    BY ServedStep
  <1> QED
    BY <1>2, <1>3, InitServed, Invariant, PTL DEF Spec, ConfirmedWithCourier
=============================================================================
