-------------------------- MODULE FoodExpressProofs --------------------------
(* Safety of the saga, for any number of orders, attempts, callbacks and    *)
(* faults: IndInv is inductive and implies the properties of FoodExpress.   *)
EXTENDS FoodExpress, TLAPS

-----------------------------------------------------------------------------
(* What the operators do.                                                   *)

\* The rows that one or two calls of events.enqueue insert.
LEMMA OneRow ==
    ASSUME NEW o, NEW t, nextId \in Nat
    PROVE  NewRows(o, <<t>>) = {[id |-> nextId, type |-> t, order |-> o]}
  BY DEF NewRows

LEMMA TwoRows ==
    ASSUME NEW o, NEW t, NEW u, nextId \in Nat
    PROVE  NewRows(o, <<t, u>>) = {[id |-> nextId, type |-> t, order |-> o],
                                   [id |-> nextId + 1, type |-> u, order |-> o]}
  BY DEF NewRows

\* What was captured stays captured or refunded, what is settled stays settled.
LEMMA PaiementKeeps ==
    ASSUME NEW o \in Orders, tx \in [Orders -> TxStatus],
           Debit(o) \/ Void(o) \/ Refund(o)
    PROVE  /\ tx' \in [Orders -> TxStatus]
           /\ \A p \in Orders : Paid(p) => Paid(p)'
           /\ \A p \in Orders : tx[p] \in Settled => tx'[p] = tx[p]
           /\ \A p \in Orders : p # o => tx'[p] = tx[p]
  BY DEF Debit, Void, Refund, VoidOutcome, Paid, Refundable, Settled, TxStatus

LEMMA RestaurantKeeps ==
    ASSUME NEW o \in Orders, acceptance \in [Orders -> AcceptanceStatus],
           Accept(o) \/ CancelAcceptance(o)
    PROVE  /\ acceptance' \in [Orders -> AcceptanceStatus]
           /\ \A p \in Orders : Taken(p) => Taken(p)'
  BY DEF Accept, CancelAcceptance, Taken, AcceptanceStatus

\* What a transaction of the saga on order o does, besides keeping the ids fresh.
CommitEffect(o, statut, steps, t, u) ==
    /\ \A r \in outbox : r.type # "READY" => r \in outbox'
    /\ \A r \in outbox' \ outbox : r.order = o /\ r.type \in {t, u}
    /\ \E r \in outbox' : r.order = o /\ r.type = t /\ r.id \notin published'
    /\ \A p \in Orders : orders[p] # "ABSENT" => orders'[p] # "ABSENT"
    /\ \A p \in Orders : p # o => saga_log'[p] = saga_log[p] /\ orders'[p] = orders[p]
    /\ orders'[o] = statut /\ saga_log'[o] = saga_log[o] \cup steps

\* A transaction of the saga inserts fresh rows and keeps the voids.
LEMMA CommitKeeps ==
    ASSUME NEW o \in Orders, NEW statut \in OrderStatus \ {"ABSENT"},
           NEW steps \in SUBSET Steps, NEW deleted,
           \A r \in deleted : r.type = "READY",
           NEW types, NEW t \in EventTypes, NEW u \in EventTypes,
           types = <<t>> \/ types = <<t, u>>,
           TypeOK /\ IdsAreFresh /\ UNCHANGED batch, Commit(o, statut, steps, deleted, types)
    PROVE  IdsAreFresh' /\ CommitEffect(o, statut, steps, t, u)
  <1> DEFINE one == [id |-> nextId, type |-> t, order |-> o]
             two == [id |-> nextId + 1, type |-> u, order |-> o]
  <1>1. nextId \in Nat /\ Len(<<t>>) = 1 /\ Len(<<t, u>>) = 2
    BY DEF TypeOK
  <1>2. \/ outbox' = (outbox \ deleted) \cup {one} /\ nextId' = nextId + 1
        \/ outbox' = (outbox \ deleted) \cup {one, two} /\ nextId' = nextId + 2
    BY <1>1, OneRow, TwoRows DEF Commit
    <1>3. IdsAreFresh'
    <2>1. \A r \in outbox \cup batch : r.id \in Nat /\ r.id < nextId
      BY DEF TypeOK, IdsAreFresh, Rows
    <2>2. \A r \in (outbox \cup batch)' : r \in outbox \cup batch \/ r = one \/ r = two
      BY <1>2
    <2>3. \A r \in (outbox \cup batch)' : r.id < nextId'
      BY <1>1, <1>2, <2>1, <2>2
    <2>4. published' = published /\ \A i \in published : i < nextId'
      BY <1>1, <1>2 DEF Commit, IdsAreFresh, TypeOK
    <2>5. \A r, q \in (outbox \cup batch)' : r.id = q.id => r = q
      BY <1>1, <2>1, <2>2 DEF IdsAreFresh
    <2> QED
      BY <2>3, <2>4, <2>5 DEF IdsAreFresh
  <1>4. /\ \A r \in outbox : r.type # "READY" => r \in outbox'
        /\ \A r \in outbox' \ outbox : r.order = o /\ r.type \in {t, u}
    BY <1>2
  <1>5. one \in outbox' /\ one.id \notin published'
    BY <1>1, <1>2 DEF Commit, IdsAreFresh
  <1> QED
    BY <1>3, <1>4, <1>5 DEF CommitEffect, Commit, TypeOK, OrderStatus

-----------------------------------------------------------------------------
(* Types.                                                                   *)

LEMMA CommitTypes ==
    ASSUME NEW o \in Orders, NEW statut \in OrderStatus,
           NEW steps \in SUBSET Steps, NEW deleted,
           NEW types, NEW t \in EventTypes, NEW u \in EventTypes,
           types = <<t>> \/ types = <<t, u>>,
           TypeOK, Commit(o, statut, steps, deleted, types)
    PROVE  /\ orders' \in [Orders -> OrderStatus]
           /\ saga_log' \in [Orders -> SUBSET Steps]
           /\ outbox' \subseteq Rows /\ published' \subseteq Nat /\ nextId' \in Nat
  <1>1. nextId \in Nat /\ outbox \subseteq Rows
    BY DEF TypeOK
  <1>2. NewRows(o, types) \subseteq Rows /\ nextId' \in Nat
    BY <1>1, OneRow, TwoRows DEF Commit, Rows
  <1>3. outbox' \subseteq Rows
    BY <1>1, <1>2 DEF Commit
  <1> QED
    BY <1>2, <1>3 DEF Commit, TypeOK

\* Every commit of the saga is such a transaction.
LEMMA SagaCommits ==
    ASSUME NEW o \in Orders, TypeOK,
           \/ \E steps \in SUBSET Steps : Cancel(o, steps)
           \/ RequestDelivery(o) \/ CancelAndVoid(o) \/ Confirm(o) \/ Expire(o)
    PROVE  /\ orders' \in [Orders -> OrderStatus]
           /\ saga_log' \in [Orders -> SUBSET Steps]
           /\ outbox' \subseteq Rows /\ published' \subseteq Nat /\ nextId' \in Nat
  <1>1. /\ {"AWAITING_DELIVERY", "CONFIRMED", "CANCELLED"} \subseteq OrderStatus
        /\ EventTypes = {"READY", "CONFIRMED", "CANCELLED", "VOID"}
        /\ {"PAYMENT_OK", "PAYMENT_UNAVAILABLE", "DELIVERY_OK", "DELIVERY_FAILED",
            "DELIVERY_EXPIRED"} \subseteq Steps
    BY DEF OrderStatus, EventTypes, Steps
  <1>2. ASSUME NEW steps \in SUBSET Steps, Cancel(o, steps)
        PROVE  Commit(o, "CANCELLED", steps, {}, <<"CANCELLED">>)
    BY <1>2 DEF Cancel
  <1>3. CASE \E steps \in SUBSET Steps : Cancel(o, steps)
    BY <1>1, <1>2, <1>3, CommitTypes
  <1>4. CASE RequestDelivery(o)
    BY <1>1, <1>4, CommitTypes DEF RequestDelivery
  <1>5. CASE CancelAndVoid(o)
    BY <1>1, <1>5, CommitTypes DEF CancelAndVoid
  <1>6. CASE Confirm(o)
    BY <1>1, <1>6, CommitTypes DEF Confirm
  <1>7. CASE Expire(o)
    BY <1>1, <1>7, CommitTypes DEF Expire
  <1> QED
    BY <1>3, <1>4, <1>5, <1>6, <1>7

LEMMA InitTypes == Init => TypeOK
  BY MaxAttemptsAssumption, MaxFaultsAssumption
     DEF Init, TypeOK, CommandeInit, PaiementInit, RestaurantInit, LivraisonInit,
         OrderStatus, TxStatus, AcceptanceStatus, DeliveryStatus, Phases, Rows

LEMMA RequestTypes ==
    ASSUME TypeOK, NEW o \in Orders, RequestThread(o)
    PROVE  TypeOK'
  <1> USE DEF Phases, Goes, commandeVars, requestVars, relayVars, brokerVars, serviceVars,
              livraisonVars
  <1>1. CASE ReadMenu(o)
    <2>1. /\ phase' \in [Orders -> Phases]
          /\ attempt' \in [Orders -> 0..MaxAttempts]
          /\ reply' \in [Orders -> {"none", "ok", "refused", "rejected"}]
      BY <1>1, MaxAttemptsAssumption DEF ReadMenu, TypeOK
    <2>2. UNCHANGED commandeVars \/ \E steps \in SUBSET Steps : Cancel(o, steps)
      BY <1>1 DEF ReadMenu, Steps
    <2> QED
      BY <1>1, <2>1, <2>2, SagaCommits DEF ReadMenu, TypeOK
  <1>2. CASE SendAttempt(o)
    <2>1. attempt[o] + 1 \in 0..MaxAttempts /\ phase[o] \in {"accept", "debit"}
      BY <1>2, MaxAttemptsAssumption DEF SendAttempt, TypeOK, Calling
    <2>2. net' \subseteq Requests /\ attempt' \in [Orders -> 0..MaxAttempts]
      BY <1>2, <2>1 DEF SendAttempt, TypeOK, Requests
    <2> QED
      BY <1>2, <2>2 DEF SendAttempt, TypeOK
  <1>3. CASE AcceptUnavailable(o)
    <2>1. \E steps \in SUBSET Steps : Cancel(o, steps)
      BY <1>3 DEF AcceptUnavailable, Steps
    <2> QED
      BY <1>3, <2>1, SagaCommits, MaxAttemptsAssumption DEF AcceptUnavailable, TypeOK
  <1>4. CASE AcceptAnswered(o)
    <2>1. \/ UNCHANGED <<orders, saga_log, outbox, published, nextId>>
          \/ \E steps \in SUBSET Steps : Cancel(o, steps)
      BY <1>4 DEF AcceptAnswered, Steps
    <2>2. \E p \in Phases : Goes(o, p)
      BY <1>4 DEF AcceptAnswered
    <2>3. /\ phase' \in [Orders -> Phases]
          /\ attempt' \in [Orders -> 0..MaxAttempts]
          /\ reply' \in [Orders -> {"none", "ok", "refused", "rejected"}]
      BY <2>2, MaxAttemptsAssumption DEF TypeOK
    <2> QED
      BY <1>4, <2>1, <2>3, SagaCommits DEF AcceptAnswered, TypeOK
  <1>5. CASE DebitFails(o)
    <2>1. net' \subseteq Requests
      BY <1>5, MaxAttemptsAssumption DEF DebitFails, TypeOK, Requests, Compensation
    <2> QED
      BY <1>5, <2>1, MaxAttemptsAssumption DEF DebitFails, TypeOK
  <1>6. CASE DebitCaptured(o)
    BY <1>6, SagaCommits, MaxAttemptsAssumption DEF DebitCaptured, TypeOK
  <1>7. CASE CancelAfterDebit(o)
    <2>1. CancelAndVoid(o) \/ \E steps \in SUBSET Steps : Cancel(o, steps)
      BY <1>7 DEF CancelAfterDebit, Steps
    <2> QED
      BY <1>7, <2>1, SagaCommits, MaxAttemptsAssumption DEF CancelAfterDebit, TypeOK
  <1> QED
    BY <1>1, <1>2, <1>3, <1>4, <1>5, <1>6, <1>7 DEF RequestThread

LEMMA ServiceTypes ==
    ASSUME TypeOK, NEW m \in net, Services(m)
    PROVE  TypeOK'
  <1> USE DEF commandeVars, requestVars, relayVars, brokerVars, serviceVars, livraisonVars
  <1>1. m.order \in Orders /\ net \ {m} \subseteq Requests
    BY DEF TypeOK, Requests
  <1>2. ASSUME NEW r \in {"none", "ok", "refused", "rejected"}, Replies(m, r)
        PROVE  reply' \in [Orders -> {"none", "ok", "refused", "rejected"}]
    BY <1>1, <1>2 DEF Replies, TypeOK
  <1>3. CASE RestaurantAccepts(m)
    BY <1>1, <1>2, <1>3, RestaurantKeeps DEF RestaurantAccepts, AcceptReply, TypeOK
  <1>4. CASE RestaurantCancels(m)
    BY <1>1, <1>4, RestaurantKeeps DEF RestaurantCancels, TypeOK
  <1>5. CASE PaiementDebits(m)
    BY <1>1, <1>2, <1>5, PaiementKeeps DEF PaiementDebits, DebitReply, TypeOK
  <1>6. CASE PaiementRefunds(m)
    BY <1>1, <1>6, PaiementKeeps DEF PaiementRefunds, TypeOK
  <1>7. CASE PaiementVoids(m)
    BY <1>1, <1>7, PaiementKeeps DEF PaiementVoids, TypeOK
  <1>8. CASE RequestLost(m)
    BY <1>1, <1>8 DEF RequestLost, TypeOK
  <1> QED
    BY <1>3, <1>4, <1>5, <1>6, <1>7, <1>8 DEF Services

LEMMA FinisherTypes ==
    ASSUME TypeOK, Finishing \/ (\E v \in verdictQ : VerdictIgnored(v))
    PROVE  TypeOK'
  <1> USE DEF commandeVars, requestVars, relayVars, brokerVars, serviceVars, livraisonVars
  <1>1. ASSUME NEW w \in Work, Begin(w)
        PROVE  TypeOK'
    <2>1. w.order \in Orders
      BY DEF Work
    <2>2. net' \subseteq Requests
      BY <1>1, <2>1, MaxAttemptsAssumption DEF Begin, TypeOK, Requests, Compensation
    <2> QED
      BY <1>1, <2>2 DEF Begin, TypeOK
  <1>2. ASSUME NEW w \in Work, Finish(w)
        PROVE  TypeOK'
    <2>1. w.order \in Orders
      BY DEF Work
    <2>2. \/ Confirm(w.order) \/ Expire(w.order)
          \/ \E steps \in SUBSET Steps : Cancel(w.order, steps)
      BY <1>2 DEF Finish, Steps
    <2> QED
      BY <1>2, <2>1, <2>2, SagaCommits DEF Finish, TypeOK
  <1>3. ASSUME NEW v \in verdictQ, VerdictIgnored(v)
        PROVE  TypeOK'
    BY <1>3 DEF VerdictIgnored, TypeOK
  <1> QED
    BY <1>1, <1>2, <1>3 DEF Finishing

LEMMA RelayTypes ==
    ASSUME TypeOK, Relay
    PROVE  TypeOK'
  <1> USE DEF commandeVars, requestVars, relayVars, brokerVars, serviceVars, livraisonVars
  <1>1. CASE TurnStarts \/ EventsEnd \/ VoidsEnd
    BY <1>1 DEF TurnStarts, EventsEnd, VoidsEnd, Drains, DrainsVoids, TurnEnds, Pending,
                Events, Voids, TypeOK
  <1>2. ASSUME NEW r \in batch, RelayRow(r)
        PROVE  TypeOK'
    <2>1. r \in Rows /\ r.id \in Nat /\ r.order \in Orders /\ r.type \in EventTypes
      BY DEF TypeOK, Rows
    <2>2. CASE Publish(r)
      BY <2>1, <2>2 DEF Publish, TypeOK
    <2>3. CASE SendVoid(r)
      <3>1. net' \subseteq Requests
        BY <2>1, <2>3, MaxAttemptsAssumption DEF SendVoid, TypeOK, Requests, Compensation
      <3> QED
        BY <2>3, <3>1 DEF SendVoid, TypeOK
    <2>4. CASE Mark(r)
      BY <2>1, <2>4 DEF Mark, MarkPublished, TypeOK
    <2>5. CASE Reload(r) \/ RowDeleted(r)
      BY <2>5 DEF Reload, RowDeleted, TurnEnds, Drains, TypeOK
    <2> QED
      BY <1>2, <2>2, <2>3, <2>4, <2>5 DEF RelayRow
  <1> QED
    BY <1>1, <1>2 DEF Relay

LEMMA LivraisonTypes ==
    ASSUME TypeOK, LivraisonThreads
    PROVE  TypeOK'
  <1> USE DEF commandeVars, requestVars, relayVars, brokerVars, serviceVars, livraisonVars
  <1>1. CASE Bind
    BY <1>1 DEF Bind, TypeOK
  <1>2. ASSUME NEW o \in Orders, CourierAssigned(o)
        PROVE  TypeOK'
    BY <1>2 DEF CourierAssigned, Assign, DeliveryStatus, TypeOK
  <1>3. ASSUME NEW o \in Orders, CourierRequested(o)
        PROVE  TypeOK'
    BY <1>3 DEF CourierRequested, Assign, DeliveryStatus, TypeOK
  <1>4. ASSUME NEW o \in Orders, VerdictAnnounced(o)
        PROVE  TypeOK'
    <2>1. [order |-> o, success |-> delivery[o] = "ASSIGNED"] \in Verdicts
      BY DEF Verdicts
    <2>2. verdictQ' \subseteq Verdicts
      BY <1>4, <2>1 DEF VerdictAnnounced, TypeOK
    <2> QED
      BY <1>4, <2>2 DEF VerdictAnnounced, Announced, TypeOK
  <1>5. ASSUME NEW o \in Orders, Acknowledged(o)
        PROVE  TypeOK'
    BY <1>5 DEF Acknowledged, AlreadyAssigned, TypeOK
  <1> QED
    BY <1>1, <1>2, <1>3, <1>4, <1>5 DEF LivraisonThreads

LEMMA FaultTypes ==
    ASSUME TypeOK, Faults
    PROVE  TypeOK'
  <1> USE DEF commandeVars, requestVars, relayVars, brokerVars, serviceVars, livraisonVars,
              Drains, TurnEnds
  <1>1. ASSUME Fault
        PROVE  faults' \in 0..MaxFaults
    BY <1>1, MaxFaultsAssumption DEF Fault, TypeOK
  <1>2. CASE CommandeCrashes
    BY <1>1, <1>2, MaxAttemptsAssumption DEF CommandeCrashes, Phases, TypeOK
  <1>3. CASE RelayFails \/ LivraisonCrashes
    BY <1>1, <1>3 DEF RelayFails, LivraisonCrashes, TypeOK
  <1>4. ASSUME NEW o \in Orders, RequestFails(o)
        PROVE  TypeOK'
    BY <1>1, <1>4, MaxAttemptsAssumption DEF RequestFails, Goes, Phases, TypeOK
  <1>5. ASSUME NEW o \in Orders, MessageDropped(o)
        PROVE  TypeOK'
    BY <1>1, <1>5 DEF MessageDropped, TypeOK
  <1>6. ASSUME NEW w \in work, FinishFails(w)
        PROVE  TypeOK'
    BY <1>1, <1>6 DEF FinishFails, TypeOK
  <1> QED
    BY <1>2, <1>3, <1>4, <1>5, <1>6 DEF Faults

LEMMA NextTypes == TypeOK /\ [Next]_vars => TypeOK'
  <1> SUFFICES ASSUME TypeOK, [Next]_vars
               PROVE  TypeOK'
    OBVIOUS
  <1>1. CASE UNCHANGED vars
    BY <1>1 DEF vars, commandeVars, requestVars, relayVars, brokerVars, serviceVars,
                livraisonVars, TypeOK
  <1>2. CASE Next
    BY <1>2, RequestTypes, ServiceTypes, FinisherTypes, RelayTypes, LivraisonTypes,
       FaultTypes DEF Next
  <1> QED
    BY <1>1, <1>2

\* Commande's threads, its database, the services and the queues keep their types.
THEOREM TypeCorrect == Spec => []TypeOK
  BY InitTypes, NextTypes, PTL DEF Spec

-----------------------------------------------------------------------------
(* The inductive invariant, in two halves: what is stored, and what the     *)
(* threads know.                                                            *)

DataInv ==
    /\ RequestsAreCommitted /\ IdsAreFresh /\ BatchIsOneQueue /\ MarkedVoidIsDone
    /\ DebitUnknownIsPursued /\ DeclinedIsNeverCharged

ThreadInv ==
    AnswersAreTrue /\ VoidsAreForUnknownDebits /\ FinishersComeAfter /\ RefusalIsDeclined

LEMMA Halves == IndInv <=> TypeOK /\ DataInv /\ ThreadInv
  BY DEF IndInv, DataInv, ThreadInv

LEMMA DataFrame ==
    ASSUME DataInv,
           UNCHANGED <<orders, saga_log, outbox, published, nextId, tx, acceptance, sent,
                       drain, batch, step>>
    PROVE  DataInv'
  BY DEF DataInv, RequestsAreCommitted, Committed, Paid, Taken, IdsAreFresh,
         BatchIsOneQueue, MarkedVoidIsDone, IsHead, DebitUnknownIsPursued, Pending, Voids,
         DeclinedIsNeverCharged

LEMMA ThreadFrame ==
    ASSUME ThreadInv,
           UNCHANGED <<phase, reply, tx, acceptance, saga_log, orders>>,
           \A r \in (outbox \cup batch)' : r.type = "VOID" => r \in outbox \cup batch,
           \A w \in work' : w \in work \/ orders[w.order] # "ABSENT",
           \A m \in net' : m.op = "void" => m \in net
    PROVE  ThreadInv'
  BY DEF ThreadInv, AnswersAreTrue, Paid, Taken, VoidsAreForUnknownDebits,
         FinishersComeAfter, RefusalIsDeclined

\* A transaction that ends an order's request or its delivery keeps the invariant when
\* it asks for a courier only after payment, and records an unknown debit with its void.
LEMMA CommitInv ==
    ASSUME NEW o \in Orders, NEW statut \in OrderStatus \ {"ABSENT"},
           NEW steps \in SUBSET Steps, NEW deleted,
           \A r \in deleted : r.type = "READY",
           NEW types, NEW t \in EventTypes, NEW u \in EventTypes,
           types = <<t>> \/ types = <<t, u>>,
           IndInv, Commit(o, statut, steps, deleted, types),
           UNCHANGED <<tx, acceptance, sent, drain, batch, step, net>>,
           work' \subseteq work,
           phase'[o] = "ended",
           \A p \in Orders : p # o => phase'[p] = phase[p] /\ reply'[p] = reply[p],
           "READY" \in {t, u} => Paid(o) /\ Taken(o),
           u # "VOID",
           t = "VOID" <=> "PAYMENT_UNAVAILABLE" \in steps,
           "PAYMENT_DECLINED" \in steps => tx[o] = "DECLINED"
    PROVE  DataInv' /\ ThreadInv'
  <1>1. IdsAreFresh' /\ CommitEffect(o, statut, steps, t, u)
    <2>1. TypeOK /\ IdsAreFresh /\ UNCHANGED batch
      BY DEF IndInv
    <2> QED
      BY <2>1, CommitKeeps
  <1>2. published' = published
    BY DEF Commit
  <1>3. \A p \in Orders : Committed(p) => Committed(p)'
    BY <1>1 DEF CommitEffect, Committed, Paid, Taken
  <1>4. "READY" \in {t, u} => Committed(o)'
    BY <1>1 DEF CommitEffect, Committed, Paid, Taken
  <1>5. RequestsAreCommitted'
    <2>1. /\ \A r \in outbox \cup batch : r.order \in Orders
          /\ \A e \in sent : e.order \in Orders
      BY DEF IndInv, TypeOK, Rows
    <2> QED
      BY <1>1, <1>3, <1>4, <2>1 DEF CommitEffect, IndInv, RequestsAreCommitted
  <1>6. BatchIsOneQueue' /\ MarkedVoidIsDone'
    BY <1>1 DEF CommitEffect, IndInv, BatchIsOneQueue, MarkedVoidIsDone, IsHead
  <1>7. DebitUnknownIsPursued'
    <2>1. ASSUME NEW p \in Orders, ("PAYMENT_UNAVAILABLE" \in saga_log[p])', (tx[p] \notin Settled)'
          PROVE  \E r \in outbox' : r.type = "VOID" /\ r.id \notin published' /\ r.order = p
      <3>1. CASE "PAYMENT_UNAVAILABLE" \in saga_log[p]
        BY <1>1, <1>2, <2>1, <3>1 DEF CommitEffect, IndInv, DebitUnknownIsPursued, Pending, Voids
      <3>2. CASE "PAYMENT_UNAVAILABLE" \notin saga_log[p]
        BY <1>1, <2>1, <3>2 DEF CommitEffect
      <3> QED
        BY <3>1, <3>2
    <2> QED
      BY <2>1 DEF DebitUnknownIsPursued, Pending, Voids
  <1>8. DeclinedIsNeverCharged'
    BY <1>1 DEF CommitEffect, IndInv, DeclinedIsNeverCharged
  <1>9. VoidsAreForUnknownDebits'
    <2>1. /\ \A r \in outbox \cup batch : r.order \in Orders
          /\ \A m \in net : m.order \in Orders
      BY DEF IndInv, TypeOK, Rows, Requests
    <2>2. \A p \in Orders : "PAYMENT_UNAVAILABLE" \in saga_log[p] =>
                               "PAYMENT_UNAVAILABLE" \in saga_log'[p]
      BY <1>1 DEF CommitEffect
    <2>3. \A r \in (outbox \cup batch)' : r.type = "VOID" =>
              ("PAYMENT_UNAVAILABLE" \in saga_log[r.order])'
      BY <1>1, <2>1, <2>2 DEF CommitEffect, IndInv, VoidsAreForUnknownDebits
    <2> QED
      BY <1>1, <2>1, <2>2, <2>3 DEF CommitEffect, IndInv, VoidsAreForUnknownDebits
  <1>10. FinishersComeAfter'
    BY <1>1 DEF CommitEffect, IndInv, FinishersComeAfter, TypeOK, Work
  <1>11. AnswersAreTrue' /\ RefusalIsDeclined'
    BY DEF IndInv, AnswersAreTrue, RefusalIsDeclined, Paid, Taken
  <1> QED
    BY <1>1, <1>5, <1>6, <1>7, <1>8, <1>9, <1>10, <1>11 DEF DataInv, ThreadInv

LEMMA InitInv == Init => IndInv
  <1> SUFFICES ASSUME Init
               PROVE  IndInv
    OBVIOUS
  <1>1. TypeOK
    BY InitTypes
  <1>2. DataInv
    BY DEF Init, CommandeInit, PaiementInit, RestaurantInit, LivraisonInit, DataInv,
           RequestsAreCommitted, IdsAreFresh, BatchIsOneQueue, MarkedVoidIsDone,
           DebitUnknownIsPursued, DeclinedIsNeverCharged
  <1>3. ThreadInv
    BY DEF Init, CommandeInit, PaiementInit, RestaurantInit, ThreadInv, AnswersAreTrue,
           VoidsAreForUnknownDebits, FinishersComeAfter, RefusalIsDeclined
  <1> QED
    BY <1>1, <1>2, <1>3, Halves

LEMMA RequestInv ==
    ASSUME IndInv, NEW o \in Orders, RequestThread(o)
    PROVE  DataInv' /\ ThreadInv'
  <1> USE DEF commandeVars, requestVars, relayVars, brokerVars, serviceVars, livraisonVars
  <1>1. TypeOK /\ DataInv /\ ThreadInv
    BY Halves
  <1>2. ASSUME NEW p \in Phases, Goes(o, p)
        PROVE  /\ phase' = [phase EXCEPT ![o] = p] /\ phase'[o] = p
               /\ reply' = [reply EXCEPT ![o] = "none"] /\ reply'[o] = "none"
               /\ \A q \in Orders : q # o => phase'[q] = phase[q] /\ reply'[q] = reply[q]
    BY <1>1, <1>2 DEF Goes, TypeOK
  <1>3. "ended" \in Phases /\ "CANCELLED" \in OrderStatus \ {"ABSENT"}
        /\ "AWAITING_DELIVERY" \in OrderStatus \ {"ABSENT"}
        /\ {"READY", "CANCELLED", "VOID"} \subseteq EventTypes
    BY DEF Phases, OrderStatus, EventTypes
  \* The commits.
  <1>4. ASSUME NEW steps \in SUBSET Steps, Cancel(o, steps), Goes(o, "ended"),
               UNCHANGED <<work, relayVars, net, brokerVars, serviceVars, livraisonVars>>,
               "PAYMENT_UNAVAILABLE" \notin steps,
               "PAYMENT_DECLINED" \in steps => tx[o] = "DECLINED"
        PROVE  DataInv' /\ ThreadInv'
    BY <1>2, <1>3, <1>4, CommitInv DEF Cancel
  <1>5. CASE DebitCaptured(o)
    <2>1. Paid(o) /\ Taken(o)
      BY <1>1, <1>5 DEF DebitCaptured, ThreadInv, AnswersAreTrue
    <2>2. {"PAYMENT_OK"} \in SUBSET Steps
      BY DEF Steps
    <2>3. /\ Commit(o, "AWAITING_DELIVERY", {"PAYMENT_OK"}, {}, <<"READY">>)
          /\ UNCHANGED <<tx, acceptance, sent, drain, batch, step, net, work>>
      BY <1>5 DEF DebitCaptured, RequestDelivery
    <2>4. /\ phase'[o] = "ended"
          /\ \A q \in Orders : q # o => phase'[q] = phase[q] /\ reply'[q] = reply[q]
      BY <1>2, <1>3, <1>5 DEF DebitCaptured
    <2> QED
      BY <1>3, <2>1, <2>2, <2>3, <2>4, CommitInv
  <1>6. CASE phase[o] = "undo_unavailable" /\ CancelAndVoid(o) /\ CancelAfterDebit(o)
    <2>1. {"PAYMENT_UNAVAILABLE"} \in SUBSET Steps
      BY DEF Steps
    <2> QED
      BY <1>2, <1>3, <1>6, <2>1, CommitInv DEF CancelAfterDebit, CancelAndVoid
  <1>7. CASE phase[o] = "undo_declined" /\ Cancel(o, {"PAYMENT_DECLINED"}) /\ CancelAfterDebit(o)
    <2>1. tx[o] = "DECLINED" /\ {"PAYMENT_DECLINED"} \in SUBSET Steps
      BY <1>1, <1>7 DEF ThreadInv, RefusalIsDeclined, Steps
    <2> QED
      BY <1>4, <1>7, <2>1 DEF CancelAfterDebit
  <1>8. CASE CancelAfterDebit(o)
    BY <1>6, <1>7, <1>8 DEF CancelAfterDebit
  <1>9. ASSUME NEW steps \in SUBSET {"MENU_UNAVAILABLE", "PLAT_ABSENT",
                                     "ACCEPT_UNAVAILABLE", "ACCEPT_REFUSED"},
               Cancel(o, steps), Goes(o, "ended"),
               UNCHANGED <<work, relayVars, net, brokerVars, serviceVars, livraisonVars>>
        PROVE  DataInv' /\ ThreadInv'
    <2>1. /\ steps \in SUBSET Steps
          /\ "PAYMENT_UNAVAILABLE" \notin steps /\ "PAYMENT_DECLINED" \notin steps
      BY DEF Steps
    <2> QED
      BY <1>4, <1>9, <2>1
  <1>10. CASE AcceptUnavailable(o)
    BY <1>9, <1>10 DEF AcceptUnavailable
  \* The steps that only move the thread.
  <1>11. ASSUME NEW p \in Phases, Goes(o, p), phase[o] \notin {"ended"},
                p \in {"debit", "undo_unavailable", "undo_declined"} => Taken(o),
                p = "undo_declined" => tx[o] = "DECLINED",
                UNCHANGED <<commandeVars, work, relayVars, brokerVars, serviceVars,
                            livraisonVars>>,
                \A m \in net' : m.op = "void" => m \in net
         PROVE  DataInv' /\ ThreadInv'
    <2>1. DataInv'
      BY <1>1, <1>11, DataFrame
    <2>2. /\ phase'[o] = p /\ reply'[o] = "none"
          /\ \A q \in Orders : q # o => phase'[q] = phase[q] /\ reply'[q] = reply[q]
      BY <1>2, <1>11
    <2>3. AnswersAreTrue' /\ RefusalIsDeclined'
      BY <1>1, <1>11, <2>2 DEF ThreadInv, AnswersAreTrue, RefusalIsDeclined, Paid, Taken
    <2>4. VoidsAreForUnknownDebits' /\ FinishersComeAfter'
      BY <1>1, <1>11, <2>2 DEF ThreadInv, VoidsAreForUnknownDebits, FinishersComeAfter
    <2> QED
      BY <2>1, <2>3, <2>4 DEF ThreadInv
  <1>12. CASE ReadMenu(o)
    <2>1. "accept" \in Phases
      BY DEF Phases
    <2>2. CASE Goes(o, "accept") /\ UNCHANGED commandeVars
      BY <1>11, <1>12, <2>1, <2>2 DEF ReadMenu
    <2>3. ASSUME NEW cause \in {"MENU_UNAVAILABLE", "PLAT_ABSENT"}, Goes(o, "ended"),
                 Cancel(o, {cause})
          PROVE  DataInv' /\ ThreadInv'
      BY <1>9, <1>12, <2>3 DEF ReadMenu
    <2> QED
      BY <1>12, <2>2, <2>3 DEF ReadMenu
  <1>13. CASE AcceptAnswered(o)
    <2>1. CASE reply[o] = "ok" /\ Goes(o, "debit") /\ UNCHANGED commandeVars
      <3>1. "debit" \in Phases /\ Taken(o)
        BY <1>1, <1>13, <2>1 DEF Phases, AcceptAnswered, ThreadInv, AnswersAreTrue
      <3> QED
        BY <1>11, <1>13, <2>1, <3>1 DEF AcceptAnswered
    <2>2. CASE Goes(o, "ended") /\ Cancel(o, {"ACCEPT_REFUSED"})
      BY <1>9, <1>13, <2>2 DEF AcceptAnswered
    <2> QED
      BY <1>13, <2>1, <2>2 DEF AcceptAnswered
  <1>14. CASE DebitFails(o)
    <2>1. /\ Taken(o)
          /\ reply[o] = "refused" => tx[o] = "DECLINED"
          /\ "undo_unavailable" \in Phases /\ "undo_declined" \in Phases
      BY <1>1, <1>14 DEF DebitFails, ThreadInv, AnswersAreTrue, RefusalIsDeclined, Phases
    <2>2. \A m \in net' : m.op = "void" => m \in net
      BY <1>14 DEF DebitFails, Compensation
    <2> QED
      BY <1>11, <1>14, <2>1, <2>2 DEF DebitFails
  <1>15. CASE SendAttempt(o)
    <2>1. \A m \in net' : m.op = "void" => m \in net
      BY <1>15 DEF SendAttempt, Calling
    <2> QED
      BY <1>1, <1>15, <2>1, DataFrame, ThreadFrame DEF SendAttempt
  <1> QED
    BY <1>5, <1>8, <1>10, <1>12, <1>13, <1>14, <1>15 DEF RequestThread

\* A step of the services that makes the answers true and settles what it voids.
AnswerStep ==
    /\ \A p \in Orders : Paid(p) => Paid(p)'
    /\ \A p \in Orders : Taken(p) => Taken(p)'
    /\ \A p \in Orders : tx[p] \in Settled => tx'[p] = tx[p]
    /\ \A p \in Orders : tx'[p] = "VOIDED" => "PAYMENT_UNAVAILABLE" \in saga_log[p]
    /\ \A p \in Orders :
          \/ reply'[p] = reply[p]
          \/ /\ phase[p] = "accept" /\ reply'[p] = "ok" => Taken(p)'
             /\ phase[p] = "debit" /\ reply'[p] = "ok" => Paid(p)'
             /\ phase[p] = "debit" /\ reply'[p] = "refused" => tx'[p] = "DECLINED"
             /\ phase[p] \in Calling
    /\ net' \subseteq net
    /\ \/ step' = step
       \/ step' = "sent" /\ \A r \in batch : IsHead(r) => tx'[r.order] \in Settled
    /\ UNCHANGED <<commandeVars, phase, work, drain, batch, brokerVars, livraisonVars>>

\* A service that answers makes the read facts true, and settles what it voids.
LEMMA ServiceInv ==
    ASSUME IndInv, NEW m \in net, Services(m)
    PROVE  DataInv' /\ ThreadInv'
  <1> USE DEF commandeVars, requestVars, relayVars, brokerVars, serviceVars, livraisonVars
  <1>1. TypeOK /\ DataInv /\ ThreadInv /\ m.order \in Orders
    BY Halves DEF TypeOK, Requests
  \* What the invariant says of the services is kept by a step of theirs.
  <1>2. ASSUME AnswerStep
        PROVE  DataInv' /\ ThreadInv'
    <2>1. \A p \in Orders : Committed(p) => Committed(p)'
      BY <1>2 DEF AnswerStep, Committed
    <2>2. /\ \A r \in outbox \cup batch : r.order \in Orders
          /\ \A e \in sent : e.order \in Orders
      BY <1>1 DEF TypeOK, Rows
    <2>3. RequestsAreCommitted'
      BY <1>1, <1>2, <2>1, <2>2 DEF AnswerStep, DataInv, RequestsAreCommitted
    <2>4. IdsAreFresh' /\ BatchIsOneQueue'
      BY <1>1, <1>2 DEF AnswerStep, DataInv, IdsAreFresh, BatchIsOneQueue
    <2>5. MarkedVoidIsDone'
      BY <1>1, <1>2, <2>2 DEF AnswerStep, DataInv, MarkedVoidIsDone, IsHead
    <2>6. DebitUnknownIsPursued' /\ DeclinedIsNeverCharged'
      BY <1>1, <1>2 DEF AnswerStep, DataInv, DebitUnknownIsPursued, DeclinedIsNeverCharged, Pending,
                        Voids, Settled
    <2>7. AnswersAreTrue'
      BY <1>1, <1>2 DEF AnswerStep, ThreadInv, AnswersAreTrue, Calling
    <2>8. RefusalIsDeclined'
      BY <1>1, <1>2 DEF AnswerStep, ThreadInv, RefusalIsDeclined, Settled, Calling
    <2>9. VoidsAreForUnknownDebits' /\ FinishersComeAfter'
      BY <1>1, <1>2 DEF AnswerStep, ThreadInv, VoidsAreForUnknownDebits, FinishersComeAfter
    <2> QED
      BY <2>3, <2>4, <2>5, <2>6, <2>7, <2>8, <2>9 DEF DataInv, ThreadInv
  <1>3. \A p \in Orders : /\ tx[p] = "VOIDED" => "PAYMENT_UNAVAILABLE" \in saga_log[p]
                          /\ phase[p] # "ended" => "PAYMENT_UNAVAILABLE" \notin saga_log[p]
    BY <1>1 DEF ThreadInv, VoidsAreForUnknownDebits
  <1>4. UNCHANGED tx =>
          /\ \A p \in Orders : Paid(p) => Paid(p)'
          /\ \A p \in Orders : tx[p] \in Settled => tx'[p] = tx[p]
          /\ \A p \in Orders : tx'[p] = "VOIDED" => "PAYMENT_UNAVAILABLE" \in saga_log[p]
    BY <1>3 DEF Paid
  <1>5. UNCHANGED acceptance => \A p \in Orders : Taken(p) => Taken(p)'
    BY DEF Taken
  <1>6. CASE RestaurantAccepts(m)
    <2>1. \A p \in Orders : Taken(p) => Taken(p)'
      BY <1>1, <1>6, RestaurantKeeps DEF RestaurantAccepts, TypeOK
    <2>2. AcceptReply(acceptance'[m.order]) = "ok" => Taken(m.order)'
      BY DEF AcceptReply, Taken
    <2>3. \A p \in Orders : reply'[p] = reply[p]
             \/ /\ phase[p] = "accept" /\ phase[p] \in Calling
                /\ reply'[p] = "ok" => Taken(p)'
      BY <1>1, <1>6, <2>2 DEF RestaurantAccepts, Replies, Calling, TypeOK
    <2> QED
      BY <1>2, <1>4, <1>6, <2>1, <2>3 DEF AnswerStep, RestaurantAccepts
  <1>7. CASE RestaurantCancels(m)
    <2>1. \A p \in Orders : Taken(p) => Taken(p)'
      BY <1>1, <1>7, RestaurantKeeps DEF RestaurantCancels, TypeOK
    <2> QED
      BY <1>2, <1>4, <1>7, <2>1 DEF AnswerStep, RestaurantCancels
  <1>8. CASE PaiementDebits(m)
    <2>1. /\ \A p \in Orders : Paid(p) => Paid(p)'
          /\ \A p \in Orders : tx[p] \in Settled => tx'[p] = tx[p]
          /\ \A p \in Orders : tx'[p] = "VOIDED" => tx[p] = "VOIDED"
          /\ tx' \in [Orders -> TxStatus]
      BY <1>1, <1>8, PaiementKeeps DEF PaiementDebits, Debit, TypeOK, Paid
    <2>2. CASE Debit(m.order) /\ Replies(m, DebitReply(tx'[m.order]))
      <3>1. /\ tx'[m.order] # "NONE"
            /\ DebitReply(tx'[m.order]) = "ok" => Paid(m.order)'
            /\ DebitReply(tx'[m.order]) = "refused" => tx'[m.order] \in {"DECLINED", "VOIDED"}
        BY <1>1, <2>1, <2>2 DEF DebitReply, Debit, Paid, Refundable, TxStatus, TypeOK
      <3>2. \A p \in Orders : reply'[p] = reply[p]
               \/ /\ p = m.order /\ reply'[p] = DebitReply(tx'[m.order])
                  /\ phase[p] = "debit" /\ phase[p] \in Calling
        BY <1>1, <1>8, <2>2 DEF Replies, PaiementDebits, Calling, TypeOK
      <3>3. \A p \in Orders : reply'[p] = reply[p]
               \/ /\ phase[p] = "debit" /\ phase[p] \in Calling
                  /\ reply'[p] = "ok" => Paid(p)'
                  /\ reply'[p] = "refused" => tx'[p] = "DECLINED"
        BY <1>3, <2>1, <3>1, <3>2
      <3> QED
        BY <1>2, <1>3, <1>5, <1>8, <2>1, <3>3 DEF AnswerStep, PaiementDebits
    <2>3. CASE Replies(m, "rejected")
      <3>1. \A p \in Orders : \/ reply'[p] = reply[p]
                              \/ reply'[p] = "rejected" /\ phase[p] \in Calling
        BY <1>1, <1>8, <2>3 DEF PaiementDebits, Replies, Calling, TypeOK
      <3> QED
        BY <1>2, <1>3, <1>5, <1>8, <2>1, <3>1 DEF AnswerStep, PaiementDebits
    <2> QED
      BY <1>8, <2>2, <2>3 DEF PaiementDebits
  <1>9. CASE PaiementRefunds(m)
    <2>1. /\ \A p \in Orders : Paid(p) => Paid(p)'
          /\ \A p \in Orders : tx[p] \in Settled => tx'[p] = tx[p]
          /\ \A p \in Orders : tx'[p] = "VOIDED" => tx[p] = "VOIDED"
      BY <1>1, <1>9, PaiementKeeps DEF PaiementRefunds, Refund, TypeOK, Paid
    <2> QED
      BY <1>2, <1>3, <1>5, <1>9, <2>1 DEF AnswerStep, PaiementRefunds
  <1>10. CASE PaiementVoids(m)
    <2>1. /\ \A p \in Orders : Paid(p) => Paid(p)'
          /\ \A p \in Orders : tx[p] \in Settled => tx'[p] = tx[p]
          /\ \A p \in Orders : p # m.order => tx'[p] = tx[p]
      BY <1>1, <1>10, PaiementKeeps DEF PaiementVoids, TypeOK, Paid
    <2>2. tx'[m.order] \in Settled
      BY <1>1, <1>10 DEF PaiementVoids, Void, VoidOutcome, Settled, TxStatus, TypeOK
    <2>3. "PAYMENT_UNAVAILABLE" \in saga_log[m.order]
      BY <1>1, <1>10 DEF PaiementVoids, ThreadInv, VoidsAreForUnknownDebits
    <2>4. \A r, q \in batch : IsHead(r) /\ IsHead(q) => r = q
      <3>1. \A r \in batch : r.id \in Nat
        BY <1>1 DEF TypeOK, Rows
      <3>2. \A r, q \in batch : IsHead(r) /\ IsHead(q) => r.id = q.id
        BY <3>1 DEF IsHead
      <3> QED
        BY <1>1, <3>2 DEF DataInv, IdsAreFresh
    <2>5. \/ step' = step
          \/ step' = "sent" /\ \A r \in batch : IsHead(r) => tx'[r.order] \in Settled
      BY <1>10, <2>2, <2>4 DEF PaiementVoids
    <2> QED
      BY <1>2, <1>3, <1>5, <1>10, <2>1, <2>3, <2>5 DEF AnswerStep, PaiementVoids
  <1>11. CASE RequestLost(m)
    BY <1>2, <1>4, <1>5, <1>11 DEF AnswerStep, RequestLost
  <1> QED
    BY <1>6, <1>7, <1>8, <1>9, <1>10, <1>11 DEF Services

LEMMA DeliveryCommits ==
    ASSUME IndInv, NEW o \in Orders,
           Confirm(o) \/ Cancel(o, {"DELIVERY_FAILED"}) \/ Expire(o),
           UNCHANGED <<tx, acceptance, sent, drain, batch, step, net>>,
           work' \subseteq work,
           phase'[o] = "ended",
           \A p \in Orders : p # o => phase'[p] = phase[p] /\ reply'[p] = reply[p]
    PROVE  DataInv' /\ ThreadInv'
  <1>1. /\ "CONFIRMED" \in OrderStatus \ {"ABSENT"} /\ "CANCELLED" \in OrderStatus \ {"ABSENT"}
        /\ "CONFIRMED" \in EventTypes /\ "CANCELLED" \in EventTypes
    BY DEF OrderStatus, EventTypes
  <1>2. ASSUME NEW steps \in {{"DELIVERY_OK"}, {"DELIVERY_FAILED"},
                              {"DELIVERY_EXPIRED", "DELIVERY_FAILED"}}
        PROVE  /\ steps \in SUBSET Steps
               /\ "PAYMENT_UNAVAILABLE" \notin steps /\ "PAYMENT_DECLINED" \notin steps
    BY DEF Steps
  <1>3. ASSUME NEW statut \in {"CONFIRMED", "CANCELLED"}, NEW deleted,
               NEW steps \in {{"DELIVERY_OK"}, {"DELIVERY_FAILED"},
                              {"DELIVERY_EXPIRED", "DELIVERY_FAILED"}},
               \A r \in deleted : r.type = "READY",
               Commit(o, statut, steps, deleted, <<statut>>)
        PROVE  DataInv' /\ ThreadInv'
    BY <1>1, <1>2, <1>3, CommitInv
  <1>4. CASE Confirm(o)
    BY <1>3, <1>4 DEF Confirm
  <1>5. CASE Cancel(o, {"DELIVERY_FAILED"})
    BY <1>3, <1>5 DEF Cancel
  <1>6. CASE Expire(o)
    <2>1. \A r \in UndeliveredRequests(o) : r.type = "READY"
      BY DEF UndeliveredRequests, Pending
    <2> QED
      BY <1>3, <1>6, <2>1 DEF Expire
  <1> QED
    BY <1>4, <1>5, <1>6

LEMMA FinisherInv ==
    ASSUME IndInv, Finishing \/ (\E v \in verdictQ : VerdictIgnored(v))
    PROVE  DataInv' /\ ThreadInv'
  <1> USE DEF commandeVars, requestVars, relayVars, brokerVars, serviceVars, livraisonVars
  <1>1. TypeOK /\ DataInv /\ ThreadInv
    BY Halves
  <1>2. ASSUME NEW w \in Work, Begin(w)
        PROVE  DataInv' /\ ThreadInv'
    <2>1. \A m \in net' : m.op = "void" => m \in net
      BY <1>2 DEF Begin, Compensation
    <2>2. \A v \in work' : v \in work \/ orders[v.order] # "ABSENT"
      BY <1>2 DEF Begin
    <2> QED
      BY <1>1, <1>2, <2>1, <2>2, DataFrame, ThreadFrame DEF Begin
  <1>3. ASSUME NEW w \in Work, Finish(w)
        PROVE  DataInv' /\ ThreadInv'
    <2>1. w.order \in Orders /\ phase[w.order] = "ended"
      BY <1>1, <1>3 DEF Finish, Work, ThreadInv, FinishersComeAfter
    <2>2. /\ UNCHANGED <<tx, acceptance, sent, drain, batch, step, net>>
          /\ work' \subseteq work
          /\ phase'[w.order] = "ended"
          /\ \A p \in Orders : p # w.order => phase'[p] = phase[p] /\ reply'[p] = reply[p]
      BY <1>3, <2>1 DEF Finish
    <2> QED
      BY <1>3, <2>1, <2>2, DeliveryCommits DEF Finish
  <1>4. ASSUME NEW v \in verdictQ, VerdictIgnored(v)
        PROVE  DataInv' /\ ThreadInv'
    BY <1>1, <1>4, DataFrame, ThreadFrame DEF VerdictIgnored
  <1> QED
    BY <1>2, <1>3, <1>4 DEF Finishing

\* The relay only marks a void that was answered, and publishes committed requests.
LEMMA RelayInv ==
    ASSUME IndInv, Relay
    PROVE  DataInv' /\ ThreadInv'
  <1> USE DEF commandeVars, requestVars, relayVars, brokerVars, serviceVars, livraisonVars
  <1>1. TypeOK /\ DataInv /\ ThreadInv
    BY Halves
  \* A new batch is made of outbox rows of one queue, none of which is dealt with.
  <1>2. ASSUME NEW q \in {"idle", "events", "voids"}, NEW rows \in SUBSET outbox, Drains(q, rows),
               q = "idle" => rows = {},
               q = "events" => \A r \in rows : r.type # "VOID",
               q = "voids" => \A r \in rows : r.type = "VOID",
               UNCHANGED <<commandeVars, requestVars, work, net, brokerVars, serviceVars,
                           livraisonVars>>
        PROVE  DataInv' /\ ThreadInv'
    <2>1. drain' = q /\ batch' = rows /\ step' = "loaded"
      BY <1>2 DEF Drains
    <2>2. (outbox \cup batch)' \subseteq outbox \cup batch
      BY <1>2, <2>1
    <2>3. RequestsAreCommitted'
      BY <1>1, <1>2, <2>2 DEF DataInv, RequestsAreCommitted, Committed, Paid, Taken
    <2>4. IdsAreFresh'
      BY <1>1, <1>2, <2>2 DEF DataInv, IdsAreFresh
    <2>5. BatchIsOneQueue' /\ MarkedVoidIsDone'
      BY <1>2, <2>1 DEF BatchIsOneQueue, MarkedVoidIsDone
    <2>6. DebitUnknownIsPursued' /\ DeclinedIsNeverCharged'
      BY <1>1, <1>2 DEF DataInv, DebitUnknownIsPursued, DeclinedIsNeverCharged, Pending, Voids
    <2>7. ThreadInv'
      BY <1>1, <1>2, <2>2, ThreadFrame
    <2> QED
      BY <2>3, <2>4, <2>5, <2>6, <2>7 DEF DataInv
  <1>3. CASE TurnStarts
    <2>1. /\ Pending(Events) \in SUBSET outbox
          /\ \A r \in Pending(Events) : r.type # "VOID"
      BY DEF Pending, Events
    <2> QED
      BY <1>2, <1>3, <2>1 DEF TurnStarts
  <1>4. CASE EventsEnd
    <2>1. /\ Pending(Voids) \in SUBSET outbox
          /\ \A r \in Pending(Voids) : r.type = "VOID"
      BY DEF Pending, Voids
    <2> QED
      BY <1>2, <1>4, <2>1 DEF EventsEnd, DrainsVoids
  <1>5. CASE VoidsEnd
    BY <1>2, <1>5 DEF VoidsEnd, TurnEnds
  <1>6. ASSUME NEW r \in batch, RelayRow(r)
        PROVE  DataInv' /\ ThreadInv'
    <2>1. r.order \in Orders /\ r.id \in Nat
      BY <1>1 DEF TypeOK, Rows
    <2>2. CASE Publish(r)
      <3>1. \A e \in sent' : e \in sent \/ (e.type = r.type /\ e.order = r.order)
        BY <2>2 DEF Publish
      <3>2. RequestsAreCommitted'
        BY <1>1, <2>2, <3>1 DEF Publish, DataInv, RequestsAreCommitted, Committed, Paid, Taken
      <3>3. IdsAreFresh' /\ BatchIsOneQueue' /\ MarkedVoidIsDone'
        BY <1>1, <2>2 DEF Publish, DataInv, IdsAreFresh, BatchIsOneQueue, MarkedVoidIsDone
      <3>4. DebitUnknownIsPursued' /\ DeclinedIsNeverCharged'
        BY <1>1, <2>2 DEF Publish, DataInv, DebitUnknownIsPursued, DeclinedIsNeverCharged,
                          Pending, Voids
      <3>5. ThreadInv'
        BY <1>1, <2>2, ThreadFrame DEF Publish
      <3> QED
        BY <3>2, <3>3, <3>4, <3>5 DEF DataInv
    <2>3. CASE SendVoid(r)
      <3>1. "PAYMENT_UNAVAILABLE" \in saga_log[r.order]
        BY <1>1, <2>3 DEF SendVoid, DataInv, BatchIsOneQueue, ThreadInv,
                          VoidsAreForUnknownDebits
      <3>2. VoidsAreForUnknownDebits'
        BY <1>1, <2>3, <3>1 DEF SendVoid, Compensation, ThreadInv, VoidsAreForUnknownDebits
      <3>3. AnswersAreTrue' /\ FinishersComeAfter' /\ RefusalIsDeclined'
        BY <1>1, <2>3 DEF SendVoid, ThreadInv, AnswersAreTrue, FinishersComeAfter,
                          RefusalIsDeclined, Paid, Taken
      <3>4. RequestsAreCommitted' /\ IdsAreFresh' /\ BatchIsOneQueue' /\ MarkedVoidIsDone'
        BY <1>1, <2>3 DEF SendVoid, DataInv, RequestsAreCommitted, Committed, Paid, Taken,
                          IdsAreFresh, BatchIsOneQueue, MarkedVoidIsDone
      <3>5. DebitUnknownIsPursued' /\ DeclinedIsNeverCharged'
        BY <1>1, <2>3 DEF SendVoid, DataInv, DebitUnknownIsPursued, DeclinedIsNeverCharged,
                          Pending, Voids
      <3> QED
        BY <3>2, <3>3, <3>4, <3>5 DEF DataInv, ThreadInv
    <2>4. CASE Mark(r)
      <3>1. /\ published' = published \cup {r.id} /\ batch' = batch \ {r}
            /\ step' = "expired" /\ drain' = drain
            /\ UNCHANGED <<orders, saga_log, outbox, nextId>>
        BY <2>4 DEF Mark, MarkPublished
      <3>2. r.type = "VOID" => tx[r.order] \in Settled
        BY <1>1, <2>4 DEF Mark, DataInv, BatchIsOneQueue, MarkedVoidIsDone, TypeOK
      <3>3. RequestsAreCommitted' /\ BatchIsOneQueue' /\ MarkedVoidIsDone'
        BY <1>1, <2>4, <3>1 DEF Mark, DataInv, RequestsAreCommitted, Committed, Paid, Taken,
                                BatchIsOneQueue, MarkedVoidIsDone
      <3>4. IdsAreFresh'
        BY <1>1, <3>1 DEF DataInv, IdsAreFresh
      <3>5. ASSUME NEW p \in Orders, "PAYMENT_UNAVAILABLE" \in saga_log[p], tx[p] \notin Settled
            PROVE  \E v \in outbox : v.type = "VOID" /\ v.id \notin published' /\ v.order = p
        <4>1. PICK v \in outbox : v.type = "VOID" /\ v.id \notin published /\ v.order = p
          BY <1>1, <3>5 DEF DataInv, DebitUnknownIsPursued, Pending, Voids
        <4>2. v.id # r.id
          BY <1>1, <3>2, <3>5, <4>1 DEF DataInv, IdsAreFresh
        <4> QED
          BY <3>1, <4>1, <4>2
      <3>6. DebitUnknownIsPursued' /\ DeclinedIsNeverCharged'
        BY <1>1, <2>4, <3>1, <3>5 DEF Mark, DataInv, DebitUnknownIsPursued,
                                      DeclinedIsNeverCharged, Pending, Voids
      <3>7. ThreadInv'
        BY <1>1, <2>4, <3>1, ThreadFrame DEF Mark
      <3> QED
        BY <3>3, <3>4, <3>6, <3>7 DEF DataInv
    <2>5. CASE Reload(r)
      <3>1. RequestsAreCommitted' /\ IdsAreFresh' /\ BatchIsOneQueue' /\ MarkedVoidIsDone'
        BY <1>1, <2>5 DEF Reload, DataInv, RequestsAreCommitted, Committed, Paid, Taken,
                          IdsAreFresh, BatchIsOneQueue, MarkedVoidIsDone
      <3>2. DebitUnknownIsPursued' /\ DeclinedIsNeverCharged'
        BY <1>1, <2>5 DEF Reload, DataInv, DebitUnknownIsPursued, DeclinedIsNeverCharged,
                          Pending, Voids
      <3>3. ThreadInv'
        BY <1>1, <2>5, ThreadFrame DEF Reload
      <3> QED
        BY <3>1, <3>2, <3>3 DEF DataInv
    <2>6. CASE RowDeleted(r)
      BY <1>2, <2>6 DEF RowDeleted, TurnEnds
    <2> QED
      BY <1>6, <2>2, <2>3, <2>4, <2>5, <2>6 DEF RelayRow
  <1> QED
    BY <1>3, <1>4, <1>5, <1>6 DEF Relay

\* A step that changes neither the stored facts nor a thread, but for finishers that end.
LEMMA QueueFrame ==
    ASSUME IndInv,
           work' \subseteq work,
           UNCHANGED <<commandeVars, phase, reply, relayVars, net, serviceVars, sent>>
    PROVE  DataInv' /\ ThreadInv'
  <1> USE DEF commandeVars, relayVars, serviceVars
  <1>1. DataInv /\ ThreadInv
    BY Halves
  <1>2. RequestsAreCommitted'
    BY <1>1 DEF DataInv, RequestsAreCommitted, Committed, Paid, Taken
  <1>3. IdsAreFresh' /\ BatchIsOneQueue' /\ MarkedVoidIsDone'
    BY <1>1 DEF DataInv, IdsAreFresh, BatchIsOneQueue, MarkedVoidIsDone, IsHead
  <1>4. DebitUnknownIsPursued' /\ DeclinedIsNeverCharged'
    BY <1>1 DEF DataInv, DebitUnknownIsPursued, DeclinedIsNeverCharged, Pending, Voids
  <1>5. ThreadInv'
    BY <1>1, ThreadFrame
  <1> QED
    BY <1>2, <1>3, <1>4, <1>5 DEF DataInv

\* Whatever Livraison does, for the broker or for a request, Commande's facts stay.
LEMMA LivraisonInv ==
    ASSUME IndInv, LivraisonThreads
    PROVE  DataInv' /\ ThreadInv'
  <1>1. UNCHANGED <<commandeVars, phase, reply, work, relayVars, net, serviceVars, sent>>
    BY DEF LivraisonThreads, Bind, CourierAssigned, CourierRequested, VerdictAnnounced,
           Acknowledged, requestVars, brokerVars
  <1> QED
    BY <1>1, QueueFrame

LEMMA FaultInv ==
    ASSUME IndInv, Faults
    PROVE  DataInv' /\ ThreadInv'
  <1> USE DEF commandeVars, requestVars, relayVars, brokerVars, serviceVars, livraisonVars
  <1>1. TypeOK /\ DataInv /\ ThreadInv
    BY Halves
  \* A request thread that dies leaves nothing that depends on it; the relay's turn neither.
  <1>2. ASSUME \A o \in Orders : \/ phase'[o] = phase[o] /\ reply'[o] \in {reply[o], "none"}
                                 \/ phase[o] # "new" /\ phase'[o] = "ended",
               work' \subseteq work,
               UNCHANGED relayVars \/ TurnEnds,
               UNCHANGED <<commandeVars, net, brokerVars, serviceVars, livraisonVars>>
        PROVE  DataInv' /\ ThreadInv'
    <2>1. batch' \subseteq batch
      BY <1>2 DEF TurnEnds, Drains
    <2>2. RequestsAreCommitted' /\ IdsAreFresh'
      BY <1>1, <1>2, <2>1 DEF DataInv, RequestsAreCommitted, Committed, Paid, Taken, IdsAreFresh
    <2>3. BatchIsOneQueue' /\ MarkedVoidIsDone'
      BY <1>1, <1>2 DEF DataInv, BatchIsOneQueue, MarkedVoidIsDone, IsHead, TurnEnds, Drains
    <2>4. DebitUnknownIsPursued' /\ DeclinedIsNeverCharged'
      BY <1>1, <1>2 DEF DataInv, DebitUnknownIsPursued, DeclinedIsNeverCharged, Pending, Voids
    <2>5. AnswersAreTrue' /\ RefusalIsDeclined'
      BY <1>1, <1>2 DEF ThreadInv, AnswersAreTrue, RefusalIsDeclined, Paid, Taken
    <2>6. VoidsAreForUnknownDebits' /\ FinishersComeAfter'
      BY <1>1, <1>2, <2>1 DEF ThreadInv, VoidsAreForUnknownDebits, FinishersComeAfter
    <2> QED
      BY <2>2, <2>3, <2>4, <2>5, <2>6 DEF DataInv, ThreadInv
  <1>3. CASE CommandeCrashes
    <2>1. \A o \in Orders : \/ phase'[o] = phase[o] /\ reply'[o] \in {reply[o], "none"}
                            \/ phase[o] # "new" /\ phase'[o] = "ended"
      BY <1>1, <1>3 DEF CommandeCrashes, TypeOK
    <2> QED
      BY <1>2, <1>3, <2>1 DEF CommandeCrashes
  <1>4. ASSUME NEW o \in Orders, RequestFails(o)
        PROVE  DataInv' /\ ThreadInv'
    <2>1. \A p \in Orders : \/ phase'[p] = phase[p] /\ reply'[p] \in {reply[p], "none"}
                            \/ phase[p] # "new" /\ phase'[p] = "ended"
      BY <1>1, <1>4 DEF RequestFails, Goes, TypeOK
    <2> QED
      BY <1>2, <1>4, <2>1 DEF RequestFails
  <1>5. CASE RelayFails
    BY <1>2, <1>5 DEF RelayFails
  <1>6. CASE LivraisonCrashes
    BY <1>6, QueueFrame DEF LivraisonCrashes
  <1>7. ASSUME NEW o \in Orders, MessageDropped(o)
        PROVE  DataInv' /\ ThreadInv'
    BY <1>7, QueueFrame DEF MessageDropped
  <1>8. ASSUME NEW w \in work, FinishFails(w)
        PROVE  DataInv' /\ ThreadInv'
    BY <1>8, QueueFrame DEF FinishFails
  <1> QED
    BY <1>3, <1>4, <1>5, <1>6, <1>7, <1>8 DEF Faults

LEMMA NextInv == IndInv /\ [Next]_vars => IndInv'
  <1> SUFFICES ASSUME IndInv, [Next]_vars
               PROVE  IndInv'
    OBVIOUS
  <1>1. TypeOK'
    BY NextTypes DEF IndInv
  <1>2. CASE UNCHANGED vars
    <2>1. DataInv' /\ ThreadInv'
      BY <1>2, QueueFrame DEF vars, requestVars, brokerVars, livraisonVars
    <2> QED
      BY <1>1, <2>1, Halves DEF IndInv, DataInv, ThreadInv
  <1>3. CASE Next
    <2>1. DataInv' /\ ThreadInv'
      BY <1>3, RequestInv, ServiceInv, FinisherInv, RelayInv, LivraisonInv, FaultInv DEF Next
    <2> QED
      BY <1>1, <2>1 DEF IndInv, DataInv, ThreadInv
  <1> QED
    BY <1>2, <1>3

\* Every reachable state satisfies the inductive invariant.
THEOREM Invariant == Spec => []IndInv
  BY InitInv, NextInv, PTL DEF Spec

\* The broker is only asked for couriers for orders that are recorded, paid and taken.
THEOREM CourierSafety == Spec => []CourierRequestsAreEarned
  <1>1. IndInv => CourierRequestsAreEarned
    BY DEF IndInv, RequestsAreCommitted, Committed, CourierRequestsAreEarned
  <1> QED
    BY <1>1, Invariant, PTL

\* A debit of unknown outcome is settled, or its void is still in the outbox.
THEOREM DebitSafety == Spec => []DebitUnknownIsPursued
  <1>1. IndInv => DebitUnknownIsPursued
    BY DEF IndInv
  <1> QED
    BY <1>1, Invariant, PTL

\* The card of a client told that it was declined is not charged for the order.
THEOREM DeclineSafety == Spec => []DeclinedIsNeverCharged
  <1>1. IndInv => DeclinedIsNeverCharged
    BY DEF IndInv
  <1> QED
    BY <1>1, Invariant, PTL
=============================================================================
