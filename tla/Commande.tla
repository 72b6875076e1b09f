------------------------------ MODULE Commande ------------------------------
(* The database of the Commande service: orders, their saga_log and the     *)
(* transactional outbox, with the transactions the saga commits on them.     *)
EXTENDS OrderIds, Naturals, Sequences

VARIABLES
    orders,       \* orders[o]: `statut` of the committed row of o, ABSENT without one
    saga_log,     \* saga_log[o]: the deciding steps recorded for o
    outbox,       \* rows of the outbox
    published,    \* ids of the rows whose published_at is set
    nextId        \* the next outbox id

commandeVars == <<orders, saga_log, outbox, published, nextId>>

\* PENDING is never seen here: the order is inserted by the commit that ends create_order.
OrderStatus == {"ABSENT", "AWAITING_DELIVERY", "CONFIRMED", "CANCELLED"}
Terminal == {"CONFIRMED", "CANCELLED"}

Steps == {"MENU_UNAVAILABLE", "PLAT_ABSENT", "ACCEPT_UNAVAILABLE", "ACCEPT_REFUSED",
          "PAYMENT_UNAVAILABLE", "PAYMENT_DECLINED", "PAYMENT_OK",
          "DELIVERY_OK", "DELIVERY_FAILED", "DELIVERY_EXPIRED"}

EventTypes == {"READY", "CONFIRMED", "CANCELLED", "VOID"}
Rows == [id : Nat, type : EventTypes, order : Orders]

CommandeInit ==
    /\ orders = [o \in Orders |-> "ABSENT"]
    /\ saga_log = [o \in Orders |-> {}]
    /\ outbox = {}
    /\ published = {}
    /\ nextId = 1

Pending(rows) == {r \in rows : r.id \notin published}

\* The rows the relay publishes and those it executes at Paiement: two queues.
Events == {r \in outbox : r.type # "VOID"}
Voids == {r \in outbox : r.type = "VOID"}

\* events.enqueue, once per type and in that order.
NewRows(o, types) ==
    {[id |-> nextId + i - 1, type |-> types[i], order |-> o] : i \in 1..Len(types)}

\* One transaction of the saga on order o: its new status, the steps added to its
\* log, the outbox rows it deletes and those it inserts.
Commit(o, statut, steps, deleted, types) ==
    /\ orders' = [orders EXCEPT ![o] = statut]
    /\ saga_log' = [saga_log EXCEPT ![o] = @ \cup steps]
    /\ outbox' = (outbox \ deleted) \cup NewRows(o, types)
    /\ nextId' = nextId + Len(types)
    /\ UNCHANGED published

\* _cancel, with what its callers enqueued before it in the same transaction.
Cancel(o, steps) == Commit(o, "CANCELLED", steps, {}, <<"CANCELLED">>)

\* The end of create_order after a captured debit.
RequestDelivery(o) == Commit(o, "AWAITING_DELIVERY", {"PAYMENT_OK"}, {}, <<"READY">>)

\* The end of create_order after a debit whose outcome is unknown.
CancelAndVoid(o) ==
    Commit(o, "CANCELLED", {"PAYMENT_UNAVAILABLE"}, {}, <<"VOID", "CANCELLED">>)

\* Mutant: the event is not enqueued.
Confirm_NoEvent(o) == Commit(o, "CONFIRMED", {"DELIVERY_OK"}, {}, <<>>)

\* The end of apply_delivery_result on success.
Confirm(o) == Commit(o, "CONFIRMED", {"DELIVERY_OK"}, {}, <<"CONFIRMED">>)

\* The rows that expire_delivery deletes.
UndeliveredRequests(o) == Pending({r \in outbox : r.type = "READY" /\ r.order = o})

Expire(o) ==
    Commit(o, "CANCELLED", {"DELIVERY_EXPIRED", "DELIVERY_FAILED"},
           UndeliveredRequests(o), <<"CANCELLED">>)

\* The relay's commit of `published_at` on a row that still exists.
MarkPublished(r) ==
    /\ published' = published \cup {r.id}
    /\ UNCHANGED <<orders, saga_log, outbox, nextId>>
=============================================================================
