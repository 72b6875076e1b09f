------------------------------ MODULE Paiement ------------------------------
(* What the Paiement service promises: one transaction per order, and every *)
(* endpoint executed as one step. PaiementSessions opens the steps up.       *)
EXTENDS OrderIds

VARIABLE tx          \* tx[o]: `statut` of the transaction of o, NONE without a row

TxStatus == {"NONE", "CAPTURED", "DECLINED", "PARTIALLY_REFUNDED", "REFUNDED", "VOIDED"}

\* A debit was captured, whatever was given back since.
Refundable == {"CAPTURED", "PARTIALLY_REFUNDED", "REFUNDED"}

\* The row tells of no debit that the client still bears, and no later debit can capture
\* one: service.debit returns the row it finds. What the PSP holds is another matter.
Settled == {"DECLINED", "REFUNDED", "VOIDED"}

PaiementInit == tx = [o \in Orders |-> "NONE"]

\* Mutant: a declined order is charged again.
Debit_RetryDeclined(o) ==
    \/ /\ tx[o] \in {"NONE", "DECLINED"}
       /\ \E verdict \in {"CAPTURED", "DECLINED"} : tx' = [tx EXCEPT ![o] = verdict]
    \/ /\ tx[o] \notin {"NONE", "DECLINED"}
       /\ UNCHANGED tx

\* POST /payments: the PSP decides once, a retry returns the recorded verdict.
Debit(o) ==
    \/ /\ tx[o] = "NONE"
       /\ \E verdict \in {"CAPTURED", "DECLINED"} : tx' = [tx EXCEPT ![o] = verdict]
    \/ /\ tx[o] # "NONE"
       /\ UNCHANGED tx

\* Mutant: the router answers 402 to voided orders only.
DebitReply_DeclinedIsCreated(s) == IF s = "VOIDED" THEN "refused" ELSE "ok"

\* The HTTP code of a debit that found or left the transaction in status s.
DebitReply(s) == IF s \in {"DECLINED", "VOIDED"} THEN "refused" ELSE "ok"

\* Mutants: nothing marks the order of a void that finds no debit; a captured debit
\* is left alone.
VoidOutcome_NoMark(s) == IF s \in {"CAPTURED", "PARTIALLY_REFUNDED"} THEN "REFUNDED" ELSE s
VoidOutcome_NoRefund(s) == IF s = "NONE" THEN "VOIDED" ELSE s

VoidOutcome(s) ==
    CASE s = "NONE" -> "VOIDED"
      [] s \in {"CAPTURED", "PARTIALLY_REFUNDED"} -> "REFUNDED"
      [] OTHER -> s

\* POST /payments/orders/{id}/void: always answers 200.
Void(o) == tx' = [tx EXCEPT ![o] = VoidOutcome(tx[o])]

\* POST /payments/{id}/refund without an amount: the balance, or 409.
Refund(o) ==
    \/ /\ tx[o] \in Refundable
       /\ tx' = [tx EXCEPT ![o] = "REFUNDED"]
    \/ /\ tx[o] \notin Refundable
       /\ UNCHANGED tx

\* POST /payments/{id}/refund with an amount below the balance.
RefundPart(o) ==
    /\ tx[o] \in {"CAPTURED", "PARTIALLY_REFUNDED"}
    /\ tx' = [tx EXCEPT ![o] = "PARTIALLY_REFUNDED"]

PaiementNext == \E o \in Orders : Debit(o) \/ Void(o) \/ Refund(o) \/ RefundPart(o)

PaiementSpec == PaiementInit /\ [][PaiementNext]_tx
=============================================================================
