--------------------------- MODULE PaiementSessions ---------------------------
(* The Paiement service as it runs: threads serve requests, each in its own  *)
(* database session, and read, call the PSP and commit in separate steps.    *)
(* A request answered from its first read changes nothing and is no step.    *)
EXTENDS OrderIds, Integers

CONSTANTS
    Workers,         \* threads that serve requests
    Montants,        \* amounts that a debit may ask, in thousandths
    Parts,           \* amounts that a refund may ask, in thousandths
    Threshold,       \* DECLINE_THRESHOLD, in cents
    MaxFailures      \* bound on requests that fail before they commit

ASSUME MontantsAssumption == Montants \subseteq Nat \ {0} /\ Parts \subseteq Nat \ {0}
ASSUME ThresholdAssumption == Threshold \in Nat
ASSUME MaxFailuresAssumption == MaxFailures \in Nat

VARIABLES
    statut,          \* statut[o] of the transaction of o, NONE without a row
    montant,         \* montant[o]: its amount, in cents
    refunded,        \* montant_rembourse[o]: the sum of its refunds
    session,         \* session[w]: what the thread holds between two steps
    charged,         \* charged[o]: what the PSP took from the client
    givenBack,       \* givenBack[o]: what it gave back
    voided,          \* orders whose void was answered 200
    failures         \* failed requests so far

table == <<statut, montant, refunded>>
psp == <<charged, givenBack>>
vars == <<table, session, psp, voided, failures>>

P == INSTANCE Paiement WITH tx <- statut

Idle == [at |-> "idle"]
Inserts == [at : {"charge", "insert"}, order : Orders, statut : P!TxStatus, montant : Nat]
Refunds == [at : {"balance", "credit", "settle"}, order : Orders, statut : P!TxStatus,
            void : BOOLEAN, asked : Nat, montant : Int, solde : Int]

\* Decimal.quantize to the cent: to the nearest, half to even.
ToDecimal(m) ==
    LET q == m \div 10 IN
    IF m % 10 > 5 \/ (m % 10 = 5 /\ q % 2 = 1) THEN q + 1 ELSE q

\* A refund asked without an amount.
Omitted == 0

Init ==
    /\ statut = [o \in Orders |-> "NONE"]
    /\ montant = [o \in Orders |-> 0]
    /\ refunded = [o \in Orders |-> 0]
    /\ session = [w \in Workers |-> Idle]
    /\ charged = [o \in Orders |-> 0]
    /\ givenBack = [o \in Orders |-> 0]
    /\ voided = {}
    /\ failures = 0

Holds(w, at) == session[w].at = at
Goes(w, s) == session' = [session EXCEPT ![w] = s]
Answers(w) == Goes(w, Idle)

-----------------------------------------------------------------------------
(* debit                                                                    *)

\* No transaction is found for the order.
Debit(w, o, m) ==
    /\ session[w] = Idle
    /\ statut[o] = "NONE"
    /\ Goes(w, [at |-> "charge", order |-> o, statut |-> "NONE", montant |-> ToDecimal(m)])
    /\ UNCHANGED <<table, psp, voided, failures>>

\* psp.charge decides on the amount.
Charge(w) ==
    /\ Holds(w, "charge")
    /\ LET s == session[w]
           success == s.montant < Threshold
       IN /\ charged' = IF success THEN [charged EXCEPT ![s.order] = @ + s.montant]
                        ELSE charged
          /\ Goes(w, [s EXCEPT !.at = "insert",
                               !.statut = IF success THEN "CAPTURED" ELSE "DECLINED"])
    /\ UNCHANGED <<table, givenBack, voided, failures>>

\* Mutant: `order_id` is not unique.
Insert_Overwrites(w) ==
    /\ Holds(w, "insert")
    /\ LET s == session[w] IN
       /\ statut' = [statut EXCEPT ![s.order] = s.statut]
       /\ montant' = [montant EXCEPT ![s.order] = s.montant]
       /\ voided' = IF s.statut = "VOIDED" THEN voided \cup {s.order} ELSE voided
    /\ Answers(w)
    /\ UNCHANGED <<refunded, psp, failures>>

\* The commit of a new transaction, which fails (500) when the order got one meanwhile.
Insert(w) ==
    /\ Holds(w, "insert")
    /\ LET s == session[w] IN
       \/ /\ statut[s.order] = "NONE"
          /\ statut' = [statut EXCEPT ![s.order] = s.statut]
          /\ montant' = [montant EXCEPT ![s.order] = s.montant]
          /\ voided' = IF s.statut = "VOIDED" THEN voided \cup {s.order} ELSE voided
       \/ /\ statut[s.order] # "NONE"
          /\ UNCHANGED <<statut, montant, voided>>
    /\ Answers(w)
    /\ UNCHANGED <<refunded, psp, failures>>

-----------------------------------------------------------------------------
(* void_order and refund                                                    *)

\* The request found a transaction with a captured debit.
Loads(w, o, void, asked) ==
    Goes(w, [at |-> "balance", order |-> o, statut |-> statut[o], void |-> void,
             asked |-> asked, montant |-> 0, solde |-> 0])

VoidOrder(w, o) ==
    /\ session[w] = Idle
    /\ \/ /\ statut[o] = "NONE"
          /\ Goes(w, [at |-> "insert", order |-> o, statut |-> "VOIDED", montant |-> 0])
          /\ UNCHANGED voided
       \/ /\ statut[o] \in {"CAPTURED", "PARTIALLY_REFUNDED"}
          /\ Loads(w, o, TRUE, Omitted)
          /\ UNCHANGED voided
       \/ /\ statut[o] \in P!Settled
          /\ voided' = voided \cup {o}
          /\ UNCHANGED session
    /\ UNCHANGED <<table, psp, failures>>

\* Mutant: the statut is not checked.
Refund_AnyStatut(w, o, asked) ==
    /\ session[w] = Idle
    /\ statut[o] # "NONE"
    /\ Loads(w, o, FALSE, asked)
    /\ UNCHANGED <<table, psp, voided, failures>>

\* Unknown transactions (404) and those never captured (409) are refused.
Refund(w, o, asked) ==
    /\ session[w] = Idle
    /\ statut[o] \in P!Refundable
    /\ Loads(w, o, FALSE, asked)
    /\ UNCHANGED <<table, psp, voided, failures>>

Restant(o) == montant[o] - refunded[o]

\* Mutant: the amount is not compared with zero.
Wanted_NotPositive(asked, restant) ==
    LET m == IF asked = Omitted THEN restant ELSE ToDecimal(asked) IN
    IF m = 0 \/ m > restant THEN {} ELSE {m}

\* The amount to give back, if any: 409 when it is not positive or exceeds the balance.
Wanted(asked, restant) ==
    LET m == IF asked = Omitted THEN restant ELSE ToDecimal(asked) IN
    IF m <= 0 \/ m > restant THEN {} ELSE {m}

\* Mutant: the refund is committed first, and the PSP is never called.
Balance_CommitsFirst(w) ==
    /\ Holds(w, "balance")
    /\ LET s == session[w]
           restant == Restant(s.order)
       IN \/ \E m \in Wanted(s.asked, restant) :
                Goes(w, [s EXCEPT !.at = "settle", !.montant = m, !.solde = restant])
          \/ Wanted(s.asked, restant) = {} /\ Answers(w)
    /\ UNCHANGED <<table, psp, voided, failures>>

\* The refunds are read, after the transaction. A compensation that finds the whole
\* amount given back is answered with the last refund, and fails without one.
Balance(w) ==
    /\ Holds(w, "balance")
    /\ LET s == session[w]
           restant == Restant(s.order)
       IN \/ \E m \in Wanted(s.asked, restant) :
                /\ Goes(w, [s EXCEPT !.at = "credit", !.montant = m, !.solde = restant])
                /\ UNCHANGED voided
          \/ /\ Wanted(s.asked, restant) = {}
             /\ Answers(w)
             /\ voided' = IF s.void /\ restant = 0 /\ refunded[s.order] > 0
                          THEN voided \cup {s.order} ELSE voided
    /\ UNCHANGED <<table, psp, failures>>

\* psp.refund always succeeds.
Credit(w) ==
    /\ Holds(w, "credit")
    /\ givenBack' = [givenBack EXCEPT ![session[w].order] = @ + session[w].montant]
    /\ Goes(w, [session[w] EXCEPT !.at = "settle"])
    /\ UNCHANGED <<table, charged, voided, failures>>

\* Mutant: any refund settles the transaction.
NewStatut_Full(s) == "REFUNDED"

NewStatut(s) == IF s.montant = s.solde THEN "REFUNDED" ELSE "PARTIALLY_REFUNDED"

\* Mutant: the sum of the refunds is a column, written from the balance that was read.
Settle_StaleTotal(w) ==
    /\ Holds(w, "settle")
    /\ LET s == session[w] IN
       /\ refunded' = [refunded EXCEPT ![s.order] = montant[s.order] - s.solde + s.montant]
       /\ statut' = IF NewStatut(s) = s.statut THEN statut
                    ELSE [statut EXCEPT ![s.order] = NewStatut(s)]
       /\ voided' = IF s.void THEN voided \cup {s.order} ELSE voided
    /\ Answers(w)
    /\ UNCHANGED <<montant, psp, failures>>

\* The commit of the refund. The session writes `statut` only if it changed it.
Settle(w) ==
    /\ Holds(w, "settle")
    /\ LET s == session[w] IN
       /\ refunded' = [refunded EXCEPT ![s.order] = @ + s.montant]
       /\ statut' = IF NewStatut(s) = s.statut THEN statut
                    ELSE [statut EXCEPT ![s.order] = NewStatut(s)]
       /\ voided' = IF s.void THEN voided \cup {s.order} ELSE voided
    /\ Answers(w)
    /\ UNCHANGED <<montant, psp, failures>>

-----------------------------------------------------------------------------

\* The process or the database is lost before the commit.
Fails(w) ==
    /\ failures < MaxFailures
    /\ session[w] # Idle
    /\ failures' = failures + 1
    /\ Answers(w)
    /\ UNCHANGED <<table, psp, voided>>

Requests(w) ==
    \E o \in Orders :
        \/ \E m \in Montants : Debit(w, o, m)
        \/ VoidOrder(w, o)
        \/ \E asked \in Parts \cup {Omitted} : Refund(w, o, asked)

Next ==
    \E w \in Workers :
        \/ Requests(w)
        \/ Charge(w) \/ Insert(w) \/ Balance(w) \/ Credit(w) \/ Settle(w)
        \/ Fails(w)

Spec == Init /\ [][Next]_vars

-----------------------------------------------------------------------------
(* Properties.                                                              *)

\* The rows, the sessions and the PSP's books have the shape the code gives them.
TypeOK ==
    /\ statut \in [Orders -> P!TxStatus]
    /\ montant \in [Orders -> Nat] /\ refunded \in [Orders -> Nat]
    /\ session \in [Workers -> {Idle} \cup Inserts \cup Refunds]
    /\ charged \in [Orders -> Nat] /\ givenBack \in [Orders -> Nat]
    /\ voided \subseteq Orders
    /\ failures \in 0..MaxFailures

\* Threads that interleave, fail and repeat requests are, for the statut of a
\* transaction, the atomic endpoints that the saga relies on.
Promise == P!PaiementSpec

\* Once a void is answered 200, whatever debit or total refund was under way then, the
\* order stays settled: nothing reopens its transaction (service.void_order). Partial
\* refunds, which the saga never asks, are left out (Parts = {}): one that read the
\* balance before the void commits after it and reopens the row.
VoidIsFinal == \A o \in voided : statut[o] \in P!Settled

\* What the rows say was taken was taken, and what they say was given back was given
\* back: requests that overlap or fail may leave the PSP with more than the rows tell,
\* never with less, because its call comes before the commit (service.debit, refund).
RecordedIsDone ==
    \A o \in Orders :
        /\ statut[o] \in P!Refundable => charged[o] >= montant[o]
        /\ givenBack[o] >= refunded[o]

InUse(o) == \E w \in Workers : session[w] # Idle /\ session[w].order = o

\* When no request is under way, what the PSP gave back and no row tells was left by
\* requests that failed, each for the amount of the transaction at most. Refunds that
\* overlap never hide one another: each commits a row of its own (service.refund).
RefundsAreTold ==
    \A o \in Orders : ~InUse(o) => givenBack[o] - refunded[o] <= failures * montant[o]

\* When no request is under way, the PSP holds of the client what the table says
\* it holds: the amount captured less the refunds (service.debit, service.refund). It is
\* so of requests that come one after the other and do not fail, and only of those.
BooksMatch ==
    \A o \in Orders : ~InUse(o) =>
        charged[o] - givenBack[o] = IF statut[o] \in P!Refundable THEN Restant(o) ELSE 0

\* The statut tells how much was given back, after any sequence of partial and
\* total refunds, refused ones included (service.refund).
StatutMatchesBalance ==
    \A o \in Orders :
        /\ statut[o] = "CAPTURED" => refunded[o] = 0
        /\ statut[o] = "PARTIALLY_REFUNDED" => 0 < refunded[o] /\ refunded[o] < montant[o]
        /\ statut[o] = "REFUNDED" => 0 < refunded[o] /\ refunded[o] = montant[o]
        /\ statut[o] \notin P!Refundable => refunded[o] = 0

\* "Idempotent par order_id, pas de double débit" (clients.py): the PSP took the
\* amount of the transaction, once.
NoDoubleDebit ==
    \A o \in Orders : statut[o] = "CAPTURED" => charged[o] = montant[o]
=============================================================================
