----------------------- MODULE PaiementSessionsProofs -----------------------
(* When every refund is asked without an amount, as Commande asks them, the   *)
(* threads of PaiementSessions keep what Paiement promises to the saga, for   *)
(* any number of orders, of threads and of failures.                         *)
EXTENDS PaiementSessions, TLAPS

Refunding == {"balance", "credit", "settle"}

\* What a thread in state s remembers of its transaction is still true of the
\* table st, or can only have become more settled.
Remembers(s, st) ==
    /\ s.at = "insert" => s.statut \in {"CAPTURED", "DECLINED", "VOIDED"}
    /\ s.at \in Refunding =>
          /\ s.asked = Omitted
          /\ s.statut \in P!Refundable /\ st[s.order] \in P!Refundable
          /\ s.statut = "REFUNDED" => st[s.order] = "REFUNDED"
    /\ s.at \in {"credit", "settle"} => s.montant = s.solde

Session == {Idle} \cup Inserts \cup Refunds

TypeInv ==
    /\ statut \in [Orders -> P!TxStatus]
    /\ montant \in [Orders -> Int] /\ refunded \in [Orders -> Int]
    /\ session \in [Workers -> Session]

SessionInv == \A w \in Workers : Remembers(session[w], statut)

\* Only total refunds have been made.
RefundedInv == \A o \in Orders : refunded[o] # 0 => statut[o] = "REFUNDED"

Inv == TypeInv /\ SessionInv /\ RefundedInv /\ VoidIsFinal /\ voided \subseteq Orders

\* A captured debit stays captured and a refunded one stays refunded.
Advances(st, st2) ==
    \A o \in Orders :
        /\ st[o] \in P!Refundable => st2[o] \in P!Refundable
        /\ st[o] = "REFUNDED" => st2[o] = "REFUNDED"

-----------------------------------------------------------------------------

\* Rounding an amount to the cent gives a number of cents.
LEMMA Cents ==
    ASSUME NEW m \in Nat PROVE ToDecimal(m) \in Nat
  BY SMT DEF ToDecimal

\* Idle, a debit or void under way and a refund under way are told apart by `at`.
LEMMA SessionShape ==
    ASSUME NEW s \in Session
    PROVE  /\ s.at \in {"charge", "insert"} => s \in Inserts
           /\ s.at \in Refunding => s \in Refunds
           /\ s = Idle => s.at = "idle"
  BY DEF Session, Idle, Inserts, Refunds, Refunding

\* A thread's memory survives what the others do to the table.
LEMMA MemorySurvives ==
    ASSUME NEW s \in Session, NEW st, NEW st2, Remembers(s, st), Advances(st, st2)
    PROVE  Remembers(s, st2)
  <1>1. s.at \in Refunding => s.order \in Orders
    BY SessionShape DEF Refunds
  <1> QED
    BY <1>1 DEF Remembers, Advances

\* The initial state has no transaction and no request.
LEMMA InitInv == Init => Inv
  BY DEF Init, Inv, TypeInv, SessionInv, RefundedInv, VoidIsFinal, Remembers, Session, Idle,
         Refunding, P!TxStatus

\* A step of one thread that advances the table keeps every memory true.
LEMMA SessionStep ==
    ASSUME Inv, NEW w \in Workers, NEW s \in Session,
           session' = [session EXCEPT ![w] = s],
           Advances(statut, statut'), Remembers(s, statut')
    PROVE  SessionInv' /\ session' \in [Workers -> Session]
  <1>1. session' \in [Workers -> Session]
    BY DEF Inv, TypeInv
  <1>2. ASSUME NEW v \in Workers PROVE Remembers(session'[v], statut')
    <2>1. CASE v = w
      BY <2>1 DEF Inv, TypeInv
    <2>2. CASE v # w
      <3>1. session'[v] = session[v] /\ session[v] \in Session
        BY <2>2 DEF Inv, TypeInv
      <3>2. Remembers(session[v], statut)
        BY DEF Inv, SessionInv
      <3> QED
        BY <3>1, <3>2, MemorySurvives
    <2> QED
      BY <2>1, <2>2
  <1> QED
    BY <1>1, <1>2 DEF SessionInv

\* A step that leaves the table alone keeps the invariant if it keeps the
\* memory of its thread true and calls settled orders voided only.
LEMMA SameTable ==
    ASSUME Inv, NEW w \in Workers, NEW s \in Session,
           session' = [session EXCEPT ![w] = s], UNCHANGED table, Remembers(s, statut),
           voided' \subseteq Orders, \A o \in voided' \ voided : statut[o] \in P!Settled
    PROVE  Inv' /\ [P!PaiementNext]_statut
  <1>1. statut' = statut /\ montant' = montant /\ refunded' = refunded
    BY DEF table
  <1>2. Advances(statut, statut') /\ Remembers(s, statut')
    BY <1>1 DEF Advances
  <1>3. SessionInv' /\ session' \in [Workers -> Session]
    BY <1>2, SessionStep
  <1>4. RefundedInv' /\ VoidIsFinal' /\ voided' \subseteq Orders
    BY <1>1 DEF Inv, RefundedInv, VoidIsFinal
  <1> QED
    BY <1>1, <1>3, <1>4 DEF Inv, TypeInv

-----------------------------------------------------------------------------

LEMMA DebitStep ==
    ASSUME Inv, NEW w \in Workers, NEW o \in Orders, NEW m \in Montants, Debit(w, o, m)
    PROVE  Inv' /\ [P!PaiementNext]_statut
  <1> DEFINE s == [at |-> "charge", order |-> o, statut |-> "NONE", montant |-> ToDecimal(m)]
  <1>1. s \in Session
    BY MontantsAssumption, Cents DEF Session, Inserts, P!TxStatus
  <1>2. Remembers(s, statut)
    BY DEF Remembers, Refunding
  <1>3. session' = [session EXCEPT ![w] = s] /\ UNCHANGED table /\ voided' = voided
    BY DEF Debit, Goes
  <1>4. voided' \subseteq Orders
    BY <1>3 DEF Inv
  <1> HIDE DEF s
  <1> QED
    BY <1>1, <1>2, <1>3, <1>4, SameTable

LEMMA ChargeStep ==
    ASSUME Inv, NEW w \in Workers, Charge(w)
    PROVE  Inv' /\ [P!PaiementNext]_statut
  <1> DEFINE v == IF session[w].montant < Threshold THEN "CAPTURED" ELSE "DECLINED"
             s == [session[w] EXCEPT !.at = "insert", !.statut = v]
  <1>1. session[w] \in Inserts
    BY SessionShape DEF Charge, Holds, Inv, TypeInv
  <1>2. s \in Session
    BY <1>1 DEF Session, Inserts, P!TxStatus
  <1>3. Remembers(s, statut)
    BY <1>1 DEF Remembers, Refunding, Inserts
  <1>4. session' = [session EXCEPT ![w] = s] /\ UNCHANGED table /\ voided' = voided
    BY DEF Charge, Goes
  <1>5. voided' \subseteq Orders
    BY <1>4 DEF Inv
  <1> HIDE DEF s
  <1> QED
    BY <1>2, <1>3, <1>4, <1>5, SameTable

LEMMA InsertStep ==
    ASSUME Inv, NEW w \in Workers, Insert(w)
    PROVE  Inv' /\ [P!PaiementNext]_statut
  <1> DEFINE s == session[w]
  <1>1. s \in Inserts /\ s.order \in Orders
    BY SessionShape DEF Insert, Holds, Inv, TypeInv, Inserts
  <1>2. s.statut \in {"CAPTURED", "DECLINED", "VOIDED"}
    BY DEF Insert, Holds, Inv, SessionInv, Remembers
  <1>3. Idle \in Session /\ \A st : Remembers(Idle, st)
    BY DEF Session, Remembers, Refunding, Idle
  <1>4. session' = [session EXCEPT ![w] = Idle]
    BY DEF Insert, Answers, Goes
  <1>5. CASE statut[s.order] # "NONE"
    <2>1. UNCHANGED table /\ voided' = voided /\ voided' \subseteq Orders
      BY <1>5 DEF Insert, table, Inv
    <2> QED
      BY <1>3, <1>4, <2>1, SameTable
  <1>6. CASE statut[s.order] = "NONE"
    <2>1. /\ statut' = [statut EXCEPT ![s.order] = s.statut]
          /\ montant' = [montant EXCEPT ![s.order] = s.montant]
          /\ voided' = IF s.statut = "VOIDED" THEN voided \cup {s.order} ELSE voided
          /\ refunded' = refunded
      BY <1>6 DEF Insert
    <2>2. Advances(statut, statut')
      BY <1>1, <1>6, <2>1 DEF Advances, Inv, TypeInv, P!Refundable
    <2>3. SessionInv' /\ session' \in [Workers -> Session]
      BY <1>3, <1>4, <2>2, SessionStep
    <2>4. TypeInv'
      BY <1>1, <1>2, <2>1, <2>3 DEF Inv, TypeInv, Inserts, P!TxStatus
    <2>5. RefundedInv'
      BY <1>1, <1>6, <2>1 DEF Inv, TypeInv, RefundedInv
    <2>6. VoidIsFinal' /\ voided' \subseteq Orders
      BY <1>1, <1>6, <2>1 DEF Inv, TypeInv, VoidIsFinal, P!Settled
    <2>7. P!PaiementNext
      <3>1. P!Debit(s.order) \/ P!Void(s.order)
        BY <1>2, <1>6, <2>1 DEF P!Debit, P!Void, P!VoidOutcome
      <3> QED
        BY <1>1, <3>1 DEF P!PaiementNext
    <2> QED
      BY <2>3, <2>4, <2>5, <2>6, <2>7 DEF Inv
  <1> QED
    BY <1>5, <1>6

LEMMA VoidOrderStep ==
    ASSUME Inv, NEW w \in Workers, NEW o \in Orders, VoidOrder(w, o)
    PROVE  Inv' /\ [P!PaiementNext]_statut
  <1>1. UNCHANGED table
    BY DEF VoidOrder
  <1>2. CASE statut[o] = "NONE"
    <2> DEFINE s == [at |-> "insert", order |-> o, statut |-> "VOIDED", montant |-> 0]
    <2>1. s \in Session /\ Remembers(s, statut)
      BY DEF Session, Inserts, Remembers, Refunding, P!TxStatus
    <2>2. session' = [session EXCEPT ![w] = s] /\ voided' = voided /\ voided' \subseteq Orders
      BY <1>2 DEF VoidOrder, Goes, Inv, P!Settled
    <2> HIDE DEF s
    <2> QED
      BY <1>1, <2>1, <2>2, SameTable
  <1>3. CASE statut[o] \in {"CAPTURED", "PARTIALLY_REFUNDED"}
    <2> DEFINE s == [at |-> "balance", order |-> o, statut |-> statut[o], void |-> TRUE,
                     asked |-> Omitted, montant |-> 0, solde |-> 0]
    <2>1. s \in Session /\ Remembers(s, statut)
      BY <1>3 DEF Session, Refunds, Remembers, Refunding, Omitted, P!TxStatus, P!Refundable
    <2>2. session' = [session EXCEPT ![w] = s] /\ voided' = voided /\ voided' \subseteq Orders
      BY <1>3 DEF VoidOrder, Loads, Goes, Inv, P!Settled
    <2> HIDE DEF s
    <2> QED
      BY <1>1, <2>1, <2>2, SameTable
  <1>4. CASE statut[o] \in P!Settled
    <2>1. session' = session /\ session[w] \in Session /\ Remembers(session[w], statut)
      BY <1>4 DEF VoidOrder, P!Settled, Inv, TypeInv, SessionInv
    <2>2. session' = [session EXCEPT ![w] = session[w]]
      BY <2>1 DEF Inv, TypeInv
    <2>3. voided' = voided \cup {o} /\ voided' \subseteq Orders
      BY <1>4 DEF VoidOrder, Inv, P!Settled
    <2> QED
      BY <1>1, <1>4, <2>1, <2>2, <2>3, SameTable
  <1> QED
    BY <1>2, <1>3, <1>4 DEF VoidOrder

LEMMA RefundStep ==
    ASSUME Inv, NEW w \in Workers, NEW o \in Orders, Refund(w, o, Omitted)
    PROVE  Inv' /\ [P!PaiementNext]_statut
  <1> DEFINE s == [at |-> "balance", order |-> o, statut |-> statut[o], void |-> FALSE,
                   asked |-> Omitted, montant |-> 0, solde |-> 0]
  <1>1. s \in Session /\ Remembers(s, statut)
    BY DEF Refund, Session, Refunds, Remembers, Refunding, Omitted, P!TxStatus, P!Refundable
  <1>2. session' = [session EXCEPT ![w] = s] /\ UNCHANGED table /\ voided' = voided
    BY DEF Refund, Loads, Goes
  <1>3. voided' \subseteq Orders
    BY <1>2 DEF Inv
  <1> HIDE DEF s
  <1> QED
    BY <1>1, <1>2, <1>3, SameTable

-----------------------------------------------------------------------------

LEMMA BalanceStep ==
    ASSUME Inv, NEW w \in Workers, Balance(w)
    PROVE  Inv' /\ [P!PaiementNext]_statut
  <1> DEFINE s == session[w]
             restant == Restant(s.order)
  <1>1. s \in Refunds /\ s.order \in Orders /\ s.at = "balance"
    BY SessionShape DEF Balance, Holds, Refunding, Inv, TypeInv, Refunds
  <1>2. Remembers(s, statut) /\ s.asked = Omitted /\ s.statut \in P!Refundable
    BY <1>1 DEF Inv, SessionInv, Remembers, Refunding
  <1>3. restant \in Int
    BY <1>1 DEF Restant, Inv, TypeInv
  <1>4. UNCHANGED table
    BY DEF Balance
  <1>5. ASSUME NEW m \in Wanted(s.asked, restant),
               Goes(w, [s EXCEPT !.at = "credit", !.montant = m, !.solde = restant]),
               UNCHANGED voided
        PROVE  Inv' /\ [P!PaiementNext]_statut
    <2> DEFINE t == [s EXCEPT !.at = "credit", !.montant = m, !.solde = restant]
    <2>1. m = restant
      BY <1>2 DEF Wanted
    <2>2. t \in Session
      BY <1>1, <1>3, <2>1 DEF Session, Refunds
    <2>3. Remembers(t, statut)
      BY <1>1, <1>2, <2>1 DEF Remembers, Refunding, Refunds
    <2>4. session' = [session EXCEPT ![w] = t] /\ voided' = voided /\ voided' \subseteq Orders
      BY <1>5 DEF Goes, Inv
    <2> HIDE DEF t
    <2> QED
      BY <1>4, <2>2, <2>3, <2>4, SameTable
  <1>6. ASSUME Answers(w),
               voided' = IF s.void /\ restant = 0 /\ refunded[s.order] > 0
                         THEN voided \cup {s.order} ELSE voided
        PROVE  Inv' /\ [P!PaiementNext]_statut
    <2>1. Idle \in Session /\ Remembers(Idle, statut)
      BY DEF Session, Remembers, Refunding, Idle
    <2>2. session' = [session EXCEPT ![w] = Idle]
      BY <1>6 DEF Answers, Goes
    <2>3. refunded[s.order] > 0 => statut[s.order] = "REFUNDED"
      BY <1>1 DEF Inv, TypeInv, RefundedInv
    <2>4. voided' \subseteq Orders /\ \A o \in voided' \ voided : statut[o] \in P!Settled
      BY <1>1, <1>6, <2>3 DEF Inv, P!Settled
    <2> QED
      BY <1>4, <2>1, <2>2, <2>4, SameTable
  <1> QED
    BY <1>5, <1>6 DEF Balance

LEMMA CreditStep ==
    ASSUME Inv, NEW w \in Workers, Credit(w)
    PROVE  Inv' /\ [P!PaiementNext]_statut
  <1> DEFINE s == session[w]
             t == [s EXCEPT !.at = "settle"]
  <1>1. s \in Refunds /\ s.at = "credit"
    BY SessionShape DEF Credit, Holds, Refunding, Inv, TypeInv
  <1>2. t \in Session
    BY <1>1 DEF Session, Refunds
  <1>3. Remembers(t, statut)
    BY <1>1 DEF Inv, SessionInv, Remembers, Refunding, Refunds
  <1>4. session' = [session EXCEPT ![w] = t] /\ UNCHANGED table /\ voided' = voided
    BY DEF Credit, Goes
  <1>5. voided' \subseteq Orders
    BY <1>4 DEF Inv
  <1> HIDE DEF t
  <1> QED
    BY <1>2, <1>3, <1>4, <1>5, SameTable

LEMMA SettleStep ==
    ASSUME Inv, NEW w \in Workers, Settle(w)
    PROVE  Inv' /\ [P!PaiementNext]_statut
  <1> DEFINE s == session[w]
  <1>1. s \in Refunds /\ s.order \in Orders /\ s.at = "settle"
    BY SessionShape DEF Settle, Holds, Refunding, Inv, TypeInv, Refunds
  <1>2. /\ s.montant = s.solde /\ s.statut \in P!Refundable
        /\ statut[s.order] \in P!Refundable
        /\ s.statut = "REFUNDED" => statut[s.order] = "REFUNDED"
    BY <1>1 DEF Inv, SessionInv, Remembers, Refunding
  <1>3. statut' = [statut EXCEPT ![s.order] = "REFUNDED"]
    BY <1>1, <1>2 DEF Settle, NewStatut, Inv, TypeInv
  <1>4. /\ refunded' = [refunded EXCEPT ![s.order] = @ + s.montant]
        /\ voided' = IF s.void THEN voided \cup {s.order} ELSE voided
        /\ montant' = montant /\ session' = [session EXCEPT ![w] = Idle]
    BY DEF Settle, Answers, Goes
  <1>5. Advances(statut, statut')
    BY <1>1, <1>3 DEF Advances, Inv, TypeInv, P!Refundable
  <1>6. Idle \in Session /\ Remembers(Idle, statut')
    BY DEF Session, Remembers, Refunding, Idle
  <1>7. SessionInv' /\ session' \in [Workers -> Session]
    BY <1>4, <1>5, <1>6, SessionStep
  <1>8. TypeInv'
    BY <1>1, <1>3, <1>4, <1>7 DEF Inv, TypeInv, Refunds, P!TxStatus
  <1>9. RefundedInv'
    BY <1>1, <1>3, <1>4 DEF Inv, TypeInv, RefundedInv
  <1>10. VoidIsFinal' /\ voided' \subseteq Orders
    BY <1>1, <1>3, <1>4 DEF Inv, TypeInv, VoidIsFinal, P!Settled
  <1>11. P!PaiementNext
    <2>1. P!Refund(s.order)
      BY <1>2, <1>3 DEF P!Refund
    <2> QED
      BY <1>1, <2>1 DEF P!PaiementNext
  <1> QED
    BY <1>7, <1>8, <1>9, <1>10, <1>11 DEF Inv

LEMMA FailsStep ==
    ASSUME Inv, NEW w \in Workers, Fails(w)
    PROVE  Inv' /\ [P!PaiementNext]_statut
  <1>1. Idle \in Session /\ Remembers(Idle, statut)
    BY DEF Session, Remembers, Refunding, Idle
  <1>2. session' = [session EXCEPT ![w] = Idle] /\ UNCHANGED table /\ voided' = voided
    BY DEF Fails, Answers, Goes
  <1>3. voided' \subseteq Orders
    BY <1>2 DEF Inv
  <1> QED
    BY <1>1, <1>2, <1>3, SameTable

-----------------------------------------------------------------------------

\* Every step keeps the invariant and is, for `statut`, a step of Paiement or none.
LEMMA Step ==
    ASSUME Parts = {}, Inv, [Next]_vars
    PROVE  Inv' /\ [P!PaiementNext]_statut
  <1>1. CASE UNCHANGED vars
    BY <1>1 DEF vars, table, Inv, TypeInv, SessionInv, RefundedInv, VoidIsFinal
  <1>2. ASSUME NEW w \in Workers, Requests(w)
        PROVE  Inv' /\ [P!PaiementNext]_statut
    <2>1. PICK o \in Orders :
             \/ \E m \in Montants : Debit(w, o, m)
             \/ VoidOrder(w, o)
             \/ Refund(w, o, Omitted)
      BY <1>2 DEF Requests
    <2> QED
      BY <2>1, DebitStep, VoidOrderStep, RefundStep
  <1>3. ASSUME NEW w \in Workers,
               Charge(w) \/ Insert(w) \/ Balance(w) \/ Credit(w) \/ Settle(w) \/ Fails(w)
        PROVE  Inv' /\ [P!PaiementNext]_statut
    BY <1>3, ChargeStep, InsertStep, BalanceStep, CreditStep, SettleStep, FailsStep
  <1> QED
    BY <1>1, <1>2, <1>3 DEF Next

\* Requests that interleave, are repeated and fail half way keep, on `statut`, the
\* promise of the atomic endpoints: the saga may be checked against Paiement alone.
THEOREM PromiseKept == ASSUME Parts = {} PROVE Spec => Promise
  <1>1. Inv /\ [Next]_vars => Inv' /\ [P!PaiementNext]_statut
    BY Step
  <1>2. Init => P!PaiementInit
    BY DEF Init, P!PaiementInit
  <1> QED
    BY <1>1, <1>2, InitInv, PTL DEF Spec, Promise, P!PaiementSpec

\* An order whose void was answered stays settled (service.void_order).
THEOREM VoidSafety == ASSUME Parts = {} PROVE Spec => []VoidIsFinal
  <1>1. Inv /\ [Next]_vars => Inv'
    BY Step
  <1>2. Inv => VoidIsFinal
    BY DEF Inv
  <1> QED
    BY <1>1, <1>2, InitInv, PTL DEF Spec
=============================================================================
