------------------------- MODULE PaiementBooksProofs -------------------------
(* What the rows of Paiement say of the money, for any number of orders, of   *)
(* threads and of failures, and for refunds of any amount.                    *)
EXTENDS PaiementSessionsProofs, FiniteSetTheorems

\* What a thread holds is told by where it stands.
Sound(s) ==
    /\ s.at = "insert" => s.statut \in {"CAPTURED", "DECLINED", "VOIDED"}
    /\ s.at \in {"credit", "settle"} => 0 < s.montant /\ s.montant <= s.solde

Shape == TypeOK /\ \A w \in Workers : Sound(session[w])

\* A captured row, or one about to be, is backed by the PSP; a refund under way has
\* such a row.
Backed ==
    /\ \A o \in Orders : statut[o] \in P!Refundable => charged[o] >= montant[o]
    /\ \A w \in Workers : LET s == session[w] IN
          /\ s.at = "insert" /\ s.statut = "CAPTURED" => charged[s.order] >= s.montant
          /\ s.at \in Refunding => statut[s.order] \in P!Refundable

\* The cents that the PSP gave back for an order are numbered as it gives them: done[o]
\* are those a row tells, own[w] those a thread has yet to commit, and none is in two.
Allots(own, done) ==
    /\ \A o \in Orders : done[o] \subseteq 1..givenBack[o] /\ Cardinality(done[o]) = refunded[o]
    /\ \A w \in Workers : LET s == session[w] IN s.at = "settle" =>
          /\ own[w] \subseteq 1..givenBack[s.order] /\ Cardinality(own[w]) = s.montant
          /\ own[w] \cap done[s.order] = {}
          /\ \A v \in Workers \ {w} :
                session[v].at = "settle" /\ session[v].order = s.order => own[v] \cap own[w] = {}

Allotted ==
    \E own \in [Workers -> SUBSET Nat], done \in [Orders -> SUBSET Nat] : Allots(own, done)

-----------------------------------------------------------------------------
(* What a step does, told without the records of the sessions.              *)

Becomes(w, s) == session' = [session EXCEPT ![w] = s]
Quiet ==
    /\ statut' = statut /\ montant' = montant /\ refunded' = refunded
    /\ charged' = charged /\ givenBack' = givenBack
Bounded == voided \subseteq Orders /\ failures \in 0..MaxFailures

\* A thread takes a request.
Starts(w) ==
    \E s \in Session :
        /\ Becomes(w, s) /\ Quiet /\ session[w] = Idle
        /\ \/ s.at \in {"charge", "insert"} /\ statut[s.order] = "NONE"
              /\ (s.at = "insert" => s.statut = "VOIDED")
           \/ s.at = "balance" /\ s.statut = statut[s.order] /\ s.statut \in P!Refundable

\* The PSP takes the amount, or declines it.
Charges(w) ==
    \E s \in Session :
        /\ Becomes(w, s) /\ session[w].at = "charge" /\ s.at = "insert"
        /\ s.order = session[w].order /\ s.montant = session[w].montant
        /\ statut' = statut /\ montant' = montant /\ refunded' = refunded
        /\ givenBack' = givenBack
        /\ \/ s.statut = "CAPTURED" /\ charged' = [charged EXCEPT ![s.order] = @ + s.montant]
           \/ s.statut = "DECLINED" /\ charged' = charged

\* The row is committed.
Lands(w) ==
    LET s == session[w] IN
    /\ s.at = "insert" /\ statut[s.order] = "NONE" /\ Becomes(w, Idle)
    /\ statut' = [statut EXCEPT ![s.order] = s.statut]
    /\ montant' = [montant EXCEPT ![s.order] = s.montant]
    /\ refunded' = refunded /\ charged' = charged /\ givenBack' = givenBack

\* The balance allows the refund.
Weighs(w) ==
    \E s \in Session :
        /\ Becomes(w, s) /\ Quiet /\ session[w].at = "balance" /\ s.at = "credit"
        /\ s.order = session[w].order /\ s.statut = session[w].statut
        /\ s.solde = Restant(s.order) /\ 0 < s.montant /\ s.montant <= s.solde

\* The PSP gives the amount back.
Credits(w) ==
    \E s \in Session :
        /\ Becomes(w, s) /\ session[w].at = "credit" /\ s.at = "settle"
        /\ s.order = session[w].order /\ s.statut = session[w].statut
        /\ s.montant = session[w].montant /\ s.solde = session[w].solde
        /\ givenBack' = [givenBack EXCEPT ![s.order] = @ + s.montant]
        /\ statut' = statut /\ montant' = montant /\ refunded' = refunded
        /\ charged' = charged

\* The refund is committed.
Settles(w) ==
    LET s == session[w] IN
    /\ s.at = "settle" /\ Becomes(w, Idle)
    /\ refunded' = [refunded EXCEPT ![s.order] = @ + s.montant]
    /\ statut' = IF NewStatut(s) = s.statut THEN statut
                 ELSE [statut EXCEPT ![s.order] = NewStatut(s)]
    /\ montant' = montant /\ charged' = charged /\ givenBack' = givenBack
    /\ failures' = failures

\* The request ends without a trace: it fails, is refused or comes second.
Drops(w) ==
    LET s == session[w] IN
    /\ Becomes(w, Idle) /\ Quiet
    /\ \/ failures < MaxFailures /\ failures' = failures + 1
       \/ s.at = "balance"
       \/ s.at = "insert" /\ statut[s.order] # "NONE"

Does(w) ==
    \/ Starts(w) \/ Charges(w) \/ Lands(w) \/ Weighs(w) \/ Credits(w) \/ Settles(w)
    \/ Drops(w)
    \/ session' = session /\ Quiet

-----------------------------------------------------------------------------

LEMMA Sessions ==
    ASSUME Shape, NEW w \in Workers
    PROVE  /\ session[w] \in Session
           /\ session[w].at \in {"charge", "insert"} => session[w] \in Inserts
           /\ session[w].at \in Refunding => session[w] \in Refunds
           /\ session[w].at \in {"idle", "charge", "insert"} \cup Refunding
           /\ session[w].at = "idle" => session[w] = Idle
  <1>1. session[w] \in Session
    BY DEF Shape, TypeOK, Session
  <1>2. session[w].at \in {"idle", "charge", "insert"} \cup Refunding
        /\ (session[w].at = "idle" => session[w] = Idle)
    BY <1>1 DEF Session, Idle, Inserts, Refunds, Refunding
  <1> QED
    BY <1>1, <1>2, SessionShape

LEMMA StartsEffect ==
    ASSUME Shape, NEW w \in Workers, Requests(w)
    PROVE  (Starts(w) \/ (session' = session /\ Quiet)) /\ Bounded'
  <1>0. /\ voided \subseteq Orders /\ failures \in 0..MaxFailures
        /\ statut \in [Orders -> P!TxStatus]
    BY DEF Shape, TypeOK
  <1>1. ASSUME NEW o \in Orders, NEW m \in Montants, Debit(w, o, m)
        PROVE  Starts(w) /\ Bounded'
    <2> DEFINE s == [at |-> "charge", order |-> o, statut |-> "NONE", montant |-> ToDecimal(m)]
    <2>1. s \in Session
      BY MontantsAssumption, Cents DEF Session, Inserts, P!TxStatus
    <2>2. s.at = "charge" /\ s.order = o
      OBVIOUS
    <2>3. session[w] = Idle /\ statut[o] = "NONE" /\ Becomes(w, s) /\ Quiet
      BY <1>1 DEF Debit, Goes, Becomes, Quiet, table, psp
    <2> HIDE DEF s
    <2>4. Bounded'
      BY <1>0, <1>1 DEF Debit, Bounded
    <2> QED
      BY <2>1, <2>2, <2>3, <2>4 DEF Starts
  <1>2. ASSUME NEW o \in Orders, NEW asked \in Nat, NEW void \in BOOLEAN,
               session[w] = Idle, statut[o] \in P!Refundable, Loads(w, o, void, asked), Quiet
        PROVE  Starts(w)
    <2> DEFINE s == [at |-> "balance", order |-> o, statut |-> statut[o], void |-> void,
                     asked |-> asked, montant |-> 0, solde |-> 0]
    <2>1. s \in Session
      <3>1. statut[o] \in P!TxStatus
        BY <1>0
      <3>2. s \in Refunds
        BY <3>1 DEF Refunds
      <3> QED
        BY <3>2 DEF Session
    <2>2. s.at = "balance" /\ s.order = o /\ s.statut = statut[o]
      OBVIOUS
    <2>3. Becomes(w, s)
      BY <1>2 DEF Loads, Goes, Becomes
    <2> HIDE DEF s
    <2> QED
      BY <1>2, <2>1, <2>2, <2>3 DEF Starts
  <1>3. ASSUME NEW o \in Orders, VoidOrder(w, o)
        PROVE  (Starts(w) \/ (session' = session /\ Quiet)) /\ Bounded'
    <2>1. Quiet /\ session[w] = Idle /\ failures' = failures
      BY <1>3 DEF VoidOrder, Quiet, table, psp
    <2>2. Bounded'
      BY <1>0, <1>3 DEF VoidOrder, Bounded
    <2>3. CASE statut[o] = "NONE"
      <3> DEFINE s == [at |-> "insert", order |-> o, statut |-> "VOIDED", montant |-> 0]
      <3>1. s \in Session
        BY DEF Session, Inserts, P!TxStatus
      <3>2. s.at = "insert" /\ s.order = o /\ s.statut = "VOIDED"
        OBVIOUS
      <3>3. Becomes(w, s)
        BY <1>3, <2>3 DEF VoidOrder, Goes, Becomes, P!Settled
      <3> HIDE DEF s
      <3> QED
        BY <2>1, <2>2, <2>3, <3>1, <3>2, <3>3 DEF Starts
    <2>4. CASE statut[o] \in {"CAPTURED", "PARTIALLY_REFUNDED"}
      <3>1. Loads(w, o, TRUE, Omitted) /\ statut[o] \in P!Refundable /\ Omitted \in Nat
        BY <1>3, <2>4 DEF VoidOrder, P!Settled, P!Refundable, Omitted
      <3> QED
        BY <1>2, <2>1, <2>2, <3>1
    <2>5. CASE statut[o] \in P!Settled
      BY <1>3, <2>1, <2>2, <2>5 DEF VoidOrder, P!Settled
    <2> QED
      BY <1>3, <2>3, <2>4, <2>5 DEF VoidOrder
  <1>4. ASSUME NEW o \in Orders, NEW asked \in Parts \cup {Omitted}, Refund(w, o, asked)
        PROVE  Starts(w) /\ Bounded'
    <2>1. asked \in Nat
      BY MontantsAssumption DEF Omitted
    <2>2. session[w] = Idle /\ statut[o] \in P!Refundable /\ Loads(w, o, FALSE, asked)
      BY <1>4 DEF Refund
    <2>3. Quiet
      BY <1>4 DEF Refund, Quiet, table, psp
    <2>4. Bounded'
      BY <1>0, <1>4 DEF Refund, Bounded
    <2> QED
      BY <1>2, <2>1, <2>2, <2>3, <2>4
  <1> QED
    BY <1>1, <1>3, <1>4 DEF Requests

LEMMA ChargesEffect ==
    ASSUME Shape, NEW w \in Workers, Charge(w)
    PROVE  Charges(w) /\ Bounded'
  <1> DEFINE v == IF session[w].montant < Threshold THEN "CAPTURED" ELSE "DECLINED"
             s == [session[w] EXCEPT !.at = "insert", !.statut = v]
  <1>1. session[w] \in Inserts /\ session[w].at = "charge"
    BY Sessions DEF Charge, Holds
  <1>2. s \in Session
    BY <1>1 DEF Session, Inserts, P!TxStatus
  <1>3. /\ s.at = "insert" /\ s.order = session[w].order
        /\ s.montant = session[w].montant /\ s.statut = v
    BY <1>1 DEF Inserts
  <1>4. Becomes(w, s)
    BY DEF Charge, Goes, Becomes
  <1>5. /\ statut' = statut /\ montant' = montant /\ refunded' = refunded
        /\ givenBack' = givenBack
        /\ charged' = IF session[w].montant < Threshold
                      THEN [charged EXCEPT ![session[w].order] = @ + session[w].montant]
                      ELSE charged
    BY DEF Charge, table
  <1>6. Bounded'
    BY DEF Charge, Bounded, Shape, TypeOK
  <1> HIDE DEF s
  <1> QED
    BY <1>1, <1>2, <1>3, <1>4, <1>5, <1>6 DEF Charges

LEMMA LandsEffect ==
    ASSUME Shape, NEW w \in Workers, Insert(w)
    PROVE  (Lands(w) \/ Drops(w)) /\ Bounded'
  <1>1. session[w] \in Inserts /\ session[w].at = "insert" /\ Becomes(w, Idle)
    BY Sessions DEF Insert, Holds, Answers, Goes, Becomes
  <1>2. refunded' = refunded /\ charged' = charged /\ givenBack' = givenBack
    BY DEF Insert, psp
  <1>3. Bounded'
    <2>1. session[w].order \in Orders
      BY <1>1 DEF Inserts
    <2> QED
      BY <2>1 DEF Insert, Bounded, Shape, TypeOK
  <1>4. CASE statut[session[w].order] = "NONE"
    BY <1>1, <1>2, <1>3, <1>4 DEF Insert, Lands
  <1>5. CASE statut[session[w].order] # "NONE"
    BY <1>1, <1>2, <1>3, <1>5 DEF Insert, Drops, Quiet
  <1> QED
    BY <1>4, <1>5

LEMMA WeighsEffect ==
    ASSUME Shape, NEW w \in Workers, Balance(w)
    PROVE  (Weighs(w) \/ Drops(w)) /\ Bounded'
  <1> DEFINE s == session[w]
             restant == Restant(s.order)
  <1>1. s \in Refunds /\ s.order \in Orders /\ s.at = "balance" /\ s.asked \in Nat
    BY Sessions DEF Balance, Holds, Refunding, Refunds
  <1>2. restant \in Int
    BY <1>1 DEF Restant, Shape, TypeOK
  <1>3. Quiet
    BY DEF Balance, Quiet, table, psp
  <1>4. Bounded'
    BY <1>1 DEF Balance, Bounded, Shape, TypeOK
  <1>5. ASSUME NEW m \in Wanted(s.asked, restant),
               Goes(w, [s EXCEPT !.at = "credit", !.montant = m, !.solde = restant])
        PROVE  Weighs(w)
    <2> DEFINE t == [s EXCEPT !.at = "credit", !.montant = m, !.solde = restant]
    <2>1. 0 < m /\ m <= restant /\ m \in Int
      BY <1>1, <1>2, Cents DEF Wanted
    <2>2. t \in Session
      BY <1>1, <1>2, <2>1 DEF Session, Refunds
    <2>3. /\ t.at = "credit" /\ t.order = s.order /\ t.statut = s.statut
          /\ t.montant = m /\ t.solde = restant
      BY <1>1 DEF Refunds
    <2>4. Becomes(w, t)
      BY <1>5 DEF Goes, Becomes
    <2> HIDE DEF t
    <2> QED
      BY <1>1, <1>3, <2>1, <2>2, <2>3, <2>4 DEF Weighs
  <1>6. ASSUME Answers(w) PROVE Drops(w)
    BY <1>1, <1>3, <1>6 DEF Drops, Answers, Goes, Becomes
  <1> QED
    BY <1>4, <1>5, <1>6 DEF Balance

LEMMA CreditsEffect ==
    ASSUME Shape, NEW w \in Workers, Credit(w)
    PROVE  Credits(w) /\ Bounded'
  <1> DEFINE s == session[w]
             t == [s EXCEPT !.at = "settle"]
  <1>1. s \in Refunds /\ s.at = "credit"
    BY Sessions DEF Credit, Holds, Refunding
  <1>2. t \in Session
    BY <1>1 DEF Session, Refunds
  <1>3. /\ t.at = "settle" /\ t.order = s.order /\ t.statut = s.statut
        /\ t.montant = s.montant /\ t.solde = s.solde
    BY <1>1 DEF Refunds
  <1>4. Becomes(w, t)
    BY DEF Credit, Goes, Becomes
  <1>5. /\ statut' = statut /\ montant' = montant /\ refunded' = refunded
        /\ charged' = charged
        /\ givenBack' = [givenBack EXCEPT ![s.order] = @ + s.montant]
    BY DEF Credit, table
  <1>6. Bounded'
    BY DEF Credit, Bounded, Shape, TypeOK
  <1> HIDE DEF t
  <1> QED
    BY <1>1, <1>2, <1>3, <1>4, <1>5, <1>6 DEF Credits

LEMMA SettlesEffect ==
    ASSUME Shape, NEW w \in Workers, Settle(w)
    PROVE  Settles(w) /\ Bounded'
  <1>1. session[w] \in Refunds /\ session[w].at = "settle"
    BY Sessions DEF Settle, Holds, Refunding
  <1>2. Settles(w)
    BY <1>1 DEF Settle, Settles, Answers, Goes, Becomes, psp
  <1>3. Bounded'
    <2>1. session[w].order \in Orders
      BY <1>1 DEF Refunds
    <2> QED
      BY <2>1 DEF Settle, Bounded, Shape, TypeOK
  <1> QED
    BY <1>2, <1>3

LEMMA FailsEffect ==
    ASSUME Shape, NEW w \in Workers, Fails(w)
    PROVE  Drops(w) /\ Bounded'
  <1>1. Drops(w)
    BY DEF Fails, Drops, Quiet, table, psp, Answers, Goes, Becomes
  <1>2. Bounded'
    BY MaxFailuresAssumption DEF Fails, Bounded, Shape, TypeOK
  <1> QED
    BY <1>1, <1>2

\* Every step is, for the rows and the PSP, one of the seven above or none.
LEMMA Effects ==
    ASSUME Shape, [Next]_vars
    PROVE  ((Quiet /\ session' = session) \/ (\E w \in Workers : Does(w))) /\ Bounded'
  <1>1. CASE UNCHANGED vars
    BY <1>1 DEF vars, table, psp, Quiet, Bounded, Shape, TypeOK
  <1>2. ASSUME NEW w \in Workers,
               Requests(w) \/ Charge(w) \/ Insert(w) \/ Balance(w) \/ Credit(w)
               \/ Settle(w) \/ Fails(w)
        PROVE  Does(w) /\ Bounded'
    BY <1>2, StartsEffect, ChargesEffect, LandsEffect, WeighsEffect, CreditsEffect,
       SettlesEffect, FailsEffect DEF Does
  <1> QED
    BY <1>1, <1>2 DEF Next

-----------------------------------------------------------------------------
(* The shape of the rows and of the sessions.                               *)

LEMMA ShapeBy ==
    ASSUME Shape, Bounded', NEW w \in Workers, NEW s \in Session, Becomes(w, s), Sound(s),
           statut' \in [Orders -> P!TxStatus],
           montant' \in [Orders -> Nat], refunded' \in [Orders -> Nat],
           charged' \in [Orders -> Nat], givenBack' \in [Orders -> Nat]
    PROVE  Shape'
  <1>1. session' \in [Workers -> Session]
    BY DEF Shape, TypeOK, Session, Becomes
  <1>2. ASSUME NEW v \in Workers PROVE Sound(session'[v])
    BY DEF Shape, TypeOK, Becomes
  <1>3. TypeOK'
    BY <1>1 DEF TypeOK, Session, Bounded
  <1> QED
    BY <1>2, <1>3 DEF Shape

LEMMA SoundIdle == Idle \in Session /\ Sound(Idle) /\ Idle.at = "idle"
  BY DEF Session, Sound, Idle

LEMMA ShapeStep ==
    ASSUME Shape, Bounded', NEW w \in Workers, Does(w)
    PROVE  Shape'
  <1>0. /\ statut \in [Orders -> P!TxStatus]
        /\ montant \in [Orders -> Nat] /\ refunded \in [Orders -> Nat]
        /\ charged \in [Orders -> Nat] /\ givenBack \in [Orders -> Nat]
        /\ Sound(session[w])
    BY DEF Shape, TypeOK
  <1>1. CASE Starts(w)
    <2>1. PICK s \in Session :
             /\ Becomes(w, s) /\ Quiet
             /\ \/ s.at \in {"charge", "insert"} /\ (s.at = "insert" => s.statut = "VOIDED")
                \/ s.at = "balance"
      BY <1>1 DEF Starts
    <2>2. Sound(s)
      BY <2>1 DEF Sound
    <2> QED
      BY <1>0, <2>1, <2>2, ShapeBy DEF Quiet
  <1>2. CASE Charges(w)
    <2>1. PICK s \in Session :
             /\ Becomes(w, s) /\ s.at = "insert" /\ session[w].at = "charge"
             /\ s.order = session[w].order /\ s.montant = session[w].montant
             /\ statut' = statut /\ montant' = montant /\ refunded' = refunded
             /\ givenBack' = givenBack /\ s.statut \in {"CAPTURED", "DECLINED"}
             /\ charged' \in {charged, [charged EXCEPT ![s.order] = @ + s.montant]}
      BY <1>2 DEF Charges
    <2>2. Sound(s)
      BY <2>1 DEF Sound
    <2>3. s.order \in Orders /\ s.montant \in Nat
      BY <2>1, Sessions DEF Inserts
    <2>4. charged' \in [Orders -> Nat]
      BY <1>0, <2>1, <2>3
    <2> QED
      BY <1>0, <2>1, <2>2, <2>4, ShapeBy
  <1>3. CASE Lands(w)
    <2>1. session[w].order \in Orders /\ session[w].montant \in Nat
          /\ session[w].statut \in P!TxStatus
      BY <1>3, Sessions DEF Lands, Inserts
    <2> QED
      BY <1>0, <1>3, <2>1, SoundIdle, ShapeBy DEF Lands
  <1>4. CASE Weighs(w)
    <2>1. PICK s \in Session : /\ Becomes(w, s) /\ Quiet /\ s.at = "credit"
                               /\ 0 < s.montant /\ s.montant <= s.solde
      BY <1>4 DEF Weighs
    <2>2. Sound(s)
      BY <2>1 DEF Sound
    <2> QED
      BY <1>0, <2>1, <2>2, ShapeBy DEF Quiet
  <1>5. CASE Credits(w)
    <2>1. PICK s \in Session :
             /\ Becomes(w, s) /\ session[w].at = "credit" /\ s.at = "settle"
             /\ s.order = session[w].order
             /\ s.montant = session[w].montant /\ s.solde = session[w].solde
             /\ givenBack' = [givenBack EXCEPT ![s.order] = @ + s.montant]
             /\ statut' = statut /\ montant' = montant /\ refunded' = refunded
             /\ charged' = charged
      BY <1>5 DEF Credits
    <2>2. Sound(s)
      BY <1>0, <2>1 DEF Sound
    <2>3. s.order \in Orders /\ s.montant \in Int
      BY <2>1, Sessions DEF Refunds, Refunding
    <2>4. s.montant \in Nat
      BY <2>1, <2>2, <2>3 DEF Sound
    <2>5. givenBack' \in [Orders -> Nat]
      BY <1>0, <2>1, <2>3, <2>4
    <2> QED
      BY <1>0, <2>1, <2>2, <2>5, ShapeBy
  <1>6. CASE Settles(w)
    <2> DEFINE s == session[w]
    <2>1. s.order \in Orders /\ s.montant \in Int /\ s.at = "settle"
      BY <1>6, Sessions DEF Settles, Refunds, Refunding
    <2>2. s.montant \in Nat
      BY <1>0, <2>1 DEF Sound
    <2>3. refunded' \in [Orders -> Nat]
      BY <1>0, <1>6, <2>1, <2>2 DEF Settles
    <2>4. statut' \in [Orders -> P!TxStatus]
      BY <1>0, <1>6, <2>1 DEF Settles, NewStatut, P!TxStatus
    <2> QED
      BY <1>0, <1>6, <2>3, <2>4, SoundIdle, ShapeBy DEF Settles
  <1>7. CASE Drops(w)
    BY <1>0, <1>7, SoundIdle, ShapeBy DEF Drops, Quiet
  <1>8. CASE session' = session /\ Quiet
    BY <1>8 DEF Shape, TypeOK, Quiet, Bounded
  <1> QED
    BY <1>1, <1>2, <1>3, <1>4, <1>5, <1>6, <1>7, <1>8 DEF Does

LEMMA ShapeKept == ASSUME Shape, [Next]_vars PROVE Shape'
  <1>1. CASE Quiet /\ session' = session
    BY <1>1, Effects DEF Shape, TypeOK, Quiet, Bounded
  <1> QED
    BY <1>1, Effects, ShapeStep

LEMMA ShapeAtFirst == Init => Shape
  BY MaxFailuresAssumption
  DEF Init, Shape, TypeOK, Sound, Idle, P!TxStatus

\* The rows, the sessions and the PSP's books keep their shape, whatever parts refunds
\* ask: an amount given back is never negative nor above the balance read (service.refund).
THEOREM TypeSafety == Spec => []TypeOK
  <1>1. Shape => TypeOK
    BY DEF Shape
  <1> QED
    BY <1>1, ShapeAtFirst, ShapeKept, PTL DEF Spec

-----------------------------------------------------------------------------
(* What the rows say was taken was taken.                                   *)

Remembered(s, st, ch) ==
    /\ s.at = "insert" /\ s.statut = "CAPTURED" => ch[s.order] >= s.montant
    /\ s.at \in Refunding => st[s.order] \in P!Refundable

LEMMA BackedBy ==
    ASSUME Shape, Backed, NEW w \in Workers, NEW s \in Session, Becomes(w, s),
           \A o \in Orders : statut[o] \in P!Refundable => statut'[o] \in P!Refundable,
           \A o \in Orders : charged'[o] \in Nat /\ charged'[o] >= charged[o],
           \A o \in Orders : statut'[o] \in P!Refundable => charged'[o] >= montant'[o],
           Remembered(s, statut', charged')
    PROVE  Backed'
  <1>1. ASSUME NEW v \in Workers PROVE Remembered(session'[v], statut', charged')
    <2>1. CASE v = w
      BY <2>1 DEF Becomes, Shape, TypeOK
    <2>2. CASE v # w
      <3>1. session'[v] = session[v]
        BY <2>2 DEF Becomes, Shape, TypeOK
      <3>2. Remembered(session[v], statut, charged)
        BY DEF Backed, Remembered
      <3>3. /\ session[v].at = "insert" => session[v].order \in Orders /\ session[v].montant \in Nat
            /\ session[v].at \in Refunding => session[v].order \in Orders
        BY Sessions DEF Inserts, Refunds
      <3>4. \A o \in Orders : charged[o] \in Nat
        BY DEF Shape, TypeOK
      <3> QED
        BY <3>1, <3>2, <3>3, <3>4 DEF Remembered
    <2> QED
      BY <2>1, <2>2
  <1> QED
    BY <1>1 DEF Backed, Remembered

LEMMA BackedStep ==
    ASSUME Shape, Shape', Backed, NEW w \in Workers, Does(w)
    PROVE  Backed'
  <1>0. /\ statut \in [Orders -> P!TxStatus] /\ montant \in [Orders -> Nat]
        /\ charged \in [Orders -> Nat] /\ charged' \in [Orders -> Nat]
        /\ \A o \in Orders : statut[o] \in P!Refundable => charged[o] >= montant[o]
        /\ Remembered(session[w], statut, charged)
    BY DEF Shape, TypeOK, Backed, Remembered
  <1>1. CASE Starts(w)
    <2>1. PICK s \in Session :
             /\ Becomes(w, s) /\ Quiet
             /\ \/ s.at \in {"charge", "insert"} /\ (s.at = "insert" => s.statut = "VOIDED")
                \/ s.at = "balance" /\ s.statut = statut[s.order] /\ s.statut \in P!Refundable
      BY <1>1 DEF Starts
    <2>2. Remembered(s, statut, charged)
      BY <2>1 DEF Remembered, Refunding
    <2> QED
      BY <1>0, <2>1, <2>2, BackedBy DEF Quiet
  <1>2. CASE Charges(w)
    <2>1. PICK s \in Session :
             /\ Becomes(w, s) /\ session[w].at = "charge" /\ s.at = "insert"
             /\ s.order = session[w].order /\ s.montant = session[w].montant
             /\ statut' = statut /\ montant' = montant
             /\ \/ s.statut = "CAPTURED" /\ charged' = [charged EXCEPT ![s.order] = @ + s.montant]
                \/ s.statut = "DECLINED" /\ charged' = charged
      BY <1>2 DEF Charges
    <2>2. s.order \in Orders /\ s.montant \in Nat
      BY <2>1, Sessions DEF Inserts
    <2>3. \A o \in Orders : charged'[o] >= charged[o]
      BY <1>0, <2>1, <2>2
    <2>4. Remembered(s, statut', charged')
      BY <1>0, <2>1, <2>2 DEF Remembered, Refunding
    <2>5. \A o \in Orders : statut'[o] \in P!Refundable => charged'[o] >= montant'[o]
      BY <1>0, <2>1, <2>3
    <2> QED
      BY <1>0, <2>1, <2>3, <2>4, <2>5, BackedBy
  <1>3. CASE Lands(w)
    <2> DEFINE s == session[w]
    <2>1. s.order \in Orders /\ s.montant \in Nat /\ s.statut \in {"CAPTURED", "DECLINED", "VOIDED"}
      BY <1>3, Sessions DEF Lands, Inserts, Shape, Sound
    <2>2. \A o \in Orders : statut[o] \in P!Refundable => statut'[o] \in P!Refundable
      BY <1>0, <1>3, <2>1 DEF Lands, P!Refundable
    <2>3. ASSUME NEW o \in Orders, statut'[o] \in P!Refundable PROVE charged'[o] >= montant'[o]
      <3>1. CASE o = s.order
        <4>1. s.statut = "CAPTURED" /\ montant'[o] = s.montant /\ charged' = charged
          BY <1>0, <1>3, <2>1, <2>3, <3>1 DEF Lands, P!Refundable
        <4>2. charged[o] >= s.montant
          BY <1>0, <1>3, <3>1, <4>1 DEF Lands, Remembered
        <4> QED
          BY <4>1, <4>2
      <3>2. CASE o # s.order
        BY <1>0, <1>3, <2>3, <3>2 DEF Lands
      <3> QED
        BY <3>1, <3>2
    <2>4. Remembered(Idle, statut', charged')
      BY SoundIdle DEF Remembered, Refunding
    <2>5. Becomes(w, Idle) /\ charged' = charged
      BY <1>3 DEF Lands
    <2>6. \A o \in Orders : charged'[o] \in Nat /\ charged'[o] >= charged[o]
      BY <1>0, <2>5
    <2> QED
      BY <2>2, <2>3, <2>4, <2>5, <2>6, SoundIdle, BackedBy
  <1>4. CASE Weighs(w)
    <2>1. PICK s \in Session :
             /\ Becomes(w, s) /\ Quiet /\ session[w].at = "balance" /\ s.at = "credit"
             /\ s.order = session[w].order
      BY <1>4 DEF Weighs
    <2>2. Remembered(s, statut, charged)
      BY <1>0, <2>1 DEF Remembered, Refunding
    <2> QED
      BY <1>0, <2>1, <2>2, BackedBy DEF Quiet
  <1>5. CASE Credits(w)
    <2>1. PICK s \in Session :
             /\ Becomes(w, s) /\ session[w].at = "credit" /\ s.at = "settle"
             /\ s.order = session[w].order
             /\ statut' = statut /\ montant' = montant /\ charged' = charged
      BY <1>5 DEF Credits
    <2>2. Remembered(s, statut, charged)
      BY <1>0, <2>1 DEF Remembered, Refunding
    <2> QED
      BY <1>0, <2>1, <2>2, BackedBy
  <1>6. CASE Settles(w)
    <2> DEFINE s == session[w]
    <2>1. s.order \in Orders /\ statut[s.order] \in P!Refundable
      BY <1>0, <1>6, Sessions DEF Settles, Refunds, Refunding, Remembered
    <2>2. NewStatut(s) \in P!Refundable
      BY DEF NewStatut, P!Refundable
    <2>3. \A o \in Orders : statut'[o] \in P!Refundable <=> statut[o] \in P!Refundable
      BY <1>0, <1>6, <2>1, <2>2 DEF Settles
    <2>4. Remembered(Idle, statut', charged')
      BY SoundIdle DEF Remembered, Refunding
    <2>5. Becomes(w, Idle) /\ montant' = montant /\ charged' = charged
      BY <1>6 DEF Settles
    <2> QED
      BY <1>0, <2>3, <2>4, <2>5, SoundIdle, BackedBy
  <1>7. CASE Drops(w)
    <2>1. Remembered(Idle, statut', charged')
      BY SoundIdle DEF Remembered, Refunding
    <2> QED
      BY <1>0, <1>7, <2>1, SoundIdle, BackedBy DEF Drops, Quiet
  <1>8. CASE session' = session /\ Quiet
    BY <1>8 DEF Backed, Quiet
  <1> QED
    BY <1>1, <1>2, <1>3, <1>4, <1>5, <1>6, <1>7, <1>8 DEF Does

-----------------------------------------------------------------------------
(* What the rows say was given back was given back.                         *)

LEMMA AllottedBy ==
    ASSUME Shape, Allotted, NEW w \in Workers, NEW s \in Session, Becomes(w, s),
           s.at # "settle", givenBack' = givenBack, refunded' = refunded
    PROVE  Allotted'
  <1>1. PICK own \in [Workers -> SUBSET Nat], done \in [Orders -> SUBSET Nat] :
           Allots(own, done)
    BY DEF Allotted
  <1>2. session \in [Workers -> Session]
    BY DEF Shape, TypeOK, Session
  <1>3. ASSUME NEW v \in Workers, session'[v].at = "settle"
        PROVE  v # w /\ session'[v] = session[v]
    BY <1>2, <1>3 DEF Becomes
  <1>4. Allots(own, done)'
    BY <1>1, <1>3 DEF Allots
  <1> QED
    BY <1>4 DEF Allotted

\* Numbers of cents that follow each other.
LEMMA NextCents ==
    ASSUME NEW n \in Nat, NEW m \in Nat PROVE Cardinality((n + 1)..(n + m)) = m
  <1>1. \A a, b \in Int : Cardinality(a..b) = IF a > b THEN 0 ELSE b - a + 1
    BY FS_Interval
  <1>2. Cardinality((n + 1)..(n + m)) = IF n + 1 > n + m THEN 0 ELSE (n + m) - (n + 1) + 1
    <2>1. n + 1 \in Int /\ n + m \in Int
      OBVIOUS
    <2> QED
      BY <1>1, <2>1
  <1> QED
    BY <1>2

LEMMA FirstCents ==
    ASSUME NEW n \in Nat PROVE IsFiniteSet(1..n) /\ Cardinality(1..n) = n
  <1>1. \A a, b \in Int : /\ IsFiniteSet(a..b)
                          /\ Cardinality(a..b) = IF a > b THEN 0 ELSE b - a + 1
    BY FS_Interval
  <1>2. IsFiniteSet(1..n) /\ Cardinality(1..n) = IF 1 > n THEN 0 ELSE n - 1 + 1
    BY <1>1
  <1> QED
    BY <1>2

\* A thread's cents and a row's are finitely many.
LEMMA CentsOf ==
    ASSUME Shape, NEW own, NEW done, Allots(own, done)
    PROVE  /\ \A o \in Orders : givenBack[o] \in Nat /\ refunded[o] \in Nat
                                /\ IsFiniteSet(done[o])
           /\ \A v \in Workers : session[v].at = "settle" =>
                /\ session[v].order \in Orders /\ session[v].montant \in Nat
                /\ IsFiniteSet(own[v])
  <1>1. \A o \in Orders : givenBack[o] \in Nat /\ refunded[o] \in Nat
    BY DEF Shape, TypeOK
  <1>2. ASSUME NEW n \in Nat, NEW S, S \subseteq 1..n PROVE IsFiniteSet(S)
    <2>1. IsFiniteSet(1..n)
      BY FirstCents
    <2> QED
      BY <1>2, <2>1, FS_Subset
  <1>3. \A o \in Orders : IsFiniteSet(done[o])
    BY <1>1, <1>2 DEF Allots
  <1>4. ASSUME NEW v \in Workers, session[v].at = "settle"
        PROVE  /\ session[v].order \in Orders /\ session[v].montant \in Nat
               /\ IsFiniteSet(own[v])
    <2>1. session[v].order \in Orders /\ session[v].montant \in Int
      BY <1>4, Sessions DEF Refunds, Refunding
    <2>2. session[v].montant \in Nat
      BY <1>4, <2>1 DEF Shape, Sound
    <2>3. own[v] \subseteq 1..givenBack[session[v].order]
      BY <1>4 DEF Allots
    <2> QED
      BY <1>1, <1>2, <2>1, <2>2, <2>3
  <1> QED
    BY <1>1, <1>3, <1>4

\* The cents given back now are those that come after the cents given back before.
LEMMA AllottedAtCredit ==
    ASSUME Shape, Allotted, NEW w \in Workers, Credits(w)
    PROVE  Allotted'
  <1>1. PICK own \in [Workers -> SUBSET Nat], done \in [Orders -> SUBSET Nat] :
           Allots(own, done)
    BY DEF Allotted
  <1>2. PICK s \in Session :
           /\ Becomes(w, s) /\ session[w].at = "credit" /\ s.at = "settle"
           /\ s.order = session[w].order /\ s.montant = session[w].montant
           /\ givenBack' = [givenBack EXCEPT ![s.order] = @ + s.montant]
           /\ refunded' = refunded
    BY DEF Credits
  <1>3. s.order \in Orders /\ s.montant \in Nat
    <2>1. s.order \in Orders /\ s.montant \in Int
      BY <1>2, Sessions DEF Refunds, Refunding
    <2> QED
      BY <1>2, <2>1 DEF Shape, Sound
  <1> DEFINE G == givenBack[s.order]
             new == (G + 1)..(G + s.montant)
  <1>4. G \in Nat
    BY <1>1, <1>3, CentsOf
  <1>5. /\ new \subseteq Nat /\ new \subseteq 1..(G + s.montant)
        /\ \A S : S \subseteq 1..G => S \cap new = {} /\ new \cap S = {}
    BY <1>3, <1>4
  <1>6. Cardinality(new) = s.montant
    BY <1>3, <1>4, NextCents
  <1>7. /\ givenBack'[s.order] = G + s.montant
        /\ \A o \in Orders : givenBack[o] \in Nat /\ givenBack'[o] \in Nat
                             /\ givenBack[o] <= givenBack'[o]
    BY <1>2, <1>3, <1>4 DEF Shape, TypeOK
  <1>8. PICK own2 \in [Workers -> SUBSET Nat] : own2 = [own EXCEPT ![w] = new]
    BY <1>5
  <1>9. /\ session'[w] = s /\ own2[w] = new
        /\ \A v \in Workers \ {w} : session'[v] = session[v] /\ own2[v] = own[v]
    BY <1>2, <1>8 DEF Becomes, Shape, TypeOK
  <1> HIDE DEF G, new
  <1>10. ASSUME NEW o \in Orders
         PROVE  done[o] \subseteq 1..givenBack'[o] /\ Cardinality(done[o]) = refunded'[o]
    <2>1. done[o] \subseteq 1..givenBack[o] /\ Cardinality(done[o]) = refunded[o]
      BY <1>1 DEF Allots
    <2> QED
      BY <1>2, <1>7, <2>1
  <1>11. ASSUME NEW v \in Workers \ {w}, session'[v].at = "settle"
         PROVE  /\ own2[v] \subseteq 1..givenBack'[session'[v].order]
                /\ Cardinality(own2[v]) = session'[v].montant
                /\ own2[v] \cap done[session'[v].order] = {}
                /\ session'[v].order = s.order => own2[v] \cap new = {}
                /\ \A u \in Workers \ {v, w} :
                      session'[u].at = "settle" /\ session'[u].order = session'[v].order
                      => own2[u] \cap own2[v] = {}
    <2>1. session[v].at = "settle" /\ session[v].order \in Orders
      BY <1>1, <1>9, <1>11, CentsOf
    <2>2. /\ own[v] \subseteq 1..givenBack[session[v].order]
          /\ Cardinality(own[v]) = session[v].montant
          /\ own[v] \cap done[session[v].order] = {}
          /\ \A u \in Workers \ {v} :
                session[u].at = "settle" /\ session[u].order = session[v].order
                => own[u] \cap own[v] = {}
      BY <1>1, <2>1 DEF Allots
    <2>3. own[v] \subseteq 1..givenBack'[session[v].order]
      BY <1>7, <2>1, <2>2
    <2>4. session[v].order = s.order => own[v] \cap new = {}
      BY <1>5, <2>2 DEF G
    <2> QED
      BY <1>9, <2>2, <2>3, <2>4
  <1>12. own2[w] \cap done[s.order] = {} /\ own2[w] \subseteq 1..givenBack'[s.order]
    BY <1>1, <1>3, <1>5, <1>7, <1>9 DEF Allots, G
  <1>13. Allots(own2, done)'
    BY <1>2, <1>6, <1>9, <1>10, <1>11, <1>12 DEF Allots
  <1> QED
    BY <1>13 DEF Allotted

\* The cents of the thread become the row's.
LEMMA AllottedAtSettle ==
    ASSUME Shape, Allotted, NEW w \in Workers, Settles(w)
    PROVE  Allotted'
  <1>1. PICK own \in [Workers -> SUBSET Nat], done \in [Orders -> SUBSET Nat] :
           Allots(own, done)
    BY DEF Allotted
  <1> DEFINE s == session[w]
  <1>2. /\ s.at = "settle" /\ Becomes(w, Idle) /\ givenBack' = givenBack
        /\ refunded' = [refunded EXCEPT ![s.order] = @ + s.montant]
    BY DEF Settles
  <1>3. /\ s.order \in Orders /\ s.montant \in Nat /\ refunded[s.order] \in Nat
        /\ IsFiniteSet(own[w]) /\ IsFiniteSet(done[s.order])
    BY <1>1, <1>2, CentsOf
  <1>4. /\ own[w] \subseteq 1..givenBack[s.order] /\ Cardinality(own[w]) = s.montant
        /\ own[w] \cap done[s.order] = {} /\ done[s.order] \cap own[w] = {}
        /\ done[s.order] \subseteq 1..givenBack[s.order]
        /\ Cardinality(done[s.order]) = refunded[s.order]
    BY <1>1, <1>2, <1>3 DEF Allots
  <1>5. Cardinality(done[s.order] \cup own[w]) = refunded[s.order] + s.montant
    <2>1. Cardinality(done[s.order] \cup own[w])
            = Cardinality(done[s.order]) + Cardinality(own[w]) - Cardinality({})
      BY <1>3, <1>4, FS_Union
    <2> QED
      BY <1>3, <1>4, <2>1, FS_EmptySet
  <1>6. PICK done2 \in [Orders -> SUBSET Nat] :
           /\ done2[s.order] = done[s.order] \cup own[w]
           /\ \A o \in Orders \ {s.order} : done2[o] = done[o]
    <2> DEFINE d == [done EXCEPT ![s.order] = done[s.order] \cup own[w]]
    <2>1. d \in [Orders -> SUBSET Nat]
      BY <1>3
    <2>2. d[s.order] = done[s.order] \cup own[w] /\ \A o \in Orders \ {s.order} : d[o] = done[o]
      BY <1>3
    <2> HIDE DEF d
    <2> QED
      BY <2>1, <2>2
  <1>7. session'[w] = Idle /\ \A v \in Workers \ {w} : session'[v] = session[v]
    BY <1>2 DEF Becomes, Shape, TypeOK
  <1>8. refunded'[s.order] = refunded[s.order] + s.montant
        /\ \A o \in Orders \ {s.order} : refunded'[o] = refunded[o]
    BY <1>2, <1>3 DEF Shape, TypeOK
  <1> HIDE DEF s
  <1>9. ASSUME NEW o \in Orders
        PROVE  done2[o] \subseteq 1..givenBack[o] /\ Cardinality(done2[o]) = refunded'[o]
    <2>1. CASE o = s.order
      BY <1>4, <1>5, <1>6, <1>8, <2>1
    <2>2. CASE o # s.order
      BY <1>1, <1>6, <1>8, <2>2 DEF Allots
    <2> QED
      BY <2>1, <2>2
  <1>10. ASSUME NEW v \in Workers, session'[v].at = "settle"
         PROVE  /\ v # w /\ session'[v] = session[v]
                /\ own[v] \cap done2[session[v].order] = {}
    <2>1. v # w
      BY <1>7, <1>10, SoundIdle
    <2>2. session'[v] = session[v] /\ session[v].at = "settle" /\ session[v].order \in Orders
      BY <1>1, <1>7, <1>10, <2>1, CentsOf
    <2>3. own[v] \cap done[session[v].order] = {}
      BY <1>1, <2>2 DEF Allots
    <2>4. session[v].order = s.order => own[v] \cap own[w] = {}
      BY <1>1, <1>2, <2>1, <2>2 DEF Allots, s
    <2> QED
      BY <1>6, <2>1, <2>2, <2>3, <2>4
  <1>11. Allots(own, done2)'
    BY <1>1, <1>2, <1>9, <1>10 DEF Allots
  <1> QED
    BY <1>11 DEF Allotted

RecordInv == Shape /\ Backed /\ Allotted

LEMMA RecordKept == ASSUME RecordInv, [Next]_vars PROVE RecordInv'
  <1>0. Shape /\ Backed /\ Allotted /\ Shape'
    BY ShapeKept DEF RecordInv
  <1>1. CASE Quiet /\ session' = session
    <2>1. Backed'
      BY <1>0, <1>1 DEF Backed, Quiet
    <2>2. Allotted'
      BY <1>0, <1>1 DEF Allotted, Allots, Quiet
    <2> QED
      BY <1>0, <2>1, <2>2 DEF RecordInv
  <1>2. ASSUME NEW w \in Workers, Does(w) PROVE RecordInv'
    <2>1. Backed'
      BY <1>0, <1>2, BackedStep
    <2>2. Allotted'
      <3>1. CASE Credits(w) \/ Settles(w)
        BY <1>0, <3>1, AllottedAtCredit, AllottedAtSettle
      <3>2. CASE session' = session /\ Quiet
        BY <1>0, <3>2 DEF Allotted, Allots, Quiet
      <3>3. CASE Starts(w) \/ Charges(w) \/ Lands(w) \/ Weighs(w) \/ Drops(w)
        <4>1. PICK s \in Session : /\ Becomes(w, s) /\ s.at # "settle"
                                   /\ givenBack' = givenBack /\ refunded' = refunded
          BY <3>3, SoundIdle DEF Starts, Charges, Lands, Weighs, Drops, Quiet
        <4> QED
          BY <1>0, <4>1, AllottedBy
      <3> QED
        BY <1>2, <3>1, <3>2, <3>3 DEF Does
    <2> QED
      BY <1>0, <2>1, <2>2 DEF RecordInv
  <1> QED
    BY <1>0, <1>1, <1>2, Effects

LEMMA RecordAtFirst == Init => RecordInv
  <1> SUFFICES ASSUME Init PROVE RecordInv
    OBVIOUS
  <1>1. /\ \A o \in Orders : statut[o] = "NONE" /\ refunded[o] = 0 /\ givenBack[o] = 0
        /\ \A w \in Workers : session[w].at = "idle"
    BY DEF Init, Idle
  <1>2. Backed
    BY <1>1 DEF Backed, Refunding, P!Refundable
  <1>3. Allotted
    <2> DEFINE own == [w \in Workers |-> {}]
               done == [o \in Orders |-> {}]
    <2>1. own \in [Workers -> SUBSET Nat] /\ done \in [Orders -> SUBSET Nat]
      OBVIOUS
    <2>2. Allots(own, done)
      BY <1>1, FS_EmptySet DEF Allots
    <2> HIDE DEF own, done
    <2> QED
      BY <2>1, <2>2 DEF Allotted
  <1> QED
    BY <1>2, <1>3, ShapeAtFirst DEF RecordInv

\* What the rows say was taken, or given back, the PSP took, or gave back, whatever the
\* requests that overlap, repeat and fail: its call precedes the commit (service.debit, refund).
THEOREM RecordSafety == Spec => []RecordedIsDone
  <1>1. RecordInv => RecordedIsDone
    <2> SUFFICES ASSUME RecordInv, NEW o \in Orders
                 PROVE  /\ statut[o] \in P!Refundable => charged[o] >= montant[o]
                        /\ givenBack[o] >= refunded[o]
      BY DEF RecordedIsDone
    <2>1. PICK own \in [Workers -> SUBSET Nat], done \in [Orders -> SUBSET Nat] :
             Allots(own, done)
      BY DEF RecordInv, Allotted
    <2>2. /\ done[o] \subseteq 1..givenBack[o] /\ Cardinality(done[o]) = refunded[o]
          /\ givenBack[o] \in Nat
      BY <2>1 DEF Allots, RecordInv, Shape, TypeOK
    <2>3. IsFiniteSet(1..givenBack[o]) /\ Cardinality(1..givenBack[o]) = givenBack[o]
      BY <2>2, FirstCents
    <2>4. Cardinality(done[o]) <= Cardinality(1..givenBack[o])
      BY <2>2, <2>3, FS_Subset
    <2>5. givenBack[o] >= refunded[o]
      BY <2>2, <2>3, <2>4
    <2> QED
      BY <2>5 DEF RecordInv, Backed
  <1> QED
    BY <1>1, RecordAtFirst, RecordKept, PTL DEF Spec

-----------------------------------------------------------------------------
(* What the PSP gave back and no row tells.                                 *)

\* What the rows tell of the refunds of an order, and what failed requests may hide.
Allowed(o) == refunded[o] + failures * montant[o]

\* An order without a row has no amount, and a refund exceeds no transaction.
Capped ==
    /\ \A o \in Orders : statut[o] = "NONE" => montant[o] = 0
    /\ \A w \in Workers : LET s == session[w] IN
          s.at \in {"credit", "settle"} => s.montant <= montant[s.order]

\* Every cent that the PSP gave back for an order is told or lost, in known[o], or a
\* thread has yet to commit it, in own[w].
Covers(own, known) ==
    /\ \A o \in Orders :
          /\ IsFiniteSet(known[o]) /\ Cardinality(known[o]) <= Allowed(o)
          /\ \A c \in 1..givenBack[o] :
                \/ c \in known[o]
                \/ \E w \in Workers : /\ session[w].at = "settle" /\ session[w].order = o
                                      /\ c \in own[w]
    /\ \A w \in Workers : session[w].at = "settle" =>
          IsFiniteSet(own[w]) /\ Cardinality(own[w]) <= session[w].montant

Covered ==
    \E own \in [Workers -> SUBSET Nat], known \in [Orders -> SUBSET Nat] : Covers(own, known)

ToldInv == Shape /\ Capped /\ Covered

\* Nothing that is told or lost is recovered, nor an amount lowered.
Grows ==
    /\ \A o \in Orders : montant[o] <= montant'[o] /\ refunded[o] <= refunded'[o]
    /\ failures <= failures'

LEMMA Products ==
    ASSUME NEW f \in Nat, NEW g \in Nat, f <= g, NEW m \in Nat, NEW n \in Nat, m <= n
    PROVE  f * m \in Nat /\ f * m <= g * n
  <1>1. f * m \in Nat /\ f * (n - m) \in Nat /\ (g - f) * n \in Nat
    OBVIOUS
  <1>2. f * n = f * m + f * (n - m) /\ g * n = f * n + (g - f) * n
    OBVIOUS
  <1> QED
    BY <1>1, <1>2

LEMMA OneMore ==
    ASSUME NEW f \in Nat, NEW m \in Nat PROVE (f + 1) * m = f * m + m
  OBVIOUS

LEMMA Grown == ASSUME Shape, Capped, Shape', [Next]_vars PROVE Grows
  <1>0. /\ statut \in [Orders -> P!TxStatus] /\ montant \in [Orders -> Nat]
        /\ montant' \in [Orders -> Nat]
        /\ refunded \in [Orders -> Nat] /\ refunded' \in [Orders -> Nat] /\ failures \in Nat
    BY MaxFailuresAssumption DEF Shape, TypeOK
  <1>1. failures <= failures'
    <2>1. CASE UNCHANGED vars
      BY <1>0, <2>1 DEF vars
    <2>2. ASSUME NEW w \in Workers, Requests(w) PROVE failures' = failures
      BY <2>2 DEF Requests, Debit, VoidOrder, Refund
    <2>3. ASSUME NEW w \in Workers, Charge(w) \/ Insert(w) \/ Balance(w) \/ Credit(w) \/ Settle(w)
          PROVE  failures' = failures
      BY <2>3 DEF Charge, Insert, Balance, Credit, Settle
    <2>4. ASSUME NEW w \in Workers, Fails(w) PROVE failures' = failures + 1
      BY <2>4 DEF Fails
    <2> QED
      BY <1>0, <2>1, <2>2, <2>3, <2>4 DEF Next
  <1>2. ASSUME NEW w \in Workers, Does(w)
        PROVE  \A o \in Orders : montant[o] <= montant'[o] /\ refunded[o] <= refunded'[o]
    <2>1. CASE Lands(w)
      <3>1. session[w].order \in Orders /\ statut[session[w].order] = "NONE"
        BY <2>1, Sessions DEF Lands, Inserts
      <3> QED
        BY <1>0, <2>1, <3>1 DEF Lands, Capped
    <2>2. CASE Settles(w)
      <3>1. session[w].order \in Orders /\ session[w].montant \in Int
            /\ session[w].at = "settle"
        BY <2>2, Sessions DEF Settles, Refunds, Refunding
      <3>2. 0 < session[w].montant
        BY <3>1 DEF Shape, Sound
      <3> QED
        BY <1>0, <2>2, <3>1, <3>2 DEF Settles
    <2>3. CASE Starts(w) \/ Charges(w) \/ Weighs(w) \/ Credits(w) \/ Drops(w) \/ Quiet
      BY <1>0, <2>3 DEF Starts, Charges, Weighs, Credits, Drops, Quiet
    <2> QED
      BY <1>2, <2>1, <2>2, <2>3 DEF Does
  <1>3. CASE Quiet
    BY <1>0, <1>1, <1>3 DEF Quiet, Grows
  <1> QED
    BY <1>1, <1>2, <1>3, Effects DEF Grows

\* What was allowed still is.
LEMMA AllowedGrows ==
    ASSUME Shape, Shape', Grows, NEW o \in Orders
    PROVE  Allowed(o) \in Nat /\ Allowed(o)' \in Nat /\ Allowed(o) <= Allowed(o)'
  <1>1. /\ montant[o] \in Nat /\ montant'[o] \in Nat /\ montant[o] <= montant'[o]
        /\ refunded[o] \in Nat /\ refunded'[o] \in Nat /\ refunded[o] <= refunded'[o]
        /\ failures \in Nat /\ failures' \in Nat /\ failures <= failures'
    BY MaxFailuresAssumption DEF Shape, TypeOK, Grows
  <1>2. failures * montant[o] \in Nat /\ failures * montant[o] <= failures' * montant'[o]
    BY <1>1, Products
  <1>3. failures' * montant'[o] \in Nat
    BY <1>1, Products
  <1> QED
    BY <1>1, <1>2, <1>3 DEF Allowed

LEMMA CappedStep ==
    ASSUME Shape, Shape', Capped, Grows, NEW w \in Workers, Does(w)
    PROVE  Capped'
  <1>0. /\ statut \in [Orders -> P!TxStatus] /\ montant \in [Orders -> Nat]
        /\ refunded \in [Orders -> Nat]
        /\ \A o \in Orders : statut[o] = "NONE" => montant[o] = 0
    BY DEF Shape, TypeOK, Capped
  <1>1. \A o \in Orders : statut'[o] = "NONE" => montant'[o] = 0
    <2>1. CASE Lands(w)
      <3>1. session[w].order \in Orders /\ session[w].statut # "NONE"
        BY <2>1, Sessions DEF Lands, Inserts, Shape, Sound
      <3> QED
        BY <1>0, <2>1, <3>1 DEF Lands
    <2>2. CASE Settles(w)
      <3>1. session[w].order \in Orders /\ NewStatut(session[w]) # "NONE"
        BY <2>2, Sessions DEF Settles, Refunds, Refunding, NewStatut
      <3> QED
        BY <1>0, <2>2, <3>1 DEF Settles
    <2>3. CASE Starts(w) \/ Charges(w) \/ Weighs(w) \/ Credits(w) \/ Drops(w) \/ Quiet
      BY <1>0, <2>3 DEF Starts, Charges, Weighs, Credits, Drops, Quiet
    <2> QED
      BY <2>1, <2>2, <2>3 DEF Does
  <1>2. PICK s : /\ session'[w] = s /\ \A v \in Workers \ {w} : session'[v] = session[v]
                 /\ s.at \in {"credit", "settle"} =>
                       s.order \in Orders /\ s.montant \in Int /\ s.montant <= montant[s.order]
    <2>0. session \in [Workers -> Session]
      BY DEF Shape, TypeOK, Session
    <2>1. CASE Starts(w) \/ Charges(w) \/ Lands(w) \/ Settles(w) \/ Drops(w)
      <3>1. PICK s \in Session : Becomes(w, s) /\ s.at \notin {"credit", "settle"}
        BY <2>1, SoundIdle DEF Starts, Charges, Lands, Settles, Drops
      <3> QED
        BY <2>0, <3>1 DEF Becomes
    <2>2. CASE Weighs(w)
      <3>1. PICK s \in Session :
               /\ Becomes(w, s) /\ s.at = "credit" /\ s.solde = Restant(s.order)
               /\ s.montant <= s.solde
        BY <2>2 DEF Weighs
      <3>2. s.order \in Orders /\ s.montant \in Int
        BY <3>1, SessionShape DEF Refunding, Refunds
      <3>3. s.montant <= montant[s.order]
        BY <1>0, <3>1, <3>2 DEF Restant
      <3> QED
        BY <2>0, <3>1, <3>2, <3>3 DEF Becomes
    <2>3. CASE Credits(w)
      <3>1. PICK s \in Session :
               /\ Becomes(w, s) /\ session[w].at = "credit" /\ s.at = "settle"
               /\ s.order = session[w].order /\ s.montant = session[w].montant
        BY <2>3 DEF Credits
      <3>2. s.order \in Orders /\ s.montant \in Int /\ s.montant <= montant[s.order]
        BY <3>1, Sessions DEF Refunding, Refunds, Capped
      <3> QED
        BY <2>0, <3>1, <3>2 DEF Becomes
    <2>4. CASE session' = session
      <3>1. session[w].at \in {"credit", "settle"} =>
               /\ session[w].order \in Orders /\ session[w].montant \in Int
               /\ session[w].montant <= montant[session[w].order]
        BY Sessions DEF Refunding, Refunds, Capped
      <3> QED
        BY <2>4, <3>1
    <2> QED
      BY <2>1, <2>2, <2>3, <2>4 DEF Does
  <1>3. ASSUME NEW v \in Workers, session'[v].at \in {"credit", "settle"}
        PROVE  session'[v].montant <= montant'[session'[v].order]
    <2>1. /\ session'[v].order \in Orders /\ session'[v].montant \in Int
          /\ session'[v].montant <= montant[session'[v].order]
      <3>1. CASE v = w
        BY <1>2, <1>3, <3>1
      <3>2. CASE v # w
        <4>1. session'[v] = session[v]
          BY <1>2, <3>2
        <4> QED
          BY <1>3, <4>1, Sessions DEF Refunding, Refunds, Capped
      <3> QED
        BY <3>1, <3>2
    <2>2. montant[session'[v].order] \in Nat /\ montant'[session'[v].order] \in Int
      BY <1>0, <2>1 DEF Shape, TypeOK
    <2> QED
      BY <2>1, <2>2 DEF Grows
  <1> QED
    BY <1>1, <1>3 DEF Capped

\* A step that commits no refund, drops none the PSP made and makes none.
LEMMA CoveredBy ==
    ASSUME Shape, Shape', Covered, Grows, givenBack' = givenBack,
           \A v \in Workers : session[v].at = "settle" => session'[v] = session[v],
           \A v \in Workers : session'[v].at = "settle" => session'[v] = session[v]
    PROVE  Covered'
  <1>1. PICK own \in [Workers -> SUBSET Nat], known \in [Orders -> SUBSET Nat] :
           Covers(own, known)
    BY DEF Covered
  <1>2. ASSUME NEW o \in Orders
        PROVE  IsFiniteSet(known[o]) /\ Cardinality(known[o]) <= Allowed(o)'
    <2>1. IsFiniteSet(known[o]) /\ Cardinality(known[o]) <= Allowed(o)
      BY <1>1 DEF Covers
    <2>2. Cardinality(known[o]) \in Nat
      BY <2>1, FS_CardinalityType
    <2> QED
      BY <2>1, <2>2, AllowedGrows
  <1>3. ASSUME NEW o \in Orders, NEW c \in 1..givenBack'[o]
        PROVE  \/ c \in known[o]
               \/ \E w \in Workers : /\ session'[w].at = "settle" /\ session'[w].order = o
                                     /\ c \in own[w]
    <2>1. \/ c \in known[o]
          \/ \E w \in Workers : /\ session[w].at = "settle" /\ session[w].order = o
                                /\ c \in own[w]
      BY <1>1 DEF Covers
    <2> QED
      BY <2>1
  <1>4. \A w \in Workers : session'[w].at = "settle" =>
           IsFiniteSet(own[w]) /\ Cardinality(own[w]) <= session'[w].montant
    BY <1>1 DEF Covers
  <1>5. Covers(own, known)'
    BY <1>2, <1>3, <1>4 DEF Covers
  <1> QED
    BY <1>5 DEF Covered

LEMMA CoveredAtCredit ==
    ASSUME Shape, Shape', Covered, Grows, NEW w \in Workers, Credits(w)
    PROVE  Covered'
  <1>1. PICK own \in [Workers -> SUBSET Nat], known \in [Orders -> SUBSET Nat] :
           Covers(own, known)
    BY DEF Covered
  <1>2. PICK s \in Session :
           /\ Becomes(w, s) /\ session[w].at = "credit" /\ s.at = "settle"
           /\ s.order = session[w].order /\ s.montant = session[w].montant
           /\ givenBack' = [givenBack EXCEPT ![s.order] = @ + s.montant]
    BY DEF Credits
  <1>3. s.order \in Orders /\ s.montant \in Nat /\ givenBack \in [Orders -> Nat]
    <2>1. s.order \in Orders /\ s.montant \in Int
      BY <1>2, Sessions DEF Refunds, Refunding
    <2> QED
      BY <1>2, <2>1 DEF Shape, Sound, TypeOK
  <1> DEFINE G == givenBack[s.order]
             new == (G + 1)..(G + s.montant)
  <1>4. new \subseteq Nat /\ IsFiniteSet(new) /\ Cardinality(new) = s.montant
    <2>1. G + s.montant \in Nat /\ new \subseteq 1..(G + s.montant)
      BY <1>3
    <2>2. IsFiniteSet(1..(G + s.montant))
      BY <2>1, FirstCents
    <2>3. IsFiniteSet(new)
      BY <2>1, <2>2, FS_Subset
    <2> QED
      BY <1>3, <2>1, <2>3, NextCents
  <1>5. PICK own2 \in [Workers -> SUBSET Nat] : own2 = [own EXCEPT ![w] = new]
    BY <1>4
  <1>6. /\ session'[w] = s /\ own2[w] = new
        /\ \A v \in Workers \ {w} : session'[v] = session[v] /\ own2[v] = own[v]
    BY <1>2, <1>5 DEF Becomes, Shape, TypeOK
  <1>7. \A o \in Orders : \A c \in 1..givenBack'[o] :
           c \in 1..givenBack[o] \/ (o = s.order /\ c \in new)
    BY <1>2, <1>3
  <1> HIDE DEF G, new
  <1>8. ASSUME NEW o \in Orders
        PROVE  IsFiniteSet(known[o]) /\ Cardinality(known[o]) <= Allowed(o)'
    <2>1. IsFiniteSet(known[o]) /\ Cardinality(known[o]) <= Allowed(o)
      BY <1>1 DEF Covers
    <2>2. Cardinality(known[o]) \in Nat
      BY <2>1, FS_CardinalityType
    <2> QED
      BY <2>1, <2>2, AllowedGrows
  <1>9. ASSUME NEW o \in Orders, NEW c \in 1..givenBack'[o]
        PROVE  \/ c \in known[o]
               \/ \E v \in Workers : /\ session'[v].at = "settle" /\ session'[v].order = o
                                     /\ c \in own2[v]
    <2>1. CASE o = s.order /\ c \in new
      BY <1>2, <1>6, <2>1
    <2>2. CASE c \in 1..givenBack[o]
      <3>1. \/ c \in known[o]
            \/ \E v \in Workers : /\ session[v].at = "settle" /\ session[v].order = o
                                  /\ c \in own[v]
        BY <1>1, <2>2 DEF Covers
      <3>2. ASSUME NEW v \in Workers, session[v].at = "settle"
            PROVE  session'[v] = session[v] /\ own2[v] = own[v]
        BY <1>2, <1>6, <3>2
      <3> QED
        BY <3>1, <3>2
    <2> QED
      BY <1>7, <2>1, <2>2
  <1>10. ASSUME NEW v \in Workers, session'[v].at = "settle"
         PROVE  IsFiniteSet(own2[v]) /\ Cardinality(own2[v]) <= session'[v].montant
    <2>1. CASE v = w
      BY <1>3, <1>4, <1>6, <2>1
    <2>2. CASE v # w
      BY <1>1, <1>6, <1>10, <2>2 DEF Covers
    <2> QED
      BY <2>1, <2>2
  <1>11. Covers(own2, known)'
    BY <1>8, <1>9, <1>10 DEF Covers
  <1> QED
    BY <1>11 DEF Covered

\* The refund is committed or lost: the row, or the failure, accounts for its cents.
LEMMA CoveredAtEnd ==
    ASSUME Shape, Shape', Covered, Grows, NEW w \in Workers, session[w].at = "settle",
           Becomes(w, Idle), givenBack' = givenBack,
           NEW o \in Orders, o = session[w].order, NEW m \in Nat, m = session[w].montant,
           Allowed(o)' >= Allowed(o) + m
    PROVE  Covered'
  <1>1. PICK own \in [Workers -> SUBSET Nat], known \in [Orders -> SUBSET Nat] :
           Covers(own, known)
    BY DEF Covered
  <1>2. PICK known2 \in [Orders -> SUBSET Nat] :
           known2[o] = known[o] \cup own[w] /\ \A p \in Orders \ {o} : known2[p] = known[p]
    <2> DEFINE k == [known EXCEPT ![o] = known[o] \cup own[w]]
    <2>1. k \in [Orders -> SUBSET Nat]
      OBVIOUS
    <2>2. k[o] = known[o] \cup own[w] /\ \A p \in Orders \ {o} : k[p] = known[p]
      OBVIOUS
    <2> HIDE DEF k
    <2> QED
      BY <2>1, <2>2
  <1>3. session'[w] = Idle /\ \A v \in Workers \ {w} : session'[v] = session[v]
    BY DEF Becomes, Shape, TypeOK
  <1>4. IsFiniteSet(known2[o]) /\ Cardinality(known2[o]) <= Allowed(o)'
    <2>1. /\ IsFiniteSet(known[o]) /\ Cardinality(known[o]) <= Allowed(o)
          /\ IsFiniteSet(own[w]) /\ Cardinality(own[w]) <= m
      BY <1>1 DEF Covers
    <2>2. /\ Cardinality(known[o]) \in Nat /\ Cardinality(own[w]) \in Nat
          /\ IsFiniteSet(known[o] \cup own[w])
          /\ Cardinality(known[o] \cup own[w]) \in Nat
      BY <2>1, FS_CardinalityType, FS_Union
    <2>3. Cardinality(known[o] \cup own[w]) <= Cardinality(known[o]) + Cardinality(own[w])
      <3>1. Cardinality(known[o] \cup own[w])
              = Cardinality(known[o]) + Cardinality(own[w]) - Cardinality(known[o] \cap own[w])
        BY <2>1, FS_Union
      <3>2. IsFiniteSet(known[o] \cap own[w])
        <4>1. known[o] \cap own[w] \subseteq known[o]
          OBVIOUS
        <4> QED
          BY <2>1, <4>1, FS_Subset
      <3>3. Cardinality(known[o] \cap own[w]) \in Nat
        BY <3>2, FS_CardinalityType
      <3> QED
        BY <2>2, <3>1, <3>3
    <2>4. Allowed(o) \in Nat /\ Allowed(o)' \in Nat /\ Allowed(o)' >= Allowed(o) + m
      BY AllowedGrows
    <2> QED
      BY <1>2, <2>1, <2>2, <2>3, <2>4
  <1>5. ASSUME NEW p \in Orders
        PROVE  IsFiniteSet(known2[p]) /\ Cardinality(known2[p]) <= Allowed(p)'
    <2>1. CASE p = o
      BY <1>4, <2>1
    <2>2. CASE p # o
      <3>1. IsFiniteSet(known[p]) /\ Cardinality(known[p]) <= Allowed(p)
        BY <1>1 DEF Covers
      <3>2. Cardinality(known[p]) \in Nat
        BY <3>1, FS_CardinalityType
      <3> QED
        BY <1>2, <2>2, <3>1, <3>2, AllowedGrows
    <2> QED
      BY <2>1, <2>2
  <1>6. ASSUME NEW p \in Orders, NEW c \in 1..givenBack'[p]
        PROVE  \/ c \in known2[p]
               \/ \E v \in Workers : /\ session'[v].at = "settle" /\ session'[v].order = p
                                     /\ c \in own[v]
    <2>1. \/ c \in known[p]
          \/ \E v \in Workers : /\ session[v].at = "settle" /\ session[v].order = p
                                /\ c \in own[v]
      BY <1>1 DEF Covers
    <2>2. CASE c \in known[p]
      BY <1>2, <2>2
    <2>3. ASSUME NEW v \in Workers, session[v].at = "settle", session[v].order = p, c \in own[v]
          PROVE  \/ c \in known2[p]
                 \/ session'[v].at = "settle" /\ session'[v].order = p
      <3>1. CASE v = w
        BY <1>2, <2>3, <3>1
      <3>2. CASE v # w
        BY <1>3, <2>3, <3>2
      <3> QED
        BY <3>1, <3>2
    <2> QED
      BY <2>1, <2>2, <2>3
  <1>7. ASSUME NEW v \in Workers, session'[v].at = "settle"
        PROVE  IsFiniteSet(own[v]) /\ Cardinality(own[v]) <= session'[v].montant
    <2>1. v # w /\ session'[v] = session[v]
      BY <1>3, <1>7, SoundIdle
    <2> QED
      BY <1>1, <1>7, <2>1 DEF Covers
  <1>8. Covers(own, known2)'
    BY <1>5, <1>6, <1>7 DEF Covers
  <1> QED
    BY <1>8 DEF Covered

LEMMA CoveredStep ==
    ASSUME ToldInv, Shape', Grows, NEW w \in Workers, Does(w)
    PROVE  Covered'
  <1>0. Shape /\ Capped /\ Covered /\ session \in [Workers -> Session]
    BY DEF ToldInv, Shape, TypeOK, Session
  <1>1. ASSUME session[w].at = "settle"
        PROVE  /\ session[w].order \in Orders /\ session[w].montant \in Nat
               /\ session[w].montant <= montant[session[w].order]
               /\ montant[session[w].order] \in Nat /\ refunded[session[w].order] \in Nat
               /\ failures \in Nat
    <2>1. session[w].order \in Orders /\ session[w].montant \in Int
      BY <1>0, <1>1, Sessions DEF Refunds, Refunding
    <2> QED
      BY <1>0, <1>1, <2>1, MaxFailuresAssumption DEF Shape, Sound, Capped, TypeOK
  <1>2. CASE Credits(w)
    BY <1>0, <1>2, CoveredAtCredit
  <1>3. CASE Settles(w)
    <2>1. /\ session[w].at = "settle" /\ Becomes(w, Idle) /\ givenBack' = givenBack
          /\ montant' = montant
          /\ refunded' = [refunded EXCEPT ![session[w].order] = @ + session[w].montant]
      BY <1>3 DEF Settles
    <2>2. PICK o \in Orders, m \in Nat : o = session[w].order /\ m = session[w].montant
      BY <1>1, <2>1
    <2>3. refunded'[o] = refunded[o] + m
      BY <1>0, <2>1, <2>2 DEF Shape, TypeOK
    <2>4. failures * montant[o] \in Nat /\ failures' = failures
      BY <1>1, <1>3, <2>1, <2>2, Products DEF Settles
    <2>5. Allowed(o)' >= Allowed(o) + m
      BY <1>1, <2>1, <2>2, <2>3, <2>4 DEF Allowed
    <2> QED
      BY <1>0, <2>1, <2>2, <2>5, CoveredAtEnd
  <1>4. CASE Drops(w) /\ session[w].at = "settle"
    <2>1. Becomes(w, Idle) /\ Quiet /\ failures' = failures + 1
      BY <1>4 DEF Drops
    <2>2. PICK o \in Orders, m \in Nat, n \in Nat, f \in Nat :
             /\ o = session[w].order /\ m = session[w].montant /\ m <= n
             /\ n = montant[o] /\ f = failures
      BY <1>1, <1>4
    <2>3. Allowed(o) = refunded[o] + f * n /\ Allowed(o)' = refunded[o] + (f + 1) * n
      BY <2>1, <2>2 DEF Allowed, Quiet
    <2>4. (f + 1) * n = f * n + n /\ f * n \in Nat
      BY OneMore, Products
    <2>5. Allowed(o)' >= Allowed(o) + m
      BY <1>1, <1>4, <2>2, <2>3, <2>4
    <2> QED
      BY <1>0, <1>4, <2>1, <2>2, <2>5, CoveredAtEnd DEF Quiet
  <1>5. CASE Starts(w) \/ Charges(w) \/ Lands(w) \/ Weighs(w)
             \/ (Drops(w) /\ session[w].at # "settle")
    <2>1. PICK s \in Session : Becomes(w, s) /\ s.at # "settle" /\ givenBack' = givenBack
      BY <1>5, SoundIdle DEF Starts, Charges, Lands, Weighs, Drops, Quiet
    <2>2. session[w].at # "settle"
      BY <1>5, SoundIdle DEF Starts, Charges, Lands, Weighs
    <2>3. session'[w] = s /\ \A v \in Workers \ {w} : session'[v] = session[v]
      BY <1>0, <2>1 DEF Becomes
    <2> QED
      BY <1>0, <2>1, <2>2, <2>3, CoveredBy
  <1>6. CASE session' = session /\ Quiet
    BY <1>0, <1>6, CoveredBy DEF Quiet
  <1> QED
    BY <1>2, <1>3, <1>4, <1>5, <1>6 DEF Does

LEMMA ToldKept == ASSUME ToldInv, [Next]_vars PROVE ToldInv'
  <1>0. Shape /\ Capped /\ Covered /\ Shape' /\ Grows
    BY ShapeKept, Grown DEF ToldInv
  <1>1. CASE Quiet /\ session' = session
    <2>1. Capped'
      BY <1>0, <1>1 DEF Capped, Quiet
    <2>2. Covered'
      BY <1>0, <1>1, CoveredBy DEF Quiet
    <2> QED
      BY <1>0, <2>1, <2>2 DEF ToldInv
  <1>2. ASSUME NEW w \in Workers, Does(w) PROVE ToldInv'
    BY <1>0, <1>2, CappedStep, CoveredStep DEF ToldInv
  <1> QED
    BY <1>0, <1>1, <1>2, Effects

LEMMA ToldAtFirst == Init => ToldInv
  <1> SUFFICES ASSUME Init PROVE ToldInv
    OBVIOUS
  <1>1. /\ \A o \in Orders : montant[o] = 0 /\ refunded[o] = 0 /\ givenBack[o] = 0
        /\ \A w \in Workers : session[w].at = "idle"
        /\ failures = 0
    BY DEF Init, Idle
  <1>2. Capped
    BY <1>1 DEF Capped
  <1>3. Covered
    <2> DEFINE own == [w \in Workers |-> {}]
               known == [o \in Orders |-> {}]
    <2>1. own \in [Workers -> SUBSET Nat] /\ known \in [Orders -> SUBSET Nat]
      OBVIOUS
    <2>2. Covers(own, known)
      BY <1>1, FS_EmptySet DEF Covers, Allowed
    <2> HIDE DEF own, known
    <2> QED
      BY <2>1, <2>2 DEF Covered
  <1> QED
    BY <1>2, <1>3, ShapeAtFirst DEF ToldInv

\* However requests overlap, repeat and fail, and whatever they ask, the PSP gave back
\* beyond the rows no more than what the requests that failed explain: the amount of the
\* transaction for each, and nothing when none failed (service.refund).
THEOREM ToldSafety == Spec => []RefundsAreTold
  <1>1. ToldInv => RefundsAreTold
    <2> SUFFICES ASSUME ToldInv, NEW o \in Orders, ~InUse(o)
                 PROVE  givenBack[o] - refunded[o] <= failures * montant[o]
      BY DEF RefundsAreTold
    <2>1. PICK own \in [Workers -> SUBSET Nat], known \in [Orders -> SUBSET Nat] :
             Covers(own, known)
      BY DEF ToldInv, Covered
    <2>2. \A w \in Workers : session[w].at = "settle" => session[w].order # o
      BY SoundIdle DEF InUse
    <2>3. 1..givenBack[o] \subseteq known[o]
      BY <2>1, <2>2 DEF Covers
    <2>4. IsFiniteSet(known[o]) /\ Cardinality(known[o]) <= Allowed(o)
      BY <2>1 DEF Covers
    <2>5. /\ givenBack[o] \in Nat /\ refunded[o] \in Nat /\ montant[o] \in Nat
          /\ failures \in Nat
      BY MaxFailuresAssumption DEF ToldInv, Shape, TypeOK
    <2>6. Cardinality(1..givenBack[o]) = givenBack[o]
      BY <2>5, FirstCents
    <2>7. Cardinality(1..givenBack[o]) <= Cardinality(known[o]) /\ Cardinality(known[o]) \in Nat
      BY <2>3, <2>4, FS_Subset, FS_CardinalityType
    <2>8. failures * montant[o] \in Nat
      BY <2>5, Products
    <2> QED
      BY <2>4, <2>5, <2>6, <2>7, <2>8 DEF Allowed
  <1> QED
    BY <1>1, ToldAtFirst, ToldKept, PTL DEF Spec

-----------------------------------------------------------------------------
(* Requests on one order that do not overlap.                               *)

\* What serving the requests of an order one after the other means for the threads.
OneRequestPerOrder ==
    \A v, w \in Workers :
        v # w /\ session[v] # Idle /\ session[w] # Idle => session[v].order # session[w].order

\* What a thread read of its order still holds.
Fresh(s) ==
    /\ s.at \in {"charge", "insert"} => statut[s.order] = "NONE"
    /\ s.at \in Refunding => s.statut = statut[s.order] /\ s.statut \in P!Refundable
    /\ s.at \in {"credit", "settle"} => s.solde = Restant(s.order)

BalanceInv == Shape /\ (\A w \in Workers : Fresh(session[w])) /\ StatutMatchesBalance

Keeps(o) ==
    /\ statut'[o] = statut[o] /\ montant'[o] = montant[o] /\ refunded'[o] = refunded[o]
    /\ charged'[o] = charged[o] /\ givenBack'[o] = givenBack[o]

LEMMA OrderOf ==
    ASSUME Shape, NEW w \in Workers, session[w] # Idle
    PROVE  session[w].order \in Orders
  BY Sessions DEF Inserts, Refunds

LEMMA OthersElsewhere ==
    ASSUME OneRequestPerOrder, NEW w \in Workers, session[w] # Idle
    PROVE  \A v \in Workers \ {w} : session[v] # Idle => session[v].order # session[w].order
  BY DEF OneRequestPerOrder

\* A step of w on an order that no other thread is busy with.
LEMMA FreshBy ==
    ASSUME Shape, NEW w \in Workers, NEW s, Becomes(w, s),
           \A v \in Workers : Fresh(session[v]), Fresh(s)',
           \A v \in Workers \ {w} : session[v] # Idle => Keeps(session[v].order)
    PROVE  \A v \in Workers : Fresh(session[v])'
  <1> SUFFICES ASSUME NEW v \in Workers PROVE Fresh(session[v])'
    OBVIOUS
  <1>1. CASE v = w
    BY <1>1 DEF Becomes, Shape, TypeOK
  <1>2. CASE v # w
    <2>1. session'[v] = session[v] /\ Fresh(session[v])
      BY <1>2 DEF Becomes, Shape, TypeOK
    <2>2. CASE session[v] = Idle
      BY <2>1, <2>2, SoundIdle DEF Fresh, Refunding
    <2>3. CASE session[v] # Idle
      <3>1. Keeps(session[v].order)
        BY <1>2, <2>3
      <3> QED
        BY <2>1, <3>1 DEF Fresh, Keeps, Restant
    <2> QED
      BY <2>2, <2>3
  <1> QED
    BY <1>1, <1>2

LEMMA FreshIdle == Fresh(Idle)'
  BY SoundIdle DEF Fresh, Refunding

\* A step leaves every row as it is, or every row but that of the order it serves.
LEMMA BalanceKeptBy ==
    ASSUME BalanceInv, Shape', OneRequestPerOrder, NEW w \in Workers, Does(w)
    PROVE  BalanceInv'
  <1>0. /\ Shape /\ (\A v \in Workers : Fresh(session[v])) /\ StatutMatchesBalance
        /\ statut \in [Orders -> P!TxStatus]
        /\ montant \in [Orders -> Nat] /\ refunded \in [Orders -> Nat]
    BY DEF BalanceInv, Shape, TypeOK
  <1>1. ASSUME NEW s \in Session, Becomes(w, s), Fresh(s)',
               statut' = statut, montant' = montant, refunded' = refunded
        PROVE  BalanceInv'
    <2>1. StatutMatchesBalance'
      BY <1>0, <1>1 DEF StatutMatchesBalance
    <2>2. ASSUME NEW v \in Workers PROVE Fresh(session[v])'
      <3>1. CASE v = w
        BY <1>0, <1>1, <3>1 DEF Becomes, Shape, TypeOK
      <3>2. CASE v # w
        <4>1. session'[v] = session[v] /\ Fresh(session[v])
          BY <1>0, <1>1, <3>2 DEF Becomes, Shape, TypeOK
        <4> QED
          BY <1>1, <4>1 DEF Fresh, Restant
      <3> QED
        BY <3>1, <3>2
    <2> QED
      BY <2>1, <2>2 DEF BalanceInv
  <1>2. ASSUME NEW o \in Orders, session[w] # Idle, session[w].order = o, Becomes(w, Idle),
               \A q \in Orders \ {o} : Keeps(q), StatutMatchesBalance'
        PROVE  BalanceInv'
    <2>1. \A v \in Workers \ {w} : session[v] # Idle => Keeps(session[v].order)
      BY <1>0, <1>2, OthersElsewhere, OrderOf
    <2>2. \A v \in Workers : Fresh(session[v])'
      BY <1>0, <1>2, <2>1, FreshIdle, FreshBy
    <2> QED
      BY <1>2, <2>2 DEF BalanceInv
  <1>3. CASE Starts(w)
    <2>1. PICK s \in Session :
             /\ Becomes(w, s) /\ Quiet
             /\ \/ s.at \in {"charge", "insert"} /\ statut[s.order] = "NONE"
                \/ s.at = "balance" /\ s.statut = statut[s.order] /\ s.statut \in P!Refundable
      BY <1>3 DEF Starts
    <2>2. Fresh(s)'
      BY <2>1 DEF Fresh, Refunding, Quiet
    <2> QED
      BY <1>1, <2>1, <2>2 DEF Quiet
  <1>4. CASE Charges(w)
    <2>1. PICK s \in Session :
             /\ Becomes(w, s) /\ session[w].at = "charge" /\ s.at = "insert"
             /\ s.order = session[w].order
             /\ statut' = statut /\ montant' = montant /\ refunded' = refunded
      BY <1>4 DEF Charges
    <2>2. Fresh(s)'
      BY <1>0, <2>1 DEF Fresh, Refunding
    <2> QED
      BY <1>1, <2>1, <2>2
  <1>5. CASE Weighs(w)
    <2>1. PICK s \in Session :
             /\ Becomes(w, s) /\ Quiet /\ session[w].at = "balance" /\ s.at = "credit"
             /\ s.order = session[w].order /\ s.statut = session[w].statut
             /\ s.solde = Restant(s.order)
      BY <1>5 DEF Weighs
    <2>2. Fresh(s)'
      BY <1>0, <2>1 DEF Fresh, Refunding, Quiet, Restant
    <2> QED
      BY <1>1, <2>1, <2>2 DEF Quiet
  <1>6. CASE Credits(w)
    <2>1. PICK s \in Session :
             /\ Becomes(w, s) /\ session[w].at = "credit" /\ s.at = "settle"
             /\ s.order = session[w].order /\ s.statut = session[w].statut
             /\ s.solde = session[w].solde
             /\ statut' = statut /\ montant' = montant /\ refunded' = refunded
      BY <1>6 DEF Credits
    <2>2. Fresh(s)'
      BY <1>0, <2>1 DEF Fresh, Refunding, Restant
    <2> QED
      BY <1>1, <2>1, <2>2
  <1>7. CASE Drops(w)
    BY <1>1, <1>7, SoundIdle, FreshIdle DEF Drops, Quiet
  <1>8. CASE Lands(w)
    <2> DEFINE s == session[w]
    <2>1. s.order \in Orders /\ s.statut \in {"CAPTURED", "DECLINED", "VOIDED"} /\ s # Idle
      BY <1>0, <1>8, Sessions, SoundIdle DEF Lands, Inserts, Shape, Sound
    <2>2. \A q \in Orders \ {s.order} : Keeps(q)
      BY <1>0, <1>8, <2>1 DEF Lands, Keeps
    <2>3. statut'[s.order] = s.statut /\ refunded'[s.order] = 0
      BY <1>0, <1>8, <2>1 DEF Lands, StatutMatchesBalance, P!Refundable
    <2>4. StatutMatchesBalance'
      BY <1>0, <2>1, <2>2, <2>3 DEF StatutMatchesBalance, Keeps
    <2> QED
      BY <1>2, <1>8, <2>1, <2>2, <2>4 DEF Lands
  <1>9. CASE Settles(w)
    <2> DEFINE s == session[w]
               o == s.order
    <2>1. o \in Orders /\ s.at = "settle" /\ s # Idle /\ s.montant \in Int
      BY <1>0, <1>9, Sessions, SoundIdle DEF Settles, Refunds, Refunding
    <2>2. \A q \in Orders \ {o} : Keeps(q)
      BY <1>0, <1>9, <2>1 DEF Settles, Keeps
    <2>3. 0 < s.montant /\ s.montant <= s.solde /\ s.solde = Restant(o) /\ s.statut = statut[o]
      BY <1>0, <2>1 DEF Shape, Sound, Fresh, Refunding
    <2>4. statut'[o] = NewStatut(s)
      BY <1>0, <1>9, <2>1, <2>3 DEF Settles
    <2>5. refunded'[o] = refunded[o] + s.montant /\ montant'[o] = montant[o]
      BY <1>0, <1>9, <2>1 DEF Settles
    <2>6. /\ 0 < refunded'[o] /\ refunded'[o] <= montant'[o]
          /\ s.montant = s.solde <=> refunded'[o] = montant'[o]
      BY <1>0, <2>1, <2>3, <2>5 DEF Restant
    <2>7. \/ statut'[o] = "REFUNDED" /\ refunded'[o] = montant'[o]
          \/ statut'[o] = "PARTIALLY_REFUNDED" /\ refunded'[o] < montant'[o]
      BY <1>0, <2>1, <2>4, <2>5, <2>6 DEF NewStatut
    <2> HIDE DEF o, s
    <2>8. StatutMatchesBalance'
      BY <1>0, <2>1, <2>2, <2>6, <2>7 DEF StatutMatchesBalance, Keeps, P!Refundable
    <2> QED
      BY <1>2, <1>9, <2>1, <2>2, <2>8 DEF Settles, o, s
  <1>10. CASE session' = session /\ Quiet
    BY <1>0, <1>10 DEF BalanceInv, Fresh, Restant, Quiet, StatutMatchesBalance
  <1> QED
    BY <1>3, <1>4, <1>5, <1>6, <1>7, <1>8, <1>9, <1>10 DEF Does

LEMMA BalanceKept ==
    ASSUME BalanceInv, OneRequestPerOrder, [Next]_vars PROVE BalanceInv'
  <1>1. Shape'
    BY ShapeKept DEF BalanceInv
  <1>2. CASE Quiet /\ session' = session
    BY <1>1, <1>2 DEF BalanceInv, Fresh, Restant, Quiet, StatutMatchesBalance
  <1>3. ASSUME NEW w \in Workers, Does(w) PROVE BalanceInv'
    BY <1>1, <1>3, BalanceKeptBy
  <1> QED
    BY <1>2, <1>3, Effects DEF BalanceInv

LEMMA BalanceAtFirst == Init => BalanceInv
  <1> SUFFICES ASSUME Init PROVE BalanceInv
    OBVIOUS
  <1>1. /\ \A o \in Orders : statut[o] = "NONE" /\ refunded[o] = 0
        /\ \A w \in Workers : session[w].at = "idle"
    BY DEF Init, Idle
  <1> QED
    BY <1>1, ShapeAtFirst DEF BalanceInv, Fresh, Refunding, StatutMatchesBalance

\* When the requests on an order come one after the other, on as many threads as one
\* likes, its statut tells how much was given back, after refunds of any amount and in any
\* number, those that fail included (service.refund).
THEOREM BalanceSafety == Spec /\ []OneRequestPerOrder => []StatutMatchesBalance
  <1>1. BalanceInv => StatutMatchesBalance
    BY DEF BalanceInv
  <1> QED
    BY <1>1, BalanceAtFirst, BalanceKept, PTL DEF Spec

\* Then a step is, for the statut, one of the atomic endpoints: a commit still knows the
\* statut and the balance that it changes.
LEMMA PromiseStep ==
    ASSUME BalanceInv, [Next]_vars PROVE [P!PaiementNext]_statut
  <1>0. /\ Shape /\ (\A v \in Workers : Fresh(session[v])) /\ StatutMatchesBalance
        /\ statut \in [Orders -> P!TxStatus]
        /\ montant \in [Orders -> Nat] /\ refunded \in [Orders -> Nat]
    BY DEF BalanceInv, Shape, TypeOK
  <1>1. ASSUME NEW w \in Workers, Lands(w) PROVE P!PaiementNext
    <2> DEFINE s == session[w]
    <2>1. s.order \in Orders /\ s.statut \in {"CAPTURED", "DECLINED", "VOIDED"}
      BY <1>0, <1>1, Sessions DEF Lands, Inserts, Shape, Sound
    <2>2. P!Debit(s.order) \/ P!Void(s.order)
      BY <1>1, <2>1 DEF Lands, P!Debit, P!Void, P!VoidOutcome
    <2> QED
      BY <2>1, <2>2 DEF P!PaiementNext
  <1>2. ASSUME NEW w \in Workers, Settles(w) PROVE P!PaiementNext
    <2> DEFINE s == session[w]
               o == s.order
    <2>1. o \in Orders /\ s.at = "settle" /\ s.montant \in Int
      BY <1>0, <1>2, Sessions DEF Settles, Refunds, Refunding
    <2>2. /\ 0 < s.montant /\ s.montant <= s.solde /\ s.solde = Restant(o)
          /\ s.statut = statut[o] /\ statut[o] \in P!Refundable
      BY <1>0, <2>1 DEF Shape, Sound, Fresh, Refunding
    <2>3. statut' = [statut EXCEPT ![o] = NewStatut(s)]
      BY <1>0, <1>2, <2>1, <2>2 DEF Settles
    <2>4. statut[o] # "REFUNDED"
      BY <1>0, <2>1, <2>2 DEF StatutMatchesBalance, Restant
    <2>5. P!Refund(o) \/ P!RefundPart(o)
      BY <2>2, <2>3, <2>4 DEF NewStatut, P!Refund, P!RefundPart, P!Refundable
    <2> QED
      BY <2>1, <2>5 DEF P!PaiementNext
  <1>3. CASE Quiet
    BY <1>3 DEF Quiet
  <1>4. ASSUME NEW w \in Workers, Does(w) PROVE [P!PaiementNext]_statut
    BY <1>1, <1>2, <1>4 DEF Does, Starts, Charges, Weighs, Credits, Drops, Quiet
  <1> QED
    BY <1>0, <1>3, <1>4, Effects

\* Requests that come one after the other on each order keep the promise of the atomic
\* endpoints for refunds of any amount too, whatever fails half way (service.refund).
THEOREM SerialPromiseKept == Spec /\ []OneRequestPerOrder => Promise
  <1>1. BalanceInv /\ OneRequestPerOrder /\ [Next]_vars
           => BalanceInv' /\ [P!PaiementNext]_statut
    BY BalanceKept, PromiseStep
  <1>2. Init => P!PaiementInit
    BY DEF Init, P!PaiementInit
  <1> QED
    BY <1>1, <1>2, BalanceAtFirst, PTL DEF Spec, Promise, P!PaiementSpec
=============================================================================
