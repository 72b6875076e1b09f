---------------------- MODULE RestaurantSessionsProofs ----------------------
(* Any number of threads that serve acceptances and cancellations at once are *)
(* the two atomic endpoints of Restaurant, and what they answered stays true. *)
EXTENDS RestaurantSessions, TLAPS

Desks == [Clerks -> {IdleClerk} \cup
                    [at : {"insert", "refresh", "update"}, order : Orders]]

\* A thread that reads a row again or cancels it works on a row that exists.
DeskInv ==
    \A w \in Clerks : desk[w].at \in {"refresh", "update"} =>
        acceptance[desk[w].order] # "NONE"

RestaurantInv == RestaurantTypeOK /\ DeskInv /\ AnswersStand

-----------------------------------------------------------------------------

LEMMA RestaurantInitInv == RestaurantSessionsInit => RestaurantInv
  BY DEF RestaurantSessionsInit, RestaurantInv, RestaurantTypeOK, DeskInv, AnswersStand, IdleClerk,
         R!RestaurantInit, R!AcceptanceStatus

\* A thread at work has an order in hand.
LEMMA DeskShape ==
    ASSUME RestaurantTypeOK, NEW w \in Clerks, ~Serves(w, "idle")
    PROVE  desk[w].order \in Orders
  BY DEF RestaurantTypeOK, Serves, IdleClerk

\* The verdict of a row that exists is an answer that stands.
LEMMA TellsStand ==
    ASSUME RestaurantInv, NEW o \in Orders, acceptance[o] # "NONE", Tells(o),
           UNCHANGED <<acceptance, undone>>
    PROVE  AnswersStand' /\ told' \in [Orders -> SUBSET {"ok", "refused"}]
  <1>1. acceptance[o] \in {"ACCEPTED", "REFUSED", "CANCELLED"}
    BY DEF RestaurantInv, RestaurantTypeOK, R!AcceptanceStatus
  <1>2. told' = [told EXCEPT ![o] = @ \cup {IF acceptance[o] = "ACCEPTED" THEN "ok" ELSE "refused"}]
    BY DEF Tells, R!AcceptReply
  <1> QED
    BY <1>1, <1>2 DEF RestaurantInv, RestaurantTypeOK, AnswersStand

\* The desk of one thread changes and rows stay: what the desks hold stays true when it
\* is true of the new one.
LEMMA DeskStep ==
    ASSUME RestaurantInv, NEW w \in Clerks, NEW o \in Orders, NEW place \in {"insert", "refresh", "update"},
           \/ Leaves(w)
           \/ Holds(w, place, o) /\ (place # "insert" => acceptance'[o] # "NONE"),
           \A p \in Orders : acceptance[p] # "NONE" => acceptance'[p] # "NONE"
    PROVE  DeskInv' /\ desk' \in Desks
  <1>1. \A v \in Clerks : desk[v] = IdleClerk \/ desk[v].order \in Orders
    BY DEF RestaurantInv, RestaurantTypeOK
  <1>2. CASE Leaves(w)
    BY <1>1, <1>2 DEF RestaurantInv, RestaurantTypeOK, DeskInv, Desks, Leaves, IdleClerk
  <1>3. CASE Holds(w, place, o) /\ (place # "insert" => acceptance'[o] # "NONE")
    BY <1>1, <1>3 DEF RestaurantInv, RestaurantTypeOK, DeskInv, Desks, Holds, IdleClerk
  <1> QED
    BY <1>2, <1>3

-----------------------------------------------------------------------------

LEMMA AcceptOrderStep ==
    ASSUME RestaurantInv, NEW w \in Clerks, NEW o \in Orders, AcceptOrder(w, o)
    PROVE  RestaurantInv' /\ UNCHANGED acceptance
  <1>1. UNCHANGED <<acceptance, closed, undone>>
    BY DEF AcceptOrder
  <1>2. CASE acceptance[o] # "NONE" /\ Tells(o) /\ UNCHANGED desk
    BY <1>1, <1>2, TellsStand DEF RestaurantInv, RestaurantTypeOK, DeskInv
  <1>3. CASE Holds(w, "insert", o) /\ UNCHANGED told
    <2>1. DeskInv' /\ desk' \in Desks
      BY <1>1, <1>3, DeskStep
    <2> QED
      BY <1>1, <1>3, <2>1 DEF RestaurantInv, RestaurantTypeOK, AnswersStand, Desks
  <1> QED
    BY <1>2, <1>3 DEF AcceptOrder

\* The first commit of a verdict is an acceptance; a later one fails.
LEMMA InsertAcceptanceStep ==
    ASSUME RestaurantInv, NEW w \in Clerks, InsertAcceptance(w)
    PROVE  RestaurantInv' /\ [R!RestaurantNext]_acceptance
  <1> DEFINE o == desk[w].order
  <1>1. o \in Orders
    BY DeskShape DEF InsertAcceptance, Serves, RestaurantInv
  <1>2. UNCHANGED <<closed, told, undone>>
    BY DEF InsertAcceptance
  <1>3. CASE acceptance[o] # "NONE" /\ Leaves(w) /\ UNCHANGED acceptance
    <2>1. DeskInv' /\ desk' \in Desks
      BY <1>1, <1>3, DeskStep
    <2> QED
      BY <1>2, <1>3, <2>1 DEF RestaurantInv, RestaurantTypeOK, AnswersStand, Desks
  <1>4. CASE /\ acceptance[o] = "NONE"
             /\ acceptance' = [acceptance EXCEPT ![o] = Decide(o)]
             /\ Holds(w, "refresh", o)
    <2>1. Decide(o) \in {"ACCEPTED", "REFUSED"}
      BY DEF Decide
    <2>2. acceptance' \in [Orders -> R!AcceptanceStatus] /\ acceptance'[o] # "NONE"
      BY <1>1, <1>4, <2>1 DEF RestaurantInv, RestaurantTypeOK, R!AcceptanceStatus
    <2>3. \A p \in Orders : acceptance[p] # "NONE" => acceptance'[p] = acceptance[p]
      BY <1>1, <1>4 DEF RestaurantInv, RestaurantTypeOK
    <2>4. DeskInv' /\ desk' \in Desks
      BY <1>1, <1>4, <2>2, <2>3, DeskStep
    <2>5. AnswersStand'
      BY <1>2, <2>3 DEF RestaurantInv, AnswersStand
    <2>6. R!Accept(o)
      BY <1>4, <2>1 DEF R!Accept
    <2> QED
      BY <1>1, <1>2, <2>2, <2>4, <2>5, <2>6 DEF RestaurantInv, RestaurantTypeOK, Desks, R!RestaurantNext
  <1> QED
    BY <1>3, <1>4 DEF InsertAcceptance

LEMMA RefreshStep ==
    ASSUME RestaurantInv, NEW w \in Clerks, Refresh(w)
    PROVE  RestaurantInv' /\ UNCHANGED acceptance
  <1>1. desk[w].order \in Orders /\ acceptance[desk[w].order] # "NONE"
    BY DeskShape DEF Refresh, Serves, RestaurantInv, DeskInv
  <1>2. UNCHANGED <<acceptance, closed, undone>> /\ Leaves(w) /\ Tells(desk[w].order)
    BY DEF Refresh
  <1>3. AnswersStand' /\ told' \in [Orders -> SUBSET {"ok", "refused"}]
    BY <1>1, <1>2, TellsStand
  <1>4. DeskInv' /\ desk' \in Desks
    BY <1>1, <1>2, DeskStep
  <1> QED
    BY <1>2, <1>3, <1>4 DEF RestaurantInv, RestaurantTypeOK, Desks

LEMMA CancelOrderStep ==
    ASSUME RestaurantInv, NEW w \in Clerks, NEW o \in Orders, CancelOrder(w, o)
    PROVE  RestaurantInv' /\ UNCHANGED acceptance
  <1>1. UNCHANGED <<acceptance, closed, told>>
    BY DEF CancelOrder
  <1>2. CASE acceptance[o] = "CANCELLED" /\ undone' = undone \cup {o} /\ UNCHANGED desk
    BY <1>1, <1>2 DEF RestaurantInv, RestaurantTypeOK, DeskInv, AnswersStand
  <1>3. CASE /\ acceptance[o] \in {"ACCEPTED", "REFUSED"} /\ Holds(w, "update", o)
             /\ UNCHANGED undone
    <2>1. DeskInv' /\ desk' \in Desks
      BY <1>1, <1>3, DeskStep
    <2> QED
      BY <1>1, <1>3, <2>1 DEF RestaurantInv, RestaurantTypeOK, AnswersStand, Desks
  <1> QED
    BY <1>2, <1>3 DEF CancelOrder

\* The commit of a cancellation, whatever became of the row since it was read.
LEMMA UpdateStep ==
    ASSUME RestaurantInv, NEW w \in Clerks, Update(w)
    PROVE  RestaurantInv' /\ R!RestaurantNext
  <1> DEFINE o == desk[w].order
  <1>1. o \in Orders /\ acceptance[o] # "NONE"
    BY DeskShape DEF Update, Serves, RestaurantInv, DeskInv
  <1>2. /\ acceptance' = [acceptance EXCEPT ![o] = "CANCELLED"]
        /\ undone' = undone \cup {o} /\ Leaves(w) /\ UNCHANGED <<closed, told>>
    BY DEF Update
  <1>3. acceptance' \in [Orders -> R!AcceptanceStatus]
    BY <1>1, <1>2 DEF RestaurantInv, RestaurantTypeOK, R!AcceptanceStatus
  <1>4. \A p \in Orders : acceptance'[p] = IF p = o THEN "CANCELLED" ELSE acceptance[p]
    BY <1>1, <1>2 DEF RestaurantInv, RestaurantTypeOK
  <1>5. DeskInv' /\ desk' \in Desks
    BY <1>1, <1>2, <1>4, DeskStep
  <1>6. AnswersStand'
    BY <1>2, <1>4 DEF RestaurantInv, AnswersStand
  <1>7. R!CancelAcceptance(o)
    BY <1>1, <1>2 DEF R!CancelAcceptance
  <1> QED
    BY <1>1, <1>2, <1>3, <1>5, <1>6, <1>7 DEF RestaurantInv, RestaurantTypeOK, Desks, R!RestaurantNext

LEMMA DropsStep ==
    ASSUME RestaurantInv, NEW w \in Clerks, Drops(w)
    PROVE  RestaurantInv' /\ UNCHANGED acceptance
  <1>1. desk[w].order \in Orders
    BY DeskShape DEF Drops, RestaurantInv
  <1>2. UNCHANGED <<acceptance, closed, told, undone>> /\ Leaves(w)
    BY DEF Drops
  <1>3. DeskInv' /\ desk' \in Desks
    BY <1>1, <1>2, DeskStep
  <1> QED
    BY <1>2, <1>3 DEF RestaurantInv, RestaurantTypeOK, AnswersStand, Desks

LEMMA RestaurantStep ==
    RestaurantInv /\ [RestaurantSessionsNext]_restaurantVars => RestaurantInv' /\ [R!RestaurantNext]_acceptance
  <1> SUFFICES ASSUME RestaurantInv, [RestaurantSessionsNext]_restaurantVars
               PROVE  RestaurantInv' /\ [R!RestaurantNext]_acceptance
    OBVIOUS
  <1>1. CASE UNCHANGED restaurantVars
    BY <1>1 DEF restaurantVars, RestaurantInv, RestaurantTypeOK, DeskInv, AnswersStand
  <1>2. CASE RestaurantSessionsNext
    BY <1>2, AcceptOrderStep, CancelOrderStep, InsertAcceptanceStep, RefreshStep, UpdateStep, DropsStep
       DEF RestaurantSessionsNext
  <1> QED
    BY <1>1, <1>2

-----------------------------------------------------------------------------

\* Interleaved, repeated and failing requests are the atomic endpoints that FoodExpress
\* composes (service.accept_order, cancel_order).
THEOREM RestaurantPromiseKept == RestaurantSessionsSpec => RestaurantPromise
  <1>1. RestaurantSessionsInit => R!RestaurantInit
    BY DEF RestaurantSessionsInit
  <1> QED
    BY <1>1, RestaurantInitInv, RestaurantStep, PTL
       DEF RestaurantSessionsSpec, RestaurantPromise, R!RestaurantSpec

\* What Restaurant answered to the saga stays true (service.accept_order, cancel_order).
THEOREM AnswersSafety == RestaurantSessionsSpec => []AnswersStand
  <1>1. RestaurantInv => AnswersStand
    BY DEF RestaurantInv
  <1> QED
    BY <1>1, RestaurantInitInv, RestaurantStep, PTL DEF RestaurantSessionsSpec

\* Rows, threads and answers keep the shape the code gives them.
THEOREM RestaurantTypeSafety == RestaurantSessionsSpec => []RestaurantTypeOK
  <1>1. RestaurantInv => RestaurantTypeOK
    BY DEF RestaurantInv
  <1> QED
    BY <1>1, RestaurantInitInv, RestaurantStep, PTL DEF RestaurantSessionsSpec
=============================================================================
