----------------------- MODULE LivraisonSessionsProofs -----------------------
(* The consumer and any number of requests together are the one assignment    *)
(* and the one announcement per order that FoodExpress composes, and a READY  *)
(* message leaves its queue with a delivery behind it. Beside Restaurant,     *)
(* which they never call, all of this holds of the two services together.     *)
EXTENDS PartnerServices, RestaurantSessionsProofs, Integers

Hands == {IdleHand} \cup [at : {"insert", "publish", "ack"}, order : Orders]

TypeInv ==
    /\ delivery \in [Orders -> L!DeliveryStatus]
    /\ crew \in [Crew -> Hands]
    /\ ready \in Seq(Orders) /\ inbox \in Seq(Orders) /\ Len(inbox) <= Len(ready)
    /\ announced \in [Orders -> Nat]
    /\ silenced \subseteq Orders

\* A thread about to announce an order has committed it, is the only one, and nobody
\* has announced the order or failed to.
PublisherInv ==
    \A w \in Crew : Works(w, "publish") =>
        /\ delivery[crew[w].order] # "NONE"
        /\ announced[crew[w].order] = 0 /\ crew[w].order \notin silenced
        /\ \A v \in Crew : Works(v, "publish") /\ crew[v].order = crew[w].order => v = w

\* The queue holds the last messages published, and the consumer works on its head,
\* which has a delivery when it is to be acknowledged.
QueueInv ==
    /\ \A i \in 1..Len(inbox) : inbox[i] = ready[Len(ready) - Len(inbox) + i]
    /\ ~Works("consumer", "idle") => inbox # <<>> /\ crew["consumer"].order = Head(inbox)
    /\ Works("consumer", "ack") => delivery[crew["consumer"].order] # "NONE"
    /\ TakenIsDelivered

Inv == TypeInv /\ PublisherInv /\ AnnouncedOnceOrLost /\ QueueInv

-----------------------------------------------------------------------------

LEMMA AnnouncingAre ==
    ASSUME NEW o
    PROVE  o \in Announcing <=> \E w \in Crew : Works(w, "publish") /\ crew[w].order = o
  BY DEF Announcing

\* A thread at work has an order in hand.
LEMMA HandShape ==
    ASSUME TypeInv, NEW w \in Crew, ~Works(w, "idle")
    PROVE  crew[w].order \in Orders
  BY DEF TypeInv, Hands, Works, IdleHand

LEMMA InitInv == LivraisonSessionsInit => Inv /\ L!LivraisonInit
  <1> SUFFICES ASSUME LivraisonSessionsInit PROVE Inv /\ L!LivraisonInit
    OBVIOUS
  <1>1. \A w \in Crew : ~Works(w, "publish") /\ Works(w, "idle")
    BY DEF LivraisonSessionsInit, Works, IdleHand
  <1>2. Announcing = {}
    BY <1>1 DEF Announcing
  <1>3. "consumer" \in Crew
    BY DEF Crew
  <1>4. TypeInv
    BY DEF LivraisonSessionsInit, TypeInv, Hands, L!DeliveryStatus
  <1>5. PublisherInv /\ AnnouncedOnceOrLost
    BY <1>1, <1>2 DEF LivraisonSessionsInit, PublisherInv, AnnouncedOnceOrLost
  <1>6. QueueInv
    BY <1>1, <1>3 DEF LivraisonSessionsInit, QueueInv, TakenIsDelivered, Works
  <1> QED
    BY <1>2, <1>4, <1>5, <1>6 DEF Inv, LivraisonSessionsInit, L!LivraisonInit

-----------------------------------------------------------------------------

\* A thread that neither leaves nor reaches its announcement changes no announcement.
LEMMA QuietStep ==
    ASSUME Inv, NEW w \in Crew, NEW h \in Hands, crew' = [crew EXCEPT ![w] = h],
           ~Works(w, "publish"), h.at # "publish",
           UNCHANGED <<delivery, announced, silenced>>
    PROVE  Announcing' = Announcing /\ PublisherInv' /\ AnnouncedOnceOrLost'
  <1>1. \A v \in Crew : /\ Works(v, "publish")' <=> Works(v, "publish")
                        /\ Works(v, "publish") => crew'[v].order = crew[v].order
    BY DEF Inv, TypeInv, Works
  <1>2. Announcing' = Announcing
    BY <1>1 DEF Announcing
  <1>3. PublisherInv'
    BY <1>1 DEF Inv, PublisherInv
  <1> QED
    BY <1>2, <1>3 DEF Inv, AnnouncedOnceOrLost

\* A thread that goes on with an order leaves the queue as it is.
LEMMA CarriesStep ==
    ASSUME Inv, NEW w \in Crew, NEW o \in Orders, NEW place \in {"insert", "publish"},
           Carries(w, place, o), w = "consumer" => inbox # <<>> /\ o = Head(inbox),
           UNCHANGED <<inbox, ready, rejected>>,
           \A p \in Orders : delivery[p] # "NONE" => delivery'[p] # "NONE"
    PROVE  QueueInv' /\ crew' \in [Crew -> Hands]
  <1>1. crew' = [crew EXCEPT ![w] = [at |-> place, order |-> o]] /\ crew' \in [Crew -> Hands]
    BY DEF Carries, Inv, TypeInv, Hands
  <1>2. "consumer" \in Crew
    BY DEF Crew
  <1>3. ~Works("consumer", "idle")' => inbox # <<>> /\ crew'["consumer"].order = Head(inbox)
    BY <1>1, <1>2 DEF Inv, TypeInv, QueueInv, Works
  <1>4. \A i \in 1..Len(ready) : ready[i] \in Orders
    BY DEF Inv, TypeInv
  <1>5. TakenIsDelivered'
    BY <1>4 DEF Inv, TypeInv, QueueInv, TakenIsDelivered
  <1>6. Works("consumer", "ack")' => delivery'[crew'["consumer"].order] # "NONE"
    <2>1. Works("consumer", "ack")' => w # "consumer" /\ crew'["consumer"] = crew["consumer"]
      BY <1>1, <1>2 DEF Inv, TypeInv, Works
    <2>2. Works("consumer", "ack") =>
             crew["consumer"].order \in Orders /\ delivery[crew["consumer"].order] # "NONE"
      BY <1>2, HandShape DEF Inv, QueueInv, Works
    <2> QED
      BY <2>1, <2>2 DEF Works
  <1> QED
    BY <1>1, <1>3, <1>5, <1>6 DEF Inv, QueueInv

\* A thread that returns with a delivery leaves the queue as it is.
LEMMA ReturnsStep ==
    ASSUME Inv, NEW w \in Crew, NEW o \in Orders, Returns(w, o), delivery[o] # "NONE",
           w = "consumer" => inbox # <<>> /\ o = Head(inbox),
           UNCHANGED <<delivery, ready, rejected>>
    PROVE  /\ QueueInv' /\ crew' \in [Crew -> Hands] /\ inbox' = inbox
           /\ \E h \in Hands : h.at # "publish" /\ crew' = [crew EXCEPT ![w] = h]
  <1> DEFINE h == IF w = "consumer" THEN [at |-> "ack", order |-> o] ELSE IdleHand
  <1>1. h \in Hands /\ h.at # "publish" /\ crew' = [crew EXCEPT ![w] = h] /\ inbox' = inbox
    BY DEF Returns, Hands, IdleHand
  <1>2. /\ w = "consumer" => h = [at |-> "ack", order |-> o]
        /\ "consumer" \in Crew
    BY DEF Crew
  <1> HIDE DEF h
  <1>3. crew' \in [Crew -> Hands] /\ crew'[w] = h /\ \A v \in Crew : v # w => crew'[v] = crew[v]
    BY <1>1 DEF Inv, TypeInv
  <1>4. ~Works("consumer", "idle")' => inbox # <<>> /\ crew'["consumer"].order = Head(inbox)
    BY <1>2, <1>3 DEF Inv, QueueInv, Works
  <1>5. Works("consumer", "ack")' => delivery'[crew'["consumer"].order] # "NONE"
    BY <1>2, <1>3 DEF Inv, QueueInv, Works
  <1>6. QueueInv'
    BY <1>1, <1>4, <1>5 DEF Inv, QueueInv, TakenIsDelivered
  <1> QED
    BY <1>1, <1>3, <1>6

\* The consumer that ends may take away the head of the queue, which must have a delivery
\* or have been rejected.
LEMMA EndsStep ==
    ASSUME Inv, NEW w \in Crew, Ends(w), UNCHANGED ready, rejected \subseteq rejected',
           \A p \in Orders : delivery[p] # "NONE" => delivery'[p] # "NONE",
           w = "consumer" =>
               /\ inbox # <<>>
               /\ Head(inbox) \in rejected' \/ delivery'[Head(inbox)] # "NONE"
    PROVE  QueueInv' /\ crew' \in [Crew -> Hands] /\ inbox' \in Seq(Orders)
                     /\ Len(inbox') <= Len(ready')
  <1>1. crew' = [crew EXCEPT ![w] = IdleHand] /\ crew' \in [Crew -> Hands]
    BY DEF Ends, Inv, TypeInv, Hands
  <1>2. "consumer" \in Crew
    BY DEF Crew
  <1>3. \A i \in 1..Len(ready) : ready[i] \in Orders
    BY DEF Inv, TypeInv
  <1>4. CASE inbox' = inbox
    <2>1. inbox' = inbox /\ ready' = ready
      BY <1>4
    <2>2. crew'["consumer"] \in {crew["consumer"], IdleHand}
      BY <1>1, <1>2 DEF Inv, TypeInv
    <2>3. ~Works("consumer", "idle")' => inbox' # <<>> /\ crew'["consumer"].order = Head(inbox')
      BY <2>1, <2>2 DEF Inv, QueueInv, Works, IdleHand
    <2>4. Works("consumer", "ack")' => delivery'[crew'["consumer"].order] # "NONE"
      <3>1. Works("consumer", "ack")' =>
               Works("consumer", "ack") /\ crew'["consumer"] = crew["consumer"]
        BY <2>2 DEF Works, IdleHand
      <3>2. Works("consumer", "ack") =>
               crew["consumer"].order \in Orders /\ delivery[crew["consumer"].order] # "NONE"
        BY <1>2, HandShape DEF Inv, QueueInv, Works
      <3> QED
        BY <3>1, <3>2
    <2>5. TakenIsDelivered'
      BY <1>3, <2>1 DEF Inv, TypeInv, QueueInv, TakenIsDelivered
    <2> QED
      BY <1>1, <2>1, <2>3, <2>4, <2>5 DEF Inv, TypeInv, QueueInv
  <1>5. CASE w = "consumer" /\ inbox' = Tail(inbox)
    <2>1. inbox' = Tail(inbox) /\ ready' = ready /\ inbox # <<>>
      BY <1>5
    <2>2. /\ inbox' \in Seq(Orders) /\ Len(inbox') = Len(inbox) - 1
          /\ \A i \in 1..Len(inbox') : inbox'[i] = inbox[i + 1]
          /\ Len(inbox) \in Nat \ {0} /\ Len(ready) \in Nat /\ Len(inbox) <= Len(ready)
          /\ Head(inbox) = inbox[1]
      BY <2>1 DEF Inv, TypeInv
    <2>3. Works("consumer", "idle")'
      BY <1>1, <1>2, <1>5 DEF Inv, TypeInv, Works, IdleHand
    <2>4. \A i \in 1..Len(inbox') : inbox'[i] = ready[Len(ready) - Len(inbox') + i]
      <3> SUFFICES ASSUME NEW i \in 1..Len(inbox')
                   PROVE  inbox'[i] = ready[Len(ready) - Len(inbox') + i]
        OBVIOUS
      <3>1. i + 1 \in 1..Len(inbox)
        BY <2>2
      <3>2. inbox[i + 1] = ready[Len(ready) - Len(inbox) + (i + 1)]
        BY <3>1 DEF Inv, QueueInv
      <3>3. Len(ready) - Len(inbox) + (i + 1) = Len(ready) - Len(inbox') + i
        BY <2>2
      <3> QED
        BY <2>2, <3>2, <3>3
    <2>5. Head(inbox) = ready[Len(ready) - Len(inbox) + 1]
      <3>1. 1 \in 1..Len(inbox)
        BY <2>2
      <3> QED
        BY <2>2, <3>1 DEF Inv, QueueInv
    <2>6. ASSUME NEW i \in 1..(Len(ready) - Len(inbox'))
          PROVE  ready[i] \in rejected' \/ delivery'[ready[i]] # "NONE"
      <3>1. CASE i = Len(ready) - Len(inbox) + 1
        BY <1>5, <2>5, <3>1
      <3>2. CASE i # Len(ready) - Len(inbox) + 1
        <4>1. i \in 1..(Len(ready) - Len(inbox)) /\ i \in 1..Len(ready)
          <5>1. /\ Len(inbox) \in Nat \ {0} /\ Len(ready) \in Nat /\ Len(inbox) <= Len(ready)
                /\ Len(inbox') = Len(inbox) - 1
            BY <2>2
          <5> QED
            BY <3>2, <5>1
        <4>2. ready[i] \in Orders /\ (ready[i] \in rejected \/ delivery[ready[i]] # "NONE")
          BY <1>3, <4>1 DEF Inv, QueueInv, TakenIsDelivered
        <4> QED
          BY <4>2
      <3> QED
        BY <3>1, <3>2
    <2>7. TakenIsDelivered'
      <3>1. ready' = ready
        BY <2>1
      <3> QED
        BY <2>6, <3>1 DEF TakenIsDelivered
    <2>8. ~Works("consumer", "ack")'
      BY <2>3 DEF Works
    <2> QED
      BY <1>1, <2>1, <2>2, <2>3, <2>4, <2>7, <2>8 DEF QueueInv
  <1> QED
    BY <1>4, <1>5 DEF Ends

-----------------------------------------------------------------------------

LEMMA PublishedStep ==
    ASSUME Inv, NEW o \in Orders, Published(o)
    PROVE  Inv' /\ UNCHANGED <<delivery, Announcing>>
  <1>1. UNCHANGED <<delivery, crew, announced, silenced, rejected>>
    BY DEF Published
  <1>2. ready' = Append(ready, o) /\ inbox' = Append(inbox, o)
    BY DEF Published
  <1>3. /\ ready' \in Seq(Orders) /\ inbox' \in Seq(Orders)
        /\ Len(ready) \in Nat /\ Len(inbox) \in Nat /\ Len(inbox) <= Len(ready)
        /\ Len(ready') = Len(ready) + 1 /\ Len(inbox') = Len(inbox) + 1
    BY <1>2 DEF Inv, TypeInv
  <1>4. /\ \A i \in 1..Len(ready) : ready'[i] = ready[i]
        /\ \A i \in 1..Len(inbox) : inbox'[i] = inbox[i]
        /\ ready'[Len(ready) + 1] = o /\ inbox'[Len(inbox) + 1] = o
    BY <1>2 DEF Inv, TypeInv
  <1>5. Announcing' = Announcing
    BY <1>1 DEF Announcing, Works
  <1>6. TypeInv' /\ PublisherInv' /\ AnnouncedOnceOrLost'
    BY <1>1, <1>3, <1>5 DEF Inv, TypeInv, PublisherInv, AnnouncedOnceOrLost, Works
  <1>7. ASSUME NEW i \in 1..Len(inbox')
        PROVE  inbox'[i] = ready'[Len(ready') - Len(inbox') + i]
    <2>1. CASE i = Len(inbox) + 1
      <3>1. Len(ready') - Len(inbox') + i = Len(ready) + 1
        BY <1>3, <2>1
      <3> QED
        BY <1>4, <2>1, <3>1
    <2>2. CASE i # Len(inbox) + 1
      <3>1. i \in 1..Len(inbox) /\ Len(ready) - Len(inbox) + i \in 1..Len(ready)
        BY <1>3, <1>7, <2>2
      <3>2. Len(ready') - Len(inbox') + i = Len(ready) - Len(inbox) + i
        BY <1>3
      <3> QED
        BY <1>4, <3>1, <3>2 DEF Inv, QueueInv
    <2> QED
      BY <2>1, <2>2
  <1>8. inbox # <<>> => inbox' # <<>> /\ Head(inbox') = Head(inbox)
    BY <1>2 DEF Inv, TypeInv
  <1>9. TakenIsDelivered'
    <2>1. Len(ready') - Len(inbox') = Len(ready) - Len(inbox)
      BY <1>3
    <2>2. \A i \in 1..(Len(ready) - Len(inbox)) : ready'[i] = ready[i]
      BY <1>3, <1>4
    <2> QED
      BY <1>1, <2>1, <2>2 DEF Inv, QueueInv, TakenIsDelivered
  <1>10. QueueInv'
    BY <1>1, <1>7, <1>8, <1>9 DEF Inv, QueueInv, Works
  <1> QED
    BY <1>1, <1>5, <1>6, <1>10 DEF Inv

LEMMA HandleStep ==
    ASSUME Inv, NEW w \in Crew, NEW o \in Orders, HandleOrderReady(w, o)
    PROVE  Inv' /\ UNCHANGED <<delivery, Announcing>>
  <1>1. UNCHANGED <<delivery, ready, announced, silenced, rejected>> /\ ~Works(w, "publish")
    BY DEF HandleOrderReady, Works
  <1>2. w = "consumer" => inbox # <<>> /\ o = Head(inbox)
    BY DEF HandleOrderReady
  <1>3. CASE delivery[o] = "NONE" /\ Carries(w, "insert", o) /\ UNCHANGED inbox
    <2> DEFINE h == [at |-> "insert", order |-> o]
    <2>1. QueueInv' /\ crew' \in [Crew -> Hands]
      BY <1>1, <1>2, <1>3, CarriesStep
    <2>2. h \in Hands /\ h.at # "publish" /\ crew' = [crew EXCEPT ![w] = h]
      BY <1>3 DEF Hands, Carries
    <2> HIDE DEF h
    <2>3. Announcing' = Announcing /\ PublisherInv' /\ AnnouncedOnceOrLost'
      BY <1>1, <2>2, QuietStep
    <2> QED
      BY <1>1, <1>3, <2>1, <2>3 DEF Inv, TypeInv
  <1>4. CASE delivery[o] # "NONE" /\ Returns(w, o)
    <2>1. QueueInv' /\ crew' \in [Crew -> Hands] /\ inbox' = inbox
      BY <1>1, <1>2, <1>4, ReturnsStep
    <2>2. PICK h \in Hands : h.at # "publish" /\ crew' = [crew EXCEPT ![w] = h]
      BY <1>1, <1>2, <1>4, ReturnsStep
    <2>3. Announcing' = Announcing /\ PublisherInv' /\ AnnouncedOnceOrLost'
      BY <1>1, <2>2, QuietStep
    <2> QED
      BY <1>1, <2>1, <2>3 DEF Inv, TypeInv
  <1> QED
    BY <1>3, <1>4 DEF HandleOrderReady

\* The first commit of a delivery is the assignment; a later one fails.
LEMMA InsertStep ==
    ASSUME Inv, NEW w \in Crew, InsertDelivery(w)
    PROVE  Inv' /\ [L!LivraisonNext]_L!livraisonVars
  <1> DEFINE o == crew[w].order
  <1>1. Works(w, "insert") /\ UNCHANGED <<uncovered, ready, announced, silenced, rejected>>
    BY DEF InsertDelivery
  <1>2. o \in Orders
    BY <1>1, HandShape DEF Inv, Works
  <1>3. w = "consumer" => inbox # <<>> /\ o = Head(inbox)
    BY <1>1 DEF Inv, QueueInv, Works
  <1>4. CASE delivery[o] # "NONE" /\ Ends(w) /\ UNCHANGED delivery
    <2>1. /\ QueueInv' /\ crew' \in [Crew -> Hands] /\ inbox' \in Seq(Orders)
          /\ Len(inbox') <= Len(ready')
      BY <1>1, <1>3, <1>4, EndsStep
    <2>2. IdleHand \in Hands /\ IdleHand.at # "publish" /\ crew' = [crew EXCEPT ![w] = IdleHand]
      BY <1>4 DEF Hands, IdleHand, Ends
    <2>3. ~Works(w, "publish")
      BY <1>1 DEF Works
    <2>4. Announcing' = Announcing /\ PublisherInv' /\ AnnouncedOnceOrLost'
      BY <1>1, <1>4, <2>2, <2>3, QuietStep
    <2> QED
      BY <1>1, <1>4, <2>1, <2>4 DEF Inv, TypeInv, L!livraisonVars
  <1>5. CASE /\ delivery[o] = "NONE"
             /\ delivery' = [delivery EXCEPT ![o] =
                                IF o \in uncovered THEN "FAILED" ELSE "ASSIGNED"]
             /\ Carries(w, "publish", o) /\ UNCHANGED inbox
    <2>1. delivery' \in [Orders -> L!DeliveryStatus] /\ delivery'[o] # "NONE"
      BY <1>2, <1>5 DEF Inv, TypeInv, L!DeliveryStatus
    <2>2. \A p \in Orders : delivery[p] # "NONE" => delivery'[p] # "NONE"
      BY <1>2, <1>5, <2>1 DEF Inv, TypeInv
    <2>3. \A p \in Orders : p # o => delivery'[p] = delivery[p]
      BY <1>2, <1>5 DEF Inv, TypeInv
    <2>4. QueueInv' /\ crew' \in [Crew -> Hands]
      BY <1>1, <1>2, <1>3, <1>5, <2>2, CarriesStep
    <2>5. \A v \in Crew : v # w => crew'[v] = crew[v]
      BY <1>5 DEF Carries, Inv, TypeInv
    <2>6. crew'[w] = [at |-> "publish", order |-> o]
      BY <1>5 DEF Carries, Inv, TypeInv
    <2>7. \A v \in Crew : Works(v, "publish") => crew[v].order \in Orders /\ crew[v].order # o
      BY <1>5, HandShape DEF Inv, PublisherInv, Works
    <2>8. o \notin Announcing /\ announced[o] = 0 /\ o \notin silenced
      <3>1. o \notin Announcing
        BY <2>7, AnnouncingAre
      <3> QED
        BY <1>2, <1>5, <3>1 DEF Inv, AnnouncedOnceOrLost
    <2>9. Announcing' = Announcing \cup {o}
      BY <1>1, <2>5, <2>6 DEF Announcing, Works
    <2>10. PublisherInv'
      <3> SUFFICES ASSUME NEW v \in Crew, Works(v, "publish")'
                   PROVE  /\ delivery'[crew'[v].order] # "NONE"
                          /\ announced'[crew'[v].order] = 0 /\ crew'[v].order \notin silenced'
                          /\ \A u \in Crew : Works(u, "publish")' /\ crew'[u].order = crew'[v].order
                                              => u = v
        BY DEF PublisherInv
      <3>1. CASE v = w
        BY <1>1, <2>1, <2>5, <2>6, <2>7, <2>8, <3>1 DEF Works
      <3>2. CASE v # w
        <4>1. crew'[v] = crew[v] /\ Works(v, "publish")
          BY <2>5, <3>2 DEF Works
        <4>2. crew[v].order \in Orders /\ crew[v].order # o
          BY <2>7, <4>1
        <4>3. delivery'[crew[v].order] = delivery[crew[v].order]
          BY <2>3, <4>2
        <4> QED
          BY <1>1, <2>5, <2>6, <4>1, <4>2, <4>3 DEF Inv, PublisherInv, Works
      <3> QED
        BY <3>1, <3>2
    <2>11. AnnouncedOnceOrLost'
      BY <1>1, <2>3, <2>9 DEF Inv, AnnouncedOnceOrLost
    <2>12. L!Assign(o)
      BY <1>5, <2>9 DEF L!Assign
    <2>13. TypeInv'
      BY <1>1, <1>5, <2>1, <2>4 DEF Inv, TypeInv
    <2> QED
      BY <1>2, <2>4, <2>10, <2>11, <2>12, <2>13 DEF Inv, L!LivraisonNext
  <1> QED
    BY <1>4, <1>5 DEF InsertDelivery

\* The only thread that announces an order ends, its verdict published or lost.
LEMMA PublishStep ==
    ASSUME Inv, NEW w \in Crew, Publish(w)
    PROVE  Inv' /\ L!LivraisonNext
  <1> DEFINE o == crew[w].order
  <1>1. Works(w, "publish") /\ Returns(w, o) /\ UNCHANGED <<delivery, uncovered, ready, rejected>>
    BY DEF Publish
  <1>2. o \in Orders /\ delivery[o] # "NONE" /\ announced[o] = 0 /\ o \notin silenced
    BY <1>1, HandShape DEF Inv, PublisherInv, Works
  <1>3. \/ announced' = [announced EXCEPT ![o] = @ + 1] /\ UNCHANGED silenced
        \/ silenced' = silenced \cup {o} /\ UNCHANGED announced
    BY DEF Publish
  <1>4. w = "consumer" => inbox # <<>> /\ o = Head(inbox)
    BY <1>1 DEF Inv, QueueInv, Works
  <1>5. QueueInv' /\ crew' \in [Crew -> Hands] /\ inbox' = inbox
    BY <1>1, <1>2, <1>4, ReturnsStep
  <1>6. PICK h \in Hands : h.at # "publish" /\ crew' = [crew EXCEPT ![w] = h]
    BY <1>1, <1>2, <1>4, ReturnsStep
  <1>7. ~Works(w, "publish")' /\ \A v \in Crew : v # w => crew'[v] = crew[v]
    BY <1>6 DEF Inv, TypeInv, Works
  <1>8. \A v \in Crew : v # w /\ Works(v, "publish") => crew[v].order \in Orders /\ crew[v].order # o
    BY <1>1, HandShape DEF Inv, PublisherInv, Works
  <1>9. \A p : p \in Announcing' <=> p \in Announcing /\ p # o
    BY <1>1, <1>7, <1>8 DEF Announcing, Works
  <1>10. /\ announced' \in [Orders -> Nat] /\ silenced' \subseteq Orders
         /\ announced'[o] + (IF o \in silenced' THEN 1 ELSE 0) = 1
         /\ \A p \in Orders : p # o => /\ announced'[p] = announced[p]
                                       /\ p \in silenced' <=> p \in silenced
    BY <1>2, <1>3 DEF Inv, TypeInv
  <1>11. PublisherInv'
    <2> SUFFICES ASSUME NEW v \in Crew, Works(v, "publish")'
                 PROVE  /\ delivery'[crew'[v].order] # "NONE"
                        /\ announced'[crew'[v].order] = 0 /\ crew'[v].order \notin silenced'
                        /\ \A u \in Crew : Works(u, "publish")' /\ crew'[u].order = crew'[v].order
                                            => u = v
      BY DEF PublisherInv
    <2>1. v # w /\ crew'[v] = crew[v] /\ Works(v, "publish")
      BY <1>7 DEF Works
    <2>2. crew[v].order \in Orders /\ crew[v].order # o
      BY <1>8, <2>1
    <2>3. /\ delivery'[crew[v].order] # "NONE"
          /\ announced'[crew[v].order] = 0 /\ crew[v].order \notin silenced'
      BY <1>1, <1>10, <2>1, <2>2 DEF Inv, PublisherInv
    <2>4. ASSUME NEW u \in Crew, Works(u, "publish")', crew'[u].order = crew'[v].order
          PROVE  u = v
      <3>1. u # w /\ crew'[u] = crew[u] /\ Works(u, "publish")
        BY <1>7, <2>4 DEF Works
      <3> QED
        BY <2>1, <2>4, <3>1 DEF Inv, PublisherInv
    <2> QED
      BY <2>1, <2>3, <2>4
  <1>12. AnnouncedOnceOrLost'
    <2> SUFFICES ASSUME NEW p \in Orders, p \notin Announcing'
                 PROVE  IF delivery[p] = "NONE" THEN announced'[p] = 0 /\ p \notin silenced'
                        ELSE announced'[p] + (IF p \in silenced' THEN 1 ELSE 0) = 1
      BY <1>1 DEF AnnouncedOnceOrLost
    <2>1. CASE p = o
      BY <1>2, <1>10, <2>1
    <2>2. CASE p # o
      <3>1. /\ p \notin Announcing /\ announced'[p] = announced[p]
            /\ p \in silenced' <=> p \in silenced
        BY <1>9, <1>10, <2>2
      <3> QED
        BY <3>1 DEF Inv, AnnouncedOnceOrLost
    <2> QED
      BY <2>1, <2>2
  <1>13. TypeInv'
    BY <1>1, <1>5, <1>10 DEF Inv, TypeInv
  <1>14. L!Announced(o)
    <2>1. o \in Announcing
      BY <1>1, AnnouncingAre
    <2>2. Announcing' = Announcing \ {o}
      BY <1>9
    <2> QED
      BY <1>1, <2>1, <2>2 DEF L!Announced
  <1> QED
    BY <1>2, <1>5, <1>11, <1>12, <1>13, <1>14 DEF Inv, L!LivraisonNext

LEMMA RaisesStep ==
    ASSUME Inv, NEW w \in Crew, Raises(w)
    PROVE  Inv' /\ UNCHANGED <<delivery, Announcing>>
  <1>1. /\ Works(w, "insert") /\ Ends(w)
        /\ UNCHANGED <<delivery, uncovered, ready, announced, silenced>>
    BY DEF Raises
  <1>2. w = "consumer" => inbox # <<>> /\ crew[w].order = Head(inbox)
    BY <1>1 DEF Inv, QueueInv, Works
  <1>3. rejected \subseteq rejected' /\ (w = "consumer" => Head(inbox) \in rejected')
    BY <1>2 DEF Raises
  <1>4. /\ QueueInv' /\ crew' \in [Crew -> Hands] /\ inbox' \in Seq(Orders)
        /\ Len(inbox') <= Len(ready')
    BY <1>1, <1>2, <1>3, EndsStep
  <1>5. IdleHand \in Hands /\ IdleHand.at # "publish" /\ crew' = [crew EXCEPT ![w] = IdleHand]
    BY <1>1 DEF Hands, IdleHand, Ends
  <1>6. ~Works(w, "publish")
    BY <1>1 DEF Works
  <1>7. Announcing' = Announcing /\ PublisherInv' /\ AnnouncedOnceOrLost'
    BY <1>1, <1>5, <1>6, QuietStep
  <1> QED
    BY <1>1, <1>4, <1>7 DEF Inv, TypeInv

\* The consumer acknowledges a message whose order has a delivery.
LEMMA AcknowledgeStep ==
    ASSUME Inv, Acknowledge
    PROVE  Inv' /\ UNCHANGED <<delivery, Announcing>>
  <1>1. /\ Works("consumer", "ack") /\ Ends("consumer") /\ "consumer" \in Crew
        /\ UNCHANGED <<delivery, uncovered, ready, announced, silenced, rejected>>
    BY DEF Acknowledge, Crew
  <1>2. inbox # <<>> /\ delivery[Head(inbox)] # "NONE"
    BY <1>1 DEF Inv, QueueInv, Works
  <1>3. /\ QueueInv' /\ crew' \in [Crew -> Hands] /\ inbox' \in Seq(Orders)
        /\ Len(inbox') <= Len(ready')
    BY <1>1, <1>2, EndsStep
  <1>4. /\ IdleHand \in Hands /\ IdleHand.at # "publish"
        /\ crew' = [crew EXCEPT !["consumer"] = IdleHand]
    BY <1>1 DEF Hands, IdleHand, Ends
  <1>5. ~Works("consumer", "publish")
    BY <1>1 DEF Works
  <1>6. Announcing' = Announcing /\ PublisherInv' /\ AnnouncedOnceOrLost'
    BY <1>1, <1>4, <1>5, QuietStep
  <1> QED
    BY <1>1, <1>3, <1>6 DEF Inv, TypeInv

\* Livraison stops: every announcement that was due is lost, no message is.
LEMMA StopsStep ==
    ASSUME Inv, Stops
    PROVE  Inv' /\ L!LivraisonNext
  <1>1. /\ crew' = [w \in Crew |-> IdleHand] /\ silenced' = silenced \cup Announcing
        /\ UNCHANGED <<delivery, uncovered, inbox, ready, announced, rejected>>
    BY DEF Stops
  <1>2. \A w \in Crew : ~Works(w, "publish")' /\ Works(w, "idle")'
    BY <1>1 DEF Works, IdleHand
  <1>3. Announcing' = {}
    BY <1>2 DEF Announcing
  <1>4. \A o \in Announcing : o \in Orders /\ delivery[o] # "NONE" /\ announced[o] = 0
    BY AnnouncingAre, HandShape DEF Inv, PublisherInv, Works
  <1>5. TypeInv' /\ PublisherInv'
    BY <1>1, <1>2, <1>4 DEF Inv, TypeInv, PublisherInv, Hands
  <1>6. AnnouncedOnceOrLost'
    <2> SUFFICES ASSUME NEW o \in Orders
                 PROVE  IF delivery[o] = "NONE" THEN announced[o] = 0 /\ o \notin silenced'
                        ELSE announced[o] + (IF o \in silenced' THEN 1 ELSE 0) = 1
      BY <1>1, <1>3 DEF AnnouncedOnceOrLost
    <2>1. CASE o \in Announcing
      BY <1>1, <1>4, <2>1
    <2>2. CASE o \notin Announcing
      BY <1>1, <2>2 DEF Inv, AnnouncedOnceOrLost
    <2> QED
      BY <2>1, <2>2
  <1>7. QueueInv'
    <2>1. "consumer" \in Crew
      BY DEF Crew
    <2> QED
      BY <1>1, <1>2, <2>1 DEF Inv, QueueInv, TakenIsDelivered, Works
  <1>8. L!Halts
    BY <1>1, <1>3 DEF L!Halts
  <1> QED
    BY <1>5, <1>6, <1>7, <1>8 DEF Inv, L!LivraisonNext

LEMMA Step ==
    Inv /\ [LivraisonSessionsNext]_deliveryVars =>
        Inv' /\ [L!LivraisonNext]_L!livraisonVars
  <1> SUFFICES ASSUME Inv, [LivraisonSessionsNext]_deliveryVars
               PROVE  Inv' /\ [L!LivraisonNext]_L!livraisonVars
    OBVIOUS
  <1>1. CASE UNCHANGED deliveryVars
    <2>1. UNCHANGED <<delivery, crew, inbox, ready, announced, silenced, rejected>>
      BY <1>1 DEF deliveryVars
    <2>2. Announcing' = Announcing
      BY <2>1 DEF Announcing, Works
    <2>3. TypeInv' /\ PublisherInv' /\ AnnouncedOnceOrLost'
      BY <2>1, <2>2 DEF Inv, TypeInv, PublisherInv, AnnouncedOnceOrLost, Works
    <2>4. QueueInv'
      BY <2>1 DEF Inv, QueueInv, TakenIsDelivered, Works
    <2> QED
      BY <2>1, <2>2, <2>3, <2>4 DEF Inv, L!livraisonVars
  <1>2. CASE \E o \in Orders : Published(o)
    BY <1>2, PublishedStep DEF L!livraisonVars
  <1>3. ASSUME NEW w \in Crew,
               \/ \E o \in Orders : HandleOrderReady(w, o)
               \/ InsertDelivery(w) \/ Publish(w) \/ Raises(w)
        PROVE  Inv' /\ [L!LivraisonNext]_L!livraisonVars
    BY <1>3, HandleStep, InsertStep, PublishStep, RaisesStep DEF L!livraisonVars
  <1>4. CASE Acknowledge
    BY <1>4, AcknowledgeStep DEF L!livraisonVars
  <1>5. CASE Stops
    BY <1>5, StopsStep
  <1> QED
    BY <1>1, <1>2, <1>3, <1>4, <1>5 DEF LivraisonSessionsNext

-----------------------------------------------------------------------------

\* Whatever the consumer, the requests and the stops do, an order is assigned once and
\* announced once at most: what FoodExpress composes (service.handle_order_ready).
THEOREM LivraisonPromiseKept == LivraisonSessionsSpec => LivraisonPromise
  BY InitInv, Step, PTL DEF LivraisonSessionsSpec, LivraisonPromise, L!LivraisonSpec

\* A verdict is announced exactly once, or was lost by the broker or a stop, whatever
\* the number of threads that handle the order (service.handle_order_ready).
THEOREM AnnouncementSafety == LivraisonSessionsSpec => []AnnouncedOnceOrLost
  <1>1. Inv => AnnouncedOnceOrLost
    BY DEF Inv
  <1> QED
    BY <1>1, InitInv, Step, PTL DEF LivraisonSessionsSpec

\* A READY message is taken off its queue with a delivery behind it, unless the database
\* refused its commit (messaging.start_consumer, service.handle_order_ready).
THEOREM MessageSafety == LivraisonSessionsSpec => []TakenIsDelivered
  <1>1. Inv => TakenIsDelivered
    BY DEF Inv, QueueInv
  <1> QED
    BY <1>1, InitInv, Step, PTL DEF LivraisonSessionsSpec

-----------------------------------------------------------------------------
(* Restaurant and Livraison together.                                       *)

LivraisonTypeInv ==
    /\ TypeInv
    /\ uncovered \subseteq Orders /\ rejected \subseteq Orders /\ Len(ready) <= MaxReady

LEMMA LivraisonTypeStep ==
    ASSUME Inv, Inv', LivraisonTypeInv, [LivraisonSessionsNext]_deliveryVars
    PROVE  LivraisonTypeInv'
  <1>1. uncovered' \subseteq Orders
    BY DEF LivraisonTypeInv, LivraisonSessionsNext, Published, HandleOrderReady,
           InsertDelivery, Publish, Raises, Acknowledge, Stops, deliveryVars
  <1>2. rejected' \subseteq Orders
    <2>1. \A w \in Crew : Works(w, "insert") => crew[w].order \in Orders
      BY HandShape DEF Inv, Works
    <2> QED
      BY <2>1 DEF LivraisonTypeInv, LivraisonSessionsNext, Published, HandleOrderReady,
                  InsertDelivery, Publish, Raises, Acknowledge, Stops, deliveryVars
  <1>3. Len(ready') <= MaxReady
    <2>1. ASSUME NEW o \in Orders, Published(o) PROVE Len(ready') <= MaxReady
      BY <2>1, MaxReadyAssumption DEF Published, Inv, TypeInv
    <2>2. CASE UNCHANGED ready
      BY <2>2 DEF LivraisonTypeInv
    <2> QED
      BY <2>1, <2>2 DEF LivraisonSessionsNext, HandleOrderReady, InsertDelivery, Publish,
                        Raises, Acknowledge, Stops, deliveryVars
  <1> QED
    BY <1>1, <1>2, <1>3 DEF Inv, LivraisonTypeInv

\* Rows, threads, queues and announcements keep the shape the code gives them.
THEOREM LivraisonTypeSafety == LivraisonSessionsSpec => []LivraisonTypeOK
  <1>1. LivraisonSessionsInit => LivraisonTypeInv
    <2> SUFFICES ASSUME LivraisonSessionsInit PROVE LivraisonTypeInv
      OBVIOUS
    <2>1. TypeInv
      BY InitInv DEF Inv
    <2> QED
      BY <2>1, MaxReadyAssumption DEF LivraisonSessionsInit, LivraisonTypeInv
  <1>2. LivraisonTypeInv => LivraisonTypeOK
    BY DEF LivraisonTypeInv, TypeInv, LivraisonTypeOK, Hands
  <1> QED
    BY <1>1, <1>2, InitInv, Step, LivraisonTypeStep, PTL DEF LivraisonSessionsSpec

\* The two services never call each other: each step of the two is a step of one that
\* leaves the other as it is.
LEMMA Together == Spec => RestaurantSessionsSpec /\ LivraisonSessionsSpec
  <1>1. [Next]_vars => /\ [RestaurantSessionsNext]_restaurantVars
                       /\ [LivraisonSessionsNext]_deliveryVars
    BY DEF Next, vars, restaurantVars, deliveryVars
  <1> QED
    BY <1>1, PTL DEF Spec, Init, RestaurantSessionsSpec, LivraisonSessionsSpec

\* Whatever both do at once, their state keeps its shape (Restaurant and Livraison,
\* service.py).
THEOREM TypeSafety == Spec => []TypeOK
  <1>1. RestaurantTypeOK /\ LivraisonTypeOK => TypeOK
    BY DEF TypeOK
  <1> QED
    BY <1>1, Together, RestaurantTypeSafety, LivraisonTypeSafety, PTL

\* And both keep what FoodExpress composes: its saga may be checked against the atomic
\* endpoints of Restaurant and the one assignment per order of Livraison.
THEOREM PromisesKept == Spec => RestaurantPromise /\ LivraisonPromise
  BY Together, RestaurantPromiseKept, LivraisonPromiseKept, PTL
=============================================================================
