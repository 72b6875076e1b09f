----------------------------- MODULE FrontProofs -----------------------------
(* For any number of clients, threads and connections: what is taken stays   *)
(* within the limits, the answer to a client tells what became of its order,  *)
(* and only requests that the gateway gave up can stop Commande.             *)
EXTENDS Front, Integers, FiniteSetTheorems, TLAPS

Ats == {"idle", "pool", "sent", "over"}
Legs == [at : Ats, n : 1..Attempts, code : Codes]

Shape ==
    /\ leg \in [Forwards -> Legs]
    /\ stage \in [Jobs -> C!Stages] /\ task \in [Tasks -> {"rests", "works"}]
    /\ placed \subseteq Placing

Sent(s) == {f \in Forwards : Service(f) = s /\ Is(f, "sent")}
Running == {j \in Jobs : stage[j] \in C!InThread}

Limits ==
    /\ \A s \in Services : Cardinality(Sent(s)) <= Pool[s]
    /\ Cardinality(Running) <= Threads

\* The one forward and the one request of a client that places an order.
Post(r) == <<r, "commande">>
Job(r) == <<r, 1>>

\* A request comes after its connection and never after a refusal; it returns an order
\* that is committed, and so does the gateway.
Tells ==
    \A r \in Posts :
        /\ leg[Post(r)].at # "over" => leg[Post(r)].code = "none"
        /\ leg[Post(r)].at \in {"idle", "pool"} => stage[Job(r)] = "none"
        /\ leg[Post(r)].code = "full" => stage[Job(r)] = "none"
        /\ stage[Job(r)] \in {"rereads", "leaves"} => Job(r) \in placed
        /\ leg[Post(r)].code = "done" => Job(r) \in placed

Inv == Shape /\ Limits /\ Tells

-----------------------------------------------------------------------------
(* The sets of forwards and of requests.                                    *)

LEMMA PostsAndJobs ==
    ASSUME NEW r \in Posts
    PROVE  /\ Post(r) \in Forwards /\ Tries(Post(r)) = 1
           /\ Job(r) \in Jobs /\ Job(r) \in Placing /\ ToCommande(Job(r)) = Post(r)
           /\ \A j \in Jobs : j[1] = r => j = Job(r)
           /\ \A f \in Forwards : Client(f) = r => f = Post(r)
  <1>1. r \in Clients /\ r \notin Trackings
    BY ClientsAssumption DEF Clients
  <1>2. \A n : Tries(<<r, "commande">>) = 1
    BY <1>1 DEF Tries, Client
  <1>3. 1 \in 1..Attempts
    BY AttemptsAssumption
  <1>4. Post(r) \in Forwards /\ Job(r) \in Jobs /\ Job(r) \in Placing
    BY <1>1, <1>2, <1>3 DEF Forwards, Jobs, Placing, Post, Job
  <1>5. ASSUME NEW j \in Jobs, j[1] = r PROVE j = Job(r)
    BY <1>2, <1>5, AttemptsAssumption DEF Jobs, Job
  <1>6. ASSUME NEW f \in Forwards, Client(f) = r PROVE f = Post(r)
    BY <1>1, <1>6 DEF Forwards, Client, Post
  <1> QED
    BY <1>2, <1>4, <1>5, <1>6 DEF Post, Job, ToCommande

LEMMA SetsAreFinite ==
    /\ IsFiniteSet(Forwards) /\ IsFiniteSet(Jobs)
    /\ \A s \in Services : IsFiniteSet(Sent(s)) /\ Sent(s) \subseteq Forwards
    /\ IsFiniteSet(Running) /\ Running \subseteq Jobs
  <1>1. IsFiniteSet(Clients) /\ IsFiniteSet(Trackings)
    BY ClientsAssumption, FS_Union DEF Clients
  <1>2. IsFiniteSet({"commande"}) /\ IsFiniteSet({"livraison"})
    BY FS_Singleton
  <1>3. IsFiniteSet(Clients \X {"commande"}) /\ IsFiniteSet(Trackings \X {"livraison"})
    BY <1>1, <1>2, FS_Product
  <1>4. IsFiniteSet(Forwards)
    BY <1>3, FS_Union DEF Forwards
  <1>5. IsFiniteSet(1..Attempts)
    BY AttemptsAssumption, FS_Interval
  <1>6. IsFiniteSet(Clients \X (1..Attempts))
    BY <1>1, <1>5, FS_Product
  <1>7. Jobs \subseteq Clients \X (1..Attempts)
    BY DEF Jobs
  <1>8. IsFiniteSet(Jobs)
    BY <1>6, <1>7, FS_Subset
  <1>9. Running \subseteq Jobs /\ \A s \in Services : Sent(s) \subseteq Forwards
    BY DEF Running, Sent
  <1> QED
    BY <1>4, <1>8, <1>9, FS_Subset

-----------------------------------------------------------------------------
(* What a step does to one forward.                                         *)

LEMMA MovesTo ==
    ASSUME leg \in [Forwards -> Legs], NEW f \in Forwards, NEW place \in Ats, Moves(f, place)
    PROVE  \E l \in Legs :
              /\ leg' = [leg EXCEPT ![f] = l]
              /\ l.at = place /\ l.n = leg[f].n /\ l.code = leg[f].code
  <1> DEFINE l == [leg[f] EXCEPT !.at = place]
  <1>1. leg[f] \in Legs
    OBVIOUS
  <1>2. l \in Legs
    BY <1>1 DEF Legs, Ats, Codes
  <1>3. leg' = [leg EXCEPT ![f] = l]
    BY <1>1 DEF Legs, Ats, Codes, Moves
  <1>4. l.at = place /\ l.n = leg[f].n /\ l.code = leg[f].code
    BY <1>1 DEF Legs, Ats, Codes
  <1> HIDE DEF l
  <1> QED
    BY <1>2, <1>3, <1>4

Replays(f) == leg' = [leg EXCEPT ![f].at = "pool", ![f].n = @ + 1]

LEMMA ReplaysTo ==
    ASSUME leg \in [Forwards -> Legs], NEW f \in Forwards, leg[f].n < Tries(f), Replays(f)
    PROVE  \E l \in Legs :
              /\ leg' = [leg EXCEPT ![f] = l]
              /\ l.at = "pool" /\ l.code = leg[f].code
  <1> DEFINE l == [leg[f] EXCEPT !.at = "pool", !.n = leg[f].n + 1]
  <1>1. leg[f] \in Legs
    OBVIOUS
  <1>2. leg[f].n + 1 \in 1..Attempts
    BY <1>1, AttemptsAssumption DEF Legs, Tries
  <1>3. l \in Legs
    BY <1>1, <1>2 DEF Legs, Ats, Codes
  <1>4. leg' = [leg EXCEPT ![f] = l]
    BY <1>1 DEF Legs, Ats, Codes, Replays
  <1>5. l.at = "pool" /\ l.code = leg[f].code
    BY <1>1 DEF Legs, Ats, Codes
  <1> HIDE DEF l
  <1> QED
    BY <1>3, <1>4, <1>5

\* Forward f goes from where it is to l.
Goes(f, l) ==
    /\ leg' = [leg EXCEPT ![f] = l]
    /\ \/ leg[f].at = "pool" /\ l.at = "sent" /\ l.code = leg[f].code
          /\ Open(Service(f)) < Pool[Service(f)]
       \/ leg[f].at = "pool" /\ l.at = "over" /\ l.code = "full"
       \/ leg[f].at = "sent" /\ l.at = "over" /\ l.code = "lost"
       \/ leg[f].at = "sent" /\ l.at = "pool" /\ l.code = leg[f].code
          /\ leg[f].n < Tries(f)

LEMMA ConcludesAt ==
    ASSUME leg \in [Forwards -> Legs], NEW f \in Forwards, NEW code \in Codes,
           Concludes(f, code)
    PROVE  \E l \in Legs : leg' = [leg EXCEPT ![f] = l] /\ l.at = "over" /\ l.code = code
  <1> DEFINE l == [at |-> "over", n |-> 1, code |-> code]
  <1>1. l \in Legs /\ l.at = "over" /\ l.code = code
    BY AttemptsAssumption DEF Legs, Ats
  <1>2. leg' = [leg EXCEPT ![f] = l]
    BY DEF Concludes
  <1> HIDE DEF l
  <1> QED
    BY <1>1, <1>2

LEMMA GatewayGoes ==
    ASSUME Shape, NEW f \in Forwards,
           Connect(f) \/ PoolTimeout(f) \/ TimeoutException(f) \/ TransportError(f)
    PROVE  \E l \in Legs : Goes(f, l)
  <1>1. leg \in [Forwards -> Legs] /\ leg[f] \in Legs
    BY DEF Shape
  <1>2. CASE Connect(f)
    <2>1. "sent" \in Ats
      BY DEF Ats
    <2> QED
      BY <1>1, <1>2, <2>1, MovesTo DEF Connect, Is, Goes
  <1>3. ASSUME NEW code \in Codes, Concludes(f, code),
               \/ leg[f].at = "pool" /\ code = "full"
               \/ leg[f].at = "sent" /\ code = "lost"
        PROVE  \E l \in Legs : Goes(f, l)
    BY <1>1, <1>3, ConcludesAt DEF Goes
  <1>4. CASE PoolTimeout(f)
    BY <1>3, <1>4 DEF PoolTimeout, Is, Codes
  <1>5. CASE Is(f, "sent") /\ Concludes(f, "lost")
    BY <1>3, <1>5 DEF Is, Codes
  <1>6. CASE Is(f, "sent") /\ leg[f].n < Tries(f) /\ Replays(f)
    BY <1>1, <1>6, ReplaysTo DEF Is, Goes
  <1>7. TransportError(f) => \/ Is(f, "sent") /\ Concludes(f, "lost")
                             \/ Is(f, "sent") /\ leg[f].n < Tries(f) /\ Replays(f)
    BY DEF TransportError, Replays
  <1> QED
    BY <1>2, <1>4, <1>5, <1>6, <1>7 DEF TimeoutException

\* The connections after the change of one forward.
LEMMA SentAfter ==
    ASSUME leg \in [Forwards -> Legs], NEW f \in Forwards, NEW l \in Legs,
           leg' = [leg EXCEPT ![f] = l], NEW s \in Services
    PROVE  /\ Sent(s)' \subseteq Sent(s) \cup (IF l.at = "sent" /\ Service(f) = s THEN {f} ELSE {})
           /\ leg' \in [Forwards -> Legs] /\ leg'[f] = l
           /\ \A g \in Forwards : g # f => leg'[g] = leg[g]
  BY DEF Sent, Is

LEMMA ConnectionLimit ==
    ASSUME Shape, Limits, NEW f \in Forwards, NEW l \in Legs,
           leg' = [leg EXCEPT ![f] = l],
           l.at = "sent" => Open(Service(f)) < Pool[Service(f)]
    PROVE  \A s \in Services : Cardinality(Sent(s)') <= Pool[s]
  <1> SUFFICES ASSUME NEW s \in Services PROVE Cardinality(Sent(s)') <= Pool[s]
    OBVIOUS
  <1>1. Sent(s)' \subseteq Sent(s) \cup (IF l.at = "sent" /\ Service(f) = s THEN {f} ELSE {})
    BY SentAfter DEF Shape
  <1>2. /\ IsFiniteSet(Sent(s)) /\ Cardinality(Sent(s)) \in Nat
        /\ Cardinality(Sent(s)) <= Pool[s] /\ Pool[s] \in Nat
    BY SetsAreFinite, FS_CardinalityType, PoolAssumption DEF Limits
  <1>3. CASE l.at = "sent" /\ Service(f) = s
    <2>1. Cardinality(Sent(s)) < Pool[s]
      BY <1>3 DEF Open, Sent
    <2>2. /\ IsFiniteSet(Sent(s) \cup {f})
          /\ Cardinality(Sent(s) \cup {f}) <= Cardinality(Sent(s)) + 1
      BY <1>2, FS_AddElement
    <2>3. /\ Cardinality(Sent(s)') <= Cardinality(Sent(s) \cup {f})
          /\ Cardinality(Sent(s) \cup {f}) \in Nat /\ Cardinality(Sent(s)') \in Nat
      BY <1>1, <1>3, <2>2, FS_Subset, FS_CardinalityType
    <2> QED
      BY <1>2, <2>1, <2>2, <2>3
  <1>4. CASE ~(l.at = "sent" /\ Service(f) = s)
    <2>1. Sent(s)' \subseteq Sent(s)
      BY <1>1, <1>4
    <2>2. Cardinality(Sent(s)') <= Cardinality(Sent(s)) /\ Cardinality(Sent(s)') \in Nat
      BY <1>2, <2>1, FS_Subset, FS_CardinalityType
    <2> QED
      BY <1>2, <2>2
  <1> QED
    BY <1>3, <1>4

-----------------------------------------------------------------------------
(* What a step does to one request.                                         *)

LEMMA StageAfter ==
    ASSUME Shape, NEW j \in Jobs, NEW s \in C!Stages, C!Enters(j, s)
    PROVE  /\ stage' \in [Jobs -> C!Stages] /\ stage'[j] = s
           /\ \A k \in Jobs : k # j => stage'[k] = stage[k]
           /\ Running' \subseteq Running \cup (IF s \in C!InThread THEN {j} ELSE {})
  BY DEF Shape, C!Enters, Running

\* The count of CommandeThreads is that of this module.
LEMMA SameCount == ASSUME NEW S PROVE C!Cardinality(S) = Cardinality(S)
  BY DEF C!Cardinality, Cardinality

LEMMA ThreadLimit ==
    ASSUME Shape, Limits, NEW j \in Jobs, NEW s \in C!Stages, C!Enters(j, s),
           s \in C!InThread => stage[j] \in C!InThread \/ C!ThreadIsFree
    PROVE  Cardinality(Running') <= Threads
  <1>1. Running' \subseteq Running \cup (IF s \in C!InThread THEN {j} ELSE {})
    BY StageAfter
  <1>2. /\ IsFiniteSet(Running) /\ Cardinality(Running) \in Nat
        /\ Cardinality(Running) <= Threads /\ Threads \in Nat
    BY SetsAreFinite, FS_CardinalityType, ThreadsAssumption DEF Limits
  <1>3. CASE s \in C!InThread /\ stage[j] \notin C!InThread
    <2>1. Cardinality(Running) < Threads
      BY <1>3, SameCount DEF C!ThreadIsFree, Running
    <2>2. /\ IsFiniteSet(Running \cup {j})
          /\ Cardinality(Running \cup {j}) <= Cardinality(Running) + 1
      <3>1. /\ IsFiniteSet(Running \cup {j})
            /\ Cardinality(Running \cup {j}) \in {Cardinality(Running), Cardinality(Running) + 1}
        BY <1>2, FS_AddElement
      <3> QED
        BY <1>2, <3>1
    <2>3. /\ Cardinality(Running') <= Cardinality(Running \cup {j})
          /\ Cardinality(Running \cup {j}) \in Nat /\ Cardinality(Running') \in Nat
      BY <1>1, <1>3, <2>2, FS_Subset, FS_CardinalityType
    <2> QED
      BY <1>2, <2>1, <2>2, <2>3
  <1>4. CASE ~(s \in C!InThread /\ stage[j] \notin C!InThread)
    <2>1. Running' \subseteq Running
      BY <1>1, <1>4 DEF Running
    <2>2. Cardinality(Running') <= Cardinality(Running) /\ Cardinality(Running') \in Nat
      BY <1>2, <2>1, FS_Subset, FS_CardinalityType
    <2> QED
      BY <1>2, <2>2
  <1> QED
    BY <1>3, <1>4

-----------------------------------------------------------------------------
(* The steps.                                                               *)

LEMMA InitInv == Init => Inv
  <1> SUFFICES ASSUME Init PROVE Inv
    OBVIOUS
  <1>1. leg = [f \in Forwards |-> [at |-> "idle", n |-> 1, code |-> "none"]]
    BY DEF Init, GatewayInit
  <1>2. [at |-> "idle", n |-> 1, code |-> "none"] \in Legs
    BY AttemptsAssumption DEF Legs, Ats, Codes
  <1>3. \A f \in Forwards : leg[f].at = "idle" /\ leg[f].code = "none"
    BY <1>1
  <1>4. /\ stage = [j \in Jobs |-> "none"] /\ task = [b \in Tasks |-> "rests"]
        /\ placed = {}
    BY DEF Init, C!CommandeThreadsInit
  <1>5. Shape
    <2> HIDE DEF Legs
    <2> QED
      BY <1>1, <1>2, <1>4 DEF Shape, C!Stages
  <1>6. Running = {} /\ \A s \in Services : Sent(s) = {}
    BY <1>3, <1>4 DEF Running, Sent, Is, C!InThread
  <1>7. Limits
    BY <1>6, FS_EmptySet, PoolAssumption, ThreadsAssumption DEF Limits
  <1>8. Tells
    BY <1>3, <1>4, PostsAndJobs DEF Tells
  <1> QED
    BY <1>5, <1>7, <1>8 DEF Inv

\* A client's request is relayed.
LEMMA ReceiveStep ==
    ASSUME Inv, NEW r \in Clients, Receive(r), UNCHANGED commandeVars
    PROVE  Inv'
  <1>1. stage' = stage /\ task' = task /\ placed' = placed
    BY DEF commandeVars
  <1>2. leg \in [Forwards -> Legs]
    BY DEF Inv, Shape
  <1>3. ASSUME NEW f \in Forwards
        PROVE  /\ leg'[f] \in Legs
               /\ leg'[f].code = leg[f].code
               /\ leg'[f].at = IF Client(f) = r THEN "pool" ELSE leg[f].at
    <2>1. leg[f] \in Legs
      BY <1>2
    <2>2. leg'[f] = IF Client(f) = r THEN [leg[f] EXCEPT !.at = "pool"] ELSE leg[f]
      BY DEF Receive
    <2> QED
      BY <2>1, <2>2 DEF Legs, Ats, Codes
  <1>4. leg' \in [Forwards -> Legs]
    BY <1>3 DEF Receive
  <1>5. Shape'
    BY <1>1, <1>4 DEF Inv, Shape
  <1>6. Running' = Running /\ \A s \in Services : Sent(s)' \subseteq Sent(s)
    BY <1>1, <1>3 DEF Running, Sent, Is
  <1>7. Limits'
    <2> SUFFICES ASSUME NEW s \in Services PROVE Cardinality(Sent(s)') <= Pool[s]
      BY <1>6 DEF Inv, Limits
    <2>1. /\ IsFiniteSet(Sent(s)) /\ Cardinality(Sent(s)) \in Nat
          /\ Cardinality(Sent(s)) <= Pool[s] /\ Pool[s] \in Nat
      BY SetsAreFinite, FS_CardinalityType, PoolAssumption DEF Inv, Limits
    <2>2. Cardinality(Sent(s)') <= Cardinality(Sent(s)) /\ Cardinality(Sent(s)') \in Nat
      BY <1>6, <2>1, FS_Subset, FS_CardinalityType
    <2> QED
      BY <2>1, <2>2
  <1>8. Tells'
    <2> SUFFICES ASSUME NEW p \in Posts
                 PROVE  /\ leg'[Post(p)].at # "over" => leg'[Post(p)].code = "none"
                        /\ leg'[Post(p)].at \in {"idle", "pool"} => stage[Job(p)] = "none"
                        /\ leg'[Post(p)].code = "full" => stage[Job(p)] = "none"
                        /\ stage[Job(p)] \in {"rereads", "leaves"} => Job(p) \in placed
                        /\ leg'[Post(p)].code = "done" => Job(p) \in placed
      BY <1>1 DEF Tells
    <2>1. Post(p) \in Forwards /\ Client(Post(p)) = p
      BY PostsAndJobs DEF Client, Post
    <2>2. /\ leg'[Post(p)].code = leg[Post(p)].code
          /\ leg'[Post(p)].at = IF p = r THEN "pool" ELSE leg[Post(p)].at
      BY <1>3, <2>1
    <2>3. p = r => leg[Post(p)].at = "idle"
      BY DEF Receive, Is, Post
    <2> QED
      BY <2>2, <2>3 DEF Inv, Tells
  <1> QED
    BY <1>5, <1>7, <1>8 DEF Inv

\* The gateway goes on with a forward, or gets the answer of Livraison.
LEMMA GatewayStep ==
    ASSUME Inv, NEW f \in Forwards, GatewaySteps(f), UNCHANGED commandeVars
    PROVE  Inv'
  <1>1. stage' = stage /\ task' = task /\ placed' = placed /\ leg \in [Forwards -> Legs]
    BY DEF commandeVars, Inv, Shape
  <1>2. \E l \in Legs : \/ Goes(f, l)
                        \/ /\ leg' = [leg EXCEPT ![f] = l] /\ l.at = "over"
                           /\ Service(f) = "livraison"
    <2>1. CASE Service(f) = "livraison" /\ Answered(f, "done")
      BY <1>1, <2>1, ConcludesAt DEF Answered, Codes
    <2> QED
      BY <2>1, GatewayGoes DEF GatewaySteps, Inv
  <1>3. PICK l \in Legs : \/ Goes(f, l)
                          \/ /\ leg' = [leg EXCEPT ![f] = l] /\ l.at = "over"
                             /\ Service(f) = "livraison"
    BY <1>2
  <1>4. /\ leg' = [leg EXCEPT ![f] = l]
        /\ l.at = "sent" => Open(Service(f)) < Pool[Service(f)]
    BY <1>3 DEF Goes
  <1>5. leg' \in [Forwards -> Legs] /\ leg'[f] = l
        /\ \A g \in Forwards : g # f => leg'[g] = leg[g]
    BY <1>1, <1>4
  <1>6. Shape'
    BY <1>1, <1>5 DEF Inv, Shape
  <1>7. Limits'
    <2>1. \A s \in Services : Cardinality(Sent(s)') <= Pool[s]
      BY <1>4, ConnectionLimit DEF Inv
    <2> QED
      BY <1>1, <2>1 DEF Inv, Limits, Running
  <1>8. ASSUME NEW r \in Posts, f = Post(r)
        PROVE  /\ l.at # "over" => l.code = "none"
               /\ l.at # "idle" /\ l.at # "pool"
               /\ l.code = "full" => stage[Job(r)] = "none"
               /\ l.code # "done"
    <2>1. /\ leg[f].at # "over" => leg[f].code = "none"
          /\ leg[f].at = "pool" => stage[Job(r)] = "none"
      BY <1>8 DEF Inv, Tells
    <2>2. leg[f].n >= 1 /\ Tries(f) = 1 /\ ~(leg[f].n < Tries(f))
      <3>1. leg[f] \in Legs
        BY <1>1
      <3>2. leg[f].n \in 1..Attempts
        BY <3>1 DEF Legs
      <3> QED
        BY <1>8, <3>2, PostsAndJobs, AttemptsAssumption
    <2>3. Service(f) # "livraison"
      BY <1>8 DEF Service, Post
    <2>4. Goes(f, l)
      BY <1>3, <2>3
    <2> QED
      BY <2>1, <2>2, <2>4 DEF Goes
  <1>9. Tells'
    <2> SUFFICES ASSUME NEW r \in Posts
                 PROVE  /\ leg'[Post(r)].at # "over" => leg'[Post(r)].code = "none"
                        /\ leg'[Post(r)].at \in {"idle", "pool"} => stage[Job(r)] = "none"
                        /\ leg'[Post(r)].code = "full" => stage[Job(r)] = "none"
                        /\ stage[Job(r)] \in {"rereads", "leaves"} => Job(r) \in placed
                        /\ leg'[Post(r)].code = "done" => Job(r) \in placed
      BY <1>1 DEF Tells
    <2>1. Post(r) \in Forwards
      BY PostsAndJobs
    <2> QED
      BY <1>5, <1>8, <2>1 DEF Inv, Tells
  <1> QED
    BY <1>6, <1>7, <1>9 DEF Inv

\* A request that Commande received goes from one stage to the next, which may answer
\* the gateway.
LEMMA StageStep ==
    ASSUME Inv, NEW j \in Jobs, NEW s \in C!Stages, C!Enters(j, s), task' = task,
           \/ placed' = placed
           \/ placed' = placed \cup {j} /\ j \in Placing,
           s \in C!InThread => stage[j] \in C!InThread \/ C!ThreadIsFree,
           s # "none", stage[j] = "none" => Awaited(j),
           s \in {"rereads", "leaves"} /\ j \in Placing => stage[j] = "rereads" \/ j \in placed',
           \/ leg' = leg
           \/ \E code \in {"done", "error"} :
                 /\ stage[j] # "none" /\ Answered(ToCommande(j), code)
                 /\ code = "done" => stage[j] = "leaves"
    PROVE  Inv'
  <1>1. leg \in [Forwards -> Legs] /\ ToCommande(j) \in Forwards
    BY DEF Inv, Shape, Jobs, ToCommande, Forwards
  <1>2. stage' \in [Jobs -> C!Stages] /\ stage'[j] = s
        /\ \A k \in Jobs : k # j => stage'[k] = stage[k]
    BY StageAfter DEF Inv
  <1>3. \/ leg' = leg
        \/ /\ stage[j] # "none"
           /\ \E l \in Legs : /\ leg' = [leg EXCEPT ![ToCommande(j)] = l] /\ l.at = "over"
                              /\ l.code \in {"done", "error"}
                              /\ l.code = "done" => stage[j] = "leaves"
    BY <1>1, ConcludesAt DEF Answered, Codes
  <1>4. leg' \in [Forwards -> Legs]
        /\ \A f \in Forwards : leg'[f] = leg[f] \/ (f = ToCommande(j) /\ leg'[f].at = "over")
    BY <1>1, <1>3
  <1>5. Shape'
    BY <1>2, <1>4 DEF Inv, Shape
  <1>6. Limits'
    <2>1. Cardinality(Running') <= Threads
      BY ThreadLimit DEF Inv
    <2>2. \A t \in Services : Cardinality(Sent(t)') <= Pool[t]
      <3>1. CASE leg' = leg
        BY <3>1 DEF Inv, Limits, Sent, Is
      <3>2. CASE leg' # leg
        BY <1>1, <1>3, <3>2, ConnectionLimit DEF Inv
      <3> QED
        BY <3>1, <3>2
    <2> QED
      BY <2>1, <2>2 DEF Limits
  <1>7. ASSUME NEW r \in Posts
        PROVE  /\ leg'[Post(r)].at # "over" => leg'[Post(r)].code = "none"
               /\ leg'[Post(r)].at \in {"idle", "pool"} => stage'[Job(r)] = "none"
               /\ leg'[Post(r)].code = "full" => stage'[Job(r)] = "none"
               /\ stage'[Job(r)] \in {"rereads", "leaves"} => Job(r) \in placed'
               /\ leg'[Post(r)].code = "done" => Job(r) \in placed'
    <2>1. /\ leg[Post(r)].at # "over" => leg[Post(r)].code = "none"
          /\ leg[Post(r)].at \in {"idle", "pool"} => stage[Job(r)] = "none"
          /\ leg[Post(r)].code = "full" => stage[Job(r)] = "none"
          /\ stage[Job(r)] \in {"rereads", "leaves"} => Job(r) \in placed
          /\ leg[Post(r)].code = "done" => Job(r) \in placed
      BY DEF Inv, Tells
    <2>2. /\ Post(r) \in Forwards /\ Job(r) \in Jobs /\ Job(r) \in Placing
          /\ ToCommande(Job(r)) = Post(r) /\ (j[1] = r => j = Job(r))
      BY PostsAndJobs
    <2>3. placed \subseteq placed'
      OBVIOUS
    <2>4. CASE j = Job(r)
      <3>1. stage[j] = "none" => leg[Post(r)].at = "sent"
        BY <2>2, <2>4 DEF Awaited, Is
      <3>2. CASE leg' = leg
        BY <1>2, <2>1, <2>2, <2>3, <2>4, <3>1, <3>2
      <3>3. CASE leg' # leg
        <4>1. leg'[Post(r)].at = "over" /\ leg'[Post(r)].code \in {"done", "error"}
              /\ (leg'[Post(r)].code = "done" => stage[j] = "leaves")
          BY <1>1, <1>3, <2>2, <2>4, <3>3
        <4> QED
          BY <1>2, <2>1, <2>2, <2>3, <2>4, <4>1
      <3> QED
        BY <3>2, <3>3
    <2>5. CASE j # Job(r)
      <3>1. Post(r) # ToCommande(j)
        BY <2>2, <2>5 DEF Post, ToCommande
      <3>2. leg'[Post(r)] = leg[Post(r)]
        BY <1>1, <1>3, <2>2, <3>1
      <3> QED
        BY <1>2, <2>1, <2>2, <2>3, <2>5, <3>2
    <2> QED
      BY <2>4, <2>5
  <1>8. Tells'
    BY <1>7 DEF Tells
  <1> QED
    BY <1>5, <1>6, <1>8 DEF Inv

LEMMA RunsStep ==
    ASSUME Inv, NEW j \in Jobs, Runs(j)
    PROVE  Inv'
  <1>1. C!Stages = {"none", "queued", "calls", "waits", "works", "rereads", "leaves",
                       "ended"}
        /\ C!InThread = {"calls", "waits", "works", "rereads"}
    BY DEF C!Stages, C!InThread
  <1>2. CASE C!Begins(j) /\ leg' = leg
    <2>1. PICK s \in {"calls", "waits"} : C!Enters(j, s)
      BY <1>2 DEF C!Begins
    <2> QED
      BY <1>1, <1>2, <2>1, StageStep DEF C!Begins, C!At
  <1>3. CASE (C!CallsEnd(j) \/ C!Connects(j)) /\ leg' = leg
    BY <1>1, <1>3, StageStep DEF C!CallsEnd, C!Connects, C!At
  <1>4. CASE (C!Reads(j) \/ C!Commits(j) \/ C!Refreshes(j)) /\ leg' = leg
    <2>1. CASE C!Reads(j)
      BY <1>1, <1>4, <2>1, StageStep DEF C!Reads, C!At
    <2>2. CASE C!Commits(j)
      <3>1. placed' = placed \cup {j} /\ j \in Placing /\ j \in placed'
        BY <2>2 DEF C!Commits
      <3> QED
        BY <1>1, <1>4, <2>2, <3>1, StageStep DEF C!Commits, C!At
    <2>3. CASE C!Refreshes(j)
      BY <1>1, <1>4, <2>3, StageStep DEF C!Refreshes, C!At
    <2> QED
      BY <1>4, <2>1, <2>2, <2>3
  <1>5. ASSUME NEW code \in {"done", "error"}, Answers(j, code)
        PROVE  leg' = leg \/ Answered(ToCommande(j), code)
    BY <1>5 DEF Answers
  <1>6. CASE C!Finishes(j) /\ Answers(j, "done")
    <2>1. leg' = leg \/ Answered(ToCommande(j), "done")
      BY <1>5, <1>6
    <2> QED
      BY <1>1, <1>6, <2>1, StageStep DEF C!Finishes, C!At
  <1>7. CASE (C!WaitTimesOut(j) \/ C!Raises(j)) /\ Answers(j, "error")
    <2>1. leg' = leg \/ Answered(ToCommande(j), "error")
      BY <1>5, <1>7
    <2>2. stage[j] # "none" /\ C!Enters(j, "ended") /\ UNCHANGED <<task, placed>>
      BY <1>7 DEF C!WaitTimesOut, C!Raises, C!At
    <2> QED
      BY <1>1, <2>1, <2>2, StageStep
  <1> QED
    BY <1>2, <1>3, <1>4, <1>6, <1>7 DEF Runs

LEMMA Step == Inv /\ [Next]_vars => Inv'
  <1> SUFFICES ASSUME Inv, [Next]_vars PROVE Inv'
    OBVIOUS
  <1>1. CASE UNCHANGED vars
    BY <1>1 DEF vars, commandeVars, Inv, Shape, Limits, Tells, Sent, Running, Is
  <1>2. ASSUME NEW j \in Jobs, Awaited(j), C!Arrives(j), UNCHANGED leg
        PROVE  Inv'
    <2>1. "queued" \in C!Stages /\ "queued" \notin C!InThread
      BY DEF C!Stages, C!InThread
    <2> QED
      BY <1>2, <2>1, StageStep DEF C!Arrives
  <1>3. ASSUME NEW b \in Tasks, C!TaskConnects(b) \/ C!TaskEnds(b), UNCHANGED leg
        PROVE  Inv'
    <2>1. UNCHANGED <<leg, stage, placed>> /\ task' \in [Tasks -> {"rests", "works"}]
      BY <1>3 DEF C!TaskConnects, C!TaskEnds, Inv, Shape
    <2> QED
      BY <2>1 DEF Inv, Shape, Limits, Tells, Sent, Running, Is
  <1> QED
    BY <1>1, <1>2, <1>3, ReceiveStep, GatewayStep, RunsStep DEF Next

-----------------------------------------------------------------------------

\* The connections of the gateway and the threads of Commande are never more than there
\* are, whatever the clients ask (proxy.py, SERVICE_MAX_CONNECTIONS).
THEOREM TypeSafety == Spec => []TypeOK
  <1>1. Inv => TypeOK
    <2> SUFFICES ASSUME Inv PROVE TypeOK
      OBVIOUS
    <2>1. \A s \in Services : Open(s) <= Pool[s]
      BY DEF Inv, Limits, Open, Sent
    <2>2. Cardinality({j \in Jobs : stage[j] \in C!InThread}) <= Threads
      BY DEF Inv, Limits, Running
    <2> QED
      BY <2>1, <2>2 DEF Inv, Shape, TypeOK, Legs, Ats
  <1> QED
    BY <1>1, InitInv, Step, PTL DEF Spec

\* A client that places one order finds one or learns that there is none, for it has one
\* request only and a refusal for want of a connection sends nothing (proxy.py).
THEOREM AnswerSafety == Spec => []AnswerTellsTheOrder
  <1>1. Inv => AnswerTellsTheOrder
    <2> SUFFICES ASSUME Inv, NEW r \in Posts
                 PROVE  /\ Cardinality(PlacedBy(r)) <= 1
                        /\ Reply(r) = "done" => PlacedBy(r) # {}
                        /\ Reply(r) = "full" => \A j \in Jobs : j[1] = r => C!At(j, "none")
      BY DEF AnswerTellsTheOrder
    <2>1. placed \subseteq Jobs
      BY DEF Inv, Shape, Placing
    <2>2. PlacedBy(r) = {} \/ PlacedBy(r) = {Job(r)}
      BY <2>1, PostsAndJobs DEF PlacedBy
    <2>3. Cardinality(PlacedBy(r)) \in {0, 1}
      BY <2>2, FS_EmptySet, FS_Singleton
    <2>4. Reply(r) = leg[Post(r)].code \/ Reply(r) = "none"
      BY DEF Reply, Post
    <2>5. Reply(r) = "done" => PlacedBy(r) # {}
      <3>1. Reply(r) = "done" => Job(r) \in placed
        BY <2>4 DEF Inv, Tells
      <3>2. Job(r)[1] = r
        BY DEF Job
      <3> QED
        BY <3>1, <3>2 DEF PlacedBy
    <2>6. Reply(r) = "full" => \A j \in Jobs : j[1] = r => C!At(j, "none")
      BY <2>4, PostsAndJobs DEF Inv, Tells, C!At
    <2> QED
      BY <2>3, <2>5, <2>6
  <1> QED
    BY <1>1, InitInv, Step, PTL DEF Spec

-----------------------------------------------------------------------------
(* The standstill.                                                          *)

Stuck == {j \in Jobs : stage[j] \in {"waits", "rereads", "leaves"}}

\* Requests that the gateway awaits hold as many of its connections.
LEMMA AwaitedHoldConnections ==
    ASSUME Shape, NEW S \in SUBSET Jobs, \A j \in S : Awaited(j)
    PROVE  Cardinality(S) <= Open("commande")
  <1> DEFINE T == {f \in Forwards : Service(f) = "commande" /\ Is(f, "sent")}
             h == [j \in S |-> ToCommande(j)]
  <1>1. \A j \in Jobs : /\ ToCommande(j) \in Forwards /\ Service(ToCommande(j)) = "commande"
                        /\ j = <<j[1], j[2]>>
    BY DEF Jobs, ToCommande, Forwards, Service
  <1>2. h \in [S -> T]
    BY <1>1 DEF Awaited
  <1>3. ASSUME NEW j \in S, NEW k \in S, h[j] = h[k] PROVE j = k
    <2>1. ToCommande(j) = ToCommande(k)
      BY <1>3
    <2>2. j[1] = k[1]
      BY <2>1 DEF ToCommande
    <2>3. j[2] = k[2]
      BY <2>1 DEF Awaited
    <2> QED
      BY <1>1, <2>2, <2>3
  <1>4. h \in Injection(S, T)
    BY <1>2, <1>3 DEF Injection, IsInjective
  <1>5. IsFiniteSet(T)
    BY SetsAreFinite DEF Sent, Services
  <1>6. Cardinality(S) <= Cardinality(T)
    <2> HIDE DEF h, T
    <2> QED
      BY <1>4, <1>5, FS_Injection
  <1> QED
    BY <1>6 DEF Open

\* When the threads and the connections of Commande wait for each other, more requests
\* are under way than the gateway has connections: it gave some up (database.py, proxy.py).
THEOREM StandstillSafety == Spec => []StandstillNeedsAbandoned
  <1>1. Inv => StandstillNeedsAbandoned
    <2> SUFFICES ASSUME Inv, Standstill, \A j \in Stuck : Awaited(j)
                 PROVE  FALSE
      BY DEF StandstillNeedsAbandoned, Stuck
    <2> DEFINE W == {j \in Jobs : stage[j] \in {"waits", "rereads"}}
               L == {j \in Jobs : stage[j] = "leaves"}
    <2>1. /\ {j \in Jobs : stage[j] \in C!InThread} = W
          /\ {j \in Jobs : stage[j] \in C!Connected} = L
          /\ {b \in Tasks : task[b] = "works"} = {}
      BY DEF Standstill, C!InThread, C!Connected, C!At
    <2>2. IsFiniteSet(W) /\ IsFiniteSet(L) /\ W \cap L = {} /\ W \cup L = Stuck
      BY SetsAreFinite, FS_Subset DEF Stuck
    <2> HIDE DEF W, L
    <2>3. Cardinality(W) \in Nat /\ Cardinality(L) \in Nat
      BY <2>2, FS_CardinalityType
    <2>4. Cardinality(W) >= Threads
      <3>1. ~(C!Cardinality(W) < Threads)
        BY <2>1 DEF Standstill, C!ThreadIsFree
      <3>2. C!Cardinality(W) = Cardinality(W)
        BY SameCount
      <3> QED
        BY <2>3, <3>1, <3>2, ThreadsAssumption
    <2>5. Cardinality(L) >= Connections
      <3>1. ~(C!Cardinality(L) + C!Cardinality({}) < Connections)
        BY <2>1 DEF Standstill, C!ConnectionIsFree
      <3>2. C!Cardinality(L) = Cardinality(L) /\ C!Cardinality({}) = 0
        BY SameCount, FS_EmptySet
      <3> QED
        BY <2>3, <3>1, <3>2, ThreadsAssumption
    <2>6. Cardinality(Stuck) = Cardinality(W) + Cardinality(L)
      <3>1. Cardinality(W \cup L) = Cardinality(W) + Cardinality(L) - Cardinality(W \cap L)
        BY <2>2, FS_Union
      <3>2. Cardinality(W \cap L) = 0
        BY <2>2, FS_EmptySet
      <3> QED
        BY <2>2, <2>3, <3>1, <3>2
    <2>7. Cardinality(Stuck) <= Open("commande")
      BY AwaitedHoldConnections DEF Inv, Stuck
    <2>8. Open("commande") <= Pool["commande"]
      BY DEF Inv, Limits, Open, Sent, Services
    <2>9. Open("commande") \in Nat /\ Pool["commande"] \in Nat
      BY SetsAreFinite, FS_CardinalityType, PoolAssumption DEF Open, Sent, Services
    <2> QED
      BY <2>3, <2>4, <2>5, <2>6, <2>7, <2>8, <2>9, SizesAssumption, ThreadsAssumption
  <1> QED
    BY <1>1, InitInv, Step, PTL DEF Spec
=============================================================================
