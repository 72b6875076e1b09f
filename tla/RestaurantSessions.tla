------------------------- MODULE RestaurantSessions -------------------------
(* Restaurant as it runs: threads serve the acceptances and cancellations of *)
(* the saga, each in its own database session, and look up, decide and commit *)
(* in separate steps.                                                         *)
EXTENDS OrderIds

CONSTANT Clerks      \* threads that serve requests

VARIABLES
    acceptance,      \* acceptance[o]: `statut` of the row of o, NONE without a row
    closed,          \* orders that _decide refuses: no request changes the catalogue
    desk,            \* desk[w]: what thread w holds between two statements
    told,            \* told[o]: verdicts that the attempts to place o were answered
    undone           \* orders whose cancellation was answered 200

restaurantVars == <<acceptance, closed, desk, told, undone>>

R == INSTANCE Restaurant

IdleClerk == [at |-> "idle"]

RestaurantSessionsInit ==
    /\ R!RestaurantInit
    /\ closed \in SUBSET Orders
    /\ desk = [w \in Clerks |-> IdleClerk]
    /\ told = [o \in Orders |-> {}]
    /\ undone = {}

Serves(w, place) == desk[w].at = place
Holds(w, place, o) == desk' = [desk EXCEPT ![w] = [at |-> place, order |-> o]]
Leaves(w) == desk' = [desk EXCEPT ![w] = IdleClerk]

\* Mutant: the answer is the statut, not the verdict that Commande expects of it.
Tells_AsRecorded(o) == told' = [told EXCEPT ![o] = @ \cup {acceptance[o]}]

\* The answer carries the row as it was last read.
Tells(o) == told' = [told EXCEPT ![o] = @ \cup {R!AcceptReply(acceptance[o])}]

Decide(o) == IF o \in closed THEN "REFUSED" ELSE "ACCEPTED"

-----------------------------------------------------------------------------
(* accept_order                                                             *)

\* A verdict is recorded: it is the answer. Otherwise the order will be decided.
AcceptOrder(w, o) ==
    /\ Serves(w, "idle")
    /\ \/ acceptance[o] # "NONE" /\ Tells(o) /\ UNCHANGED desk
       \/ acceptance[o] = "NONE" /\ Holds(w, "insert", o) /\ UNCHANGED told
    /\ UNCHANGED <<acceptance, closed, undone>>

\* Mutant: `order_id` is not unique, and the later commit replaces the row.
InsertAcceptance_Overwrites(w) ==
    /\ Serves(w, "insert")
    /\ LET o == desk[w].order IN
       /\ acceptance' = [acceptance EXCEPT ![o] = Decide(o)]
       /\ Holds(w, "refresh", o)
    /\ UNCHANGED <<closed, told, undone>>

\* Mutant: the row is read back before it is committed.
InsertAcceptance_Unchecked(w) ==
    /\ Serves(w, "insert")
    /\ LET o == desk[w].order IN
       /\ told' = [told EXCEPT ![o] = @ \cup {R!AcceptReply(Decide(o))}]
       /\ Holds(w, "refresh", o)
    /\ UNCHANGED <<acceptance, closed, undone>>

\* The verdict is committed, or refused (500) when another attempt committed first.
InsertAcceptance(w) ==
    /\ Serves(w, "insert")
    /\ LET o == desk[w].order IN
       \/ /\ acceptance[o] = "NONE"
          /\ acceptance' = [acceptance EXCEPT ![o] = Decide(o)]
          /\ Holds(w, "refresh", o)
       \/ /\ acceptance[o] # "NONE"
          /\ Leaves(w)
          /\ UNCHANGED acceptance
    /\ UNCHANGED <<closed, told, undone>>

\* session.refresh reads the row again, which a cancellation may have changed.
Refresh(w) ==
    /\ Serves(w, "refresh")
    /\ Tells(desk[w].order)
    /\ Leaves(w)
    /\ UNCHANGED <<acceptance, closed, undone>>

-----------------------------------------------------------------------------
(* cancel_order                                                             *)

\* A row already cancelled is not written again. The cancellation of an unknown order
\* cannot be committed under restaurant 0: it answers 500, changes nothing and is no step.
CancelOrder(w, o) ==
    /\ Serves(w, "idle")
    /\ \/ /\ acceptance[o] = "CANCELLED"
          /\ undone' = undone \cup {o}
          /\ UNCHANGED desk
       \/ /\ acceptance[o] \in {"ACCEPTED", "REFUSED"}
          /\ Holds(w, "update", o)
          /\ UNCHANGED undone
    /\ UNCHANGED <<acceptance, closed, told>>

Update(w) ==
    /\ Serves(w, "update")
    /\ acceptance' = [acceptance EXCEPT ![desk[w].order] = "CANCELLED"]
    /\ undone' = undone \cup {desk[w].order}
    /\ Leaves(w)
    /\ UNCHANGED <<closed, told>>

-----------------------------------------------------------------------------

\* The request raises, or its process stops: what it had not committed is gone.
Drops(w) ==
    /\ ~Serves(w, "idle")
    /\ Leaves(w)
    /\ UNCHANGED <<acceptance, closed, told, undone>>

RestaurantSessionsNext ==
    \E w \in Clerks :
        \/ \E o \in Orders : AcceptOrder(w, o) \/ CancelOrder(w, o)
        \/ InsertAcceptance(w) \/ Refresh(w) \/ Update(w) \/ Drops(w)

RestaurantSessionsSpec ==
    RestaurantSessionsInit /\ [][RestaurantSessionsNext]_restaurantVars

-----------------------------------------------------------------------------
(* Properties.                                                              *)

RestaurantTypeOK ==
    /\ acceptance \in [Orders -> R!AcceptanceStatus]
    /\ closed \subseteq Orders
    /\ desk \in [Clerks -> {IdleClerk} \cup
                           [at : {"insert", "refresh", "update"}, order : Orders]]
    /\ told \in [Orders -> SUBSET {"ok", "refused"}]
    /\ undone \subseteq Orders

\* Overlapping, repeated and failing requests are, for the verdict of an order, the
\* two atomic endpoints that the saga relies on (service.accept_order, cancel_order).
RestaurantPromise == R!RestaurantSpec

\* What Restaurant has answered stays true: an order told accepted has its row, and was
\* refused by no other attempt unless it was cancelled; a cancelled order is never
\* accepted again by an attempt that was under way ("aucun double effet", service.py).
AnswersStand ==
    \A o \in Orders :
        /\ "ok" \in told[o] => acceptance[o] \in {"ACCEPTED", "CANCELLED"}
        /\ "refused" \in told[o] => acceptance[o] \in {"REFUSED", "CANCELLED"}
        /\ o \in undone => acceptance[o] = "CANCELLED"
=============================================================================
