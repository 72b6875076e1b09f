------------------------------ MODULE Livraison ------------------------------
(* The Livraison service: a courier is assigned once per order, committed,  *)
(* and only then announced by a best-effort publication.                     *)
EXTENDS OrderIds

VARIABLES
    delivery,        \* delivery[o]: `statut` of the Delivery of o, NONE without a row
    announcing       \* orders whose delivery is committed and not yet announced

DeliveryStatus == {"NONE", "ASSIGNED", "FAILED"}

livraisonVars == <<delivery, announcing>>

LivraisonInit ==
    /\ delivery = [o \in Orders |-> "NONE"]
    /\ announcing = {}

\* Mutant: an order already delivered is assigned again.
Assign_Again(o) ==
    /\ \E verdict \in {"ASSIGNED", "FAILED"} :
          delivery' = [delivery EXCEPT ![o] = verdict]
    /\ announcing' = announcing \cup {o}

\* handle_order_ready up to its commit, for an order it does not know.
Assign(o) ==
    /\ delivery[o] = "NONE"
    /\ \E verdict \in {"ASSIGNED", "FAILED"} :
          delivery' = [delivery EXCEPT ![o] = verdict]
    /\ announcing' = announcing \cup {o}

\* A redelivered order: the recorded delivery is returned, nothing is announced.
AlreadyAssigned(o) ==
    /\ delivery[o] # "NONE"
    /\ UNCHANGED livraisonVars

\* The publication of the verdict has been tried.
Announced(o) ==
    /\ o \in announcing
    /\ announcing' = announcing \ {o}
    /\ UNCHANGED delivery

\* The service stops between its commits and their announcements, which are lost.
Halts == announcing' = {} /\ UNCHANGED delivery

LivraisonNext == (\E o \in Orders : Assign(o) \/ Announced(o)) \/ Halts

LivraisonSpec == LivraisonInit /\ [][LivraisonNext]_livraisonVars
=============================================================================
