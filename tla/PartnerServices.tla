--------------------------- MODULE PartnerServices ---------------------------
(* The two services the saga relies on beside Paiement, each with its threads *)
(* and its database. They never call each other.                              *)
EXTENDS RestaurantSessions, LivraisonSessions

Init == RestaurantSessionsInit /\ LivraisonSessionsInit

Next ==
    \/ RestaurantSessionsNext /\ UNCHANGED deliveryVars
    \/ LivraisonSessionsNext /\ UNCHANGED restaurantVars

vars == <<restaurantVars, deliveryVars>>

Spec == Init /\ [][Next]_vars

TypeOK == RestaurantTypeOK /\ LivraisonTypeOK
=============================================================================
