----------------------------- MODULE Restaurant -----------------------------
(* What the Restaurant service promises to the saga: one verdict per order, *)
(* which a compensation may cancel.                                          *)
EXTENDS OrderIds

VARIABLE acceptance  \* acceptance[o]: `statut` of the OrderAcceptance of o

AcceptanceStatus == {"NONE", "ACCEPTED", "REFUSED", "CANCELLED"}

RestaurantInit == acceptance = [o \in Orders |-> "NONE"]

\* POST /restaurants/{id}/orders: decided once (closed, unknown or unavailable
\* dish: refused), then the recorded verdict.
Accept(o) ==
    \/ /\ acceptance[o] = "NONE"
       /\ \E verdict \in {"ACCEPTED", "REFUSED"} :
             acceptance' = [acceptance EXCEPT ![o] = verdict]
    \/ /\ acceptance[o] # "NONE"
       /\ UNCHANGED acceptance

AcceptReply(s) == IF s = "ACCEPTED" THEN "ok" ELSE "refused"

\* POST /restaurants/orders/{id}/cancel. An unknown order would be recorded under
\* restaurant 0, which the foreign key to restaurants refuses: nothing is written.
CancelAcceptance(o) ==
    \/ /\ acceptance[o] # "NONE"
       /\ acceptance' = [acceptance EXCEPT ![o] = "CANCELLED"]
    \/ /\ acceptance[o] = "NONE"
       /\ UNCHANGED acceptance

RestaurantNext == \E o \in Orders : Accept(o) \/ CancelAcceptance(o)

RestaurantSpec == RestaurantInit /\ [][RestaurantNext]_acceptance
=============================================================================
