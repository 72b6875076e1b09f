------------------------------ MODULE OrderIds ------------------------------
(* The orders of the platform. Every service keys its records by the        *)
(* `order_id` that Commande draws (uuid4) when the order is placed, so one   *)
(* set names the orders in all of them.                                      *)
EXTENDS FiniteSets

CONSTANT Orders

ASSUME OrdersAssumption == IsFiniteSet(Orders)
=============================================================================
