-------------------------- MODULE MCPartnerServices --------------------------
(* The services share nothing but the orders: one order and three threads on *)
(* each side make their hardest cases, an attempt, its retry and a           *)
(* cancellation, or the consumer and two requests.                           *)
EXTENDS PartnerServices, TLC

Symmetry == Permutations(Clerks) \cup Permutations(Posters)
=============================================================================
