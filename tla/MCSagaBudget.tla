---------------------------- MODULE MCSagaBudget ----------------------------
(* The values of clients.py, retry.py and proxy.py. *)
EXTENDS SagaBudget
=============================================================================
