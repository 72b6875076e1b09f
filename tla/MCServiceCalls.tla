--------------------------- MODULE MCServiceCalls ---------------------------
(* Three threads, two slots: one call may be refused, one stale, one a probe. *)
(* No symmetry: the run checks a liveness property.                          *)
EXTENDS ServiceCalls
=============================================================================
