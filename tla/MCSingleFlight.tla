--------------------------- MODULE MCSingleFlight ---------------------------
(* No symmetry: liveness is checked, too.                                  *)
EXTENDS SingleFlight
=============================================================================
