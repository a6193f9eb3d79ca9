--------------------------- MODULE MCRunawayGuard ---------------------------
(* RunawayGuard for TLC.  No symmetry: the runs check temporal properties  *)
(* under fairness.                                                         *)
EXTENDS RunawayGuard

CONSTANTS x1, x2, x3
=============================================================================
