----------------------------- MODULE MCAuditLog -----------------------------
(* AuditLog for TLC; the constants are sets of model values.  No symmetry: *)
(* AppendEnds is a liveness property.                                      *)
EXTENDS AuditLog

CONSTANTS a1, a2, a3, s1, e1, e2, e3, b1, b2
=============================================================================
