--------------------------- MODULE MCApprovalFlow ---------------------------
(* Instances of ApprovalFlow for TLC.                                      *)
EXTENDS ApprovalFlow, TLC

CONSTANTS h1, h2, h3, t1, t2, k1, p1, p2

MCSymmetry == Permutations(Handlers) \cup Permutations(Tenants)
=============================================================================
