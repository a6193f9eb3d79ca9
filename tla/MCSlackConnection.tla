------------------------- MODULE MCSlackConnection -------------------------
(***************************************************************************)
(* SlackConnection for TLC, in three scenarios: connecting two tenants     *)
(* while credentials are refreshed, a rotation of the keys under           *)
(* reconnects and refreshes, and the rotation of provider tokens by three  *)
(* operators.                                                              *)
(***************************************************************************)
EXTENDS SlackConnection, TLC

CONSTANTS c1, c2, c3, f1, f2, t1, t2

Scene(does, calls, flows, until) == [does |-> does, calls |-> calls, flows |-> flows, until |-> until]

MCScenarios == {Scene({"callback", "lifecycle"}, 3, 2, 1),
                Scene({"callback", "lifecycle", "keys"}, 2, 2, 0),
                Scene({"rotation"}, 3, 0, 0)}

MCSymmetry == Permutations(Calls) \cup Permutations(Flows) \cup Permutations(Tenants)
=============================================================================
