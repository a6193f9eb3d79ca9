------------------------ MODULE MCInstallationAdmin ------------------------
(* Instances of InstallationAdmin for TLC.                                 *)
EXTENDS InstallationAdmin, TLC

CONSTANTS q1, q2, q3, i1, t1, t2, k1, v1, v2, w1

MCOwnerOf == [i \in Installations |-> t1]
MCFirstVersion == [i \in Installations |-> v1]
MCPluginOf == [v \in Versions |-> IF v = w1 THEN "pluginB" ELSE "pluginA"]
MCSymmetry == Permutations(Requests)
=============================================================================
