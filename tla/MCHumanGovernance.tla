------------------------- MODULE MCHumanGovernance -------------------------
(* HumanGovernance with the server and one other process, for TLC.         *)
EXTENDS HumanGovernance, TLC

CONSTANTS s1, s2, k1, k2, r1

MCOthers == {s2}
MCCases == {k1, k2}
MCResponses == {r1}
Symmetry == Permutations(MCCases)
=============================================================================
