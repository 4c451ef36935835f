------------------------ MODULE MCDurableExecution --------------------------
(***************************************************************************)
(* Three workers compete for the two intents of one promotion, i1 and i2,  *)
(* which were given different approvals.                                   *)
(***************************************************************************)
EXTENDS DurableExecution, TLC

CONSTANTS i1, i2, p1, a1, a2

MCPromotionOf == [i \in Intents |-> p1]
MCApprovalOf == [i \in Intents |-> IF i = i1 THEN a1 ELSE a2]

\* Workers run the same code: states that differ only in worker names are one.
WorkerSymmetry == Permutations(Workers)
=============================================================================
