----------------------- MODULE MCRestrictedResponse ------------------------
(***************************************************************************)
(* One finding and two policy fingerprints: two quarantines and, of each,  *)
(* two rollbacks compete for the marker.                                   *)
(***************************************************************************)
EXTENDS RestrictedResponse, TLC

PolicySymmetry == Permutations(Policies)
=============================================================================
