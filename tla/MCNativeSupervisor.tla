------------------------- MODULE MCNativeSupervisor -------------------------
(* NativeSupervisor for TLC.                                               *)
EXTENDS NativeSupervisor
=============================================================================
