------------------------ MODULE MCStreamingResearch ------------------------
(* StreamingResearch with three flows and two profiles, for TLC.           *)
EXTENDS StreamingResearch
=============================================================================
