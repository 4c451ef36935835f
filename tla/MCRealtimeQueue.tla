-------------------------- MODULE MCRealtimeQueue ---------------------------
(***************************************************************************)
(* A log of MaxRecords records, each an incident of its own, and a fixture *)
(* file whose events 11 and 12 are two records of the same SOC event, the  *)
(* first one with features.  The queue retains fewer rows than there are   *)
(* events, so that it also runs full for good.                             *)
(***************************************************************************)
EXTENDS RealtimeQueue

MCFixtureFile == <<11, 12>>
MCIncidentOf == [e \in Events |-> IF e = 12 THEN 11 ELSE e]
=============================================================================
