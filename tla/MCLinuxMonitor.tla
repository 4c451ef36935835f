--------------------------- MODULE MCLinuxMonitor ---------------------------
(* LinuxMonitor with two interchangeable findings, for TLC.                *)
EXTENDS LinuxMonitor, TLC

FindingSymmetry == Permutations(Findings)
=============================================================================
