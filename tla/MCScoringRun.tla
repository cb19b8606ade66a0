----------------------------- MODULE MCScoringRun -----------------------------
(* ScoringRun for TLC.                                                     *)
EXTENDS ScoringRun
=============================================================================
