---------------------------- MODULE MCScoringLock ----------------------------
(* ScoringLock for TLC.  Three invocations are enough for one to meet two  *)
(* others inside the acquire loop.                                         *)
EXTENDS ScoringLock, TLC

(* Invocations are interchangeable, and so are pids; used where no         *)
(* liveness property is checked.                                           *)
Symmetry == Permutations(Wrapper) \cup Permutations(Pid)
=============================================================================
