-------------------------- MODULE ScoringLock_proofs --------------------------
(***************************************************************************)
(* The safety of the lock file of scripts/run_scoring.py for every set of  *)
(* invocations and of pids.                                                *)
(*                                                                         *)
(* The invariant has four parts besides the types.  NoLeakedLock is        *)
(* inductive with the types alone.  A pid in the file, or one that was     *)
(* read from it, shows that an invocation came past _acquire_lock          *)
(* (PidMeansPassed).  And while no file was reclaimed, an invocation past  *)
(* its create, or one whose child runs, is the owner of the file at the    *)
(* path (OwnerUnlessReclaimed); this is what makes two of them equal.      *)
(***************************************************************************)
EXTENDS ScoringLock, TLAPS

(* Invocations past _acquire_lock, however they ended.                     *)
Passed == Holding \cup {"ran", "killed"}

PidMeansPassed ==
  /\ content # NoPid => \E v \in Wrapper : pc[v] \in Passed
  /\ \A w \in Wrapper : seen[w] # NoPid => \E v \in Wrapper : pc[v] \in Passed

BusyHasSeen == \A w \in Wrapper : pc[w] = "busy" => seen[w] # NoPid

ReapedBeforeRelease ==
  \A w \in Wrapper : pc[w] = "release" => ~Scoring(w)

OwnerUnlessReclaimed ==
  ~reclaimed => \A w \in Wrapper : pc[w] \in Entered \/ Scoring(w) => owner = w

LockInv ==
  /\ TypeOK
  /\ NoLeakedLock
  /\ PidMeansPassed
  /\ BusyHasSeen
  /\ ReapedBeforeRelease
  /\ OwnerUnlessReclaimed

(* The lock starts in a state that satisfies the invariant.                *)
LEMMA LockInit == Init => LockInv
BY LockAssumption DEF Init, LockInv, TypeOK, NoLeakedLock, PidMeansPassed,
   BusyHasSeen, ReapedBeforeRelease, OwnerUnlessReclaimed, Entered, Ended, Scoring

(* The types are kept by every step.                                       *)
LEMMA TypeStep == TypeOK /\ [Next]_vars => TypeOK'
<1> SUFFICES ASSUME TypeOK, [Next]_vars PROVE TypeOK'
  OBVIOUS
<1> USE LockAssumption DEF TypeOK, Entered, Ended, Goto, Exit, Active
<1>1. ASSUME NEW w \in Wrapper, Start(w) PROVE TypeOK'
  BY <1>1 DEF Start
<1>2. ASSUME NEW w \in Wrapper, CreateLock(w) PROVE TypeOK'
  BY <1>2 DEF CreateLock
<1>3. ASSUME NEW w \in Wrapper, LockExists(w) PROVE TypeOK'
  BY <1>3 DEF LockExists
<1>4. ASSUME NEW w \in Wrapper, ReadHolder(w) PROVE TypeOK'
  BY <1>4 DEF ReadHolder
<1>5. ASSUME NEW w \in Wrapper, FindStale(w) PROVE TypeOK'
  BY <1>5 DEF FindStale
<1>6. ASSUME NEW w \in Wrapper, FindHeld(w) PROVE TypeOK'
  BY <1>6 DEF FindHeld
<1>7. ASSUME NEW w \in Wrapper, Reclaim(w) PROVE TypeOK'
  BY <1>7 DEF Reclaim
<1>8. ASSUME NEW w \in Wrapper, WritePid(w) PROVE TypeOK'
  BY <1>8 DEF WritePid
<1>9. ASSUME NEW w \in Wrapper, SpawnScoring(w) PROVE TypeOK'
  BY <1>9 DEF SpawnScoring
<1>10. ASSUME NEW w \in Wrapper, ScoringExits(w) PROVE TypeOK'
  BY <1>10 DEF ScoringExits
<1>11. ASSUME NEW w \in Wrapper, Reap(w) PROVE TypeOK'
  BY <1>11 DEF Reap
<1>12. ASSUME NEW w \in Wrapper, Release(w) PROVE TypeOK'
  BY <1>12 DEF Release
<1>13. ASSUME NEW w \in Wrapper, Kill(w) PROVE TypeOK'
  BY <1>13 DEF Kill
<1>14. ASSUME NEW p \in Pid, ForeignStart(p) \/ ForeignExit(p) PROVE TypeOK'
  BY <1>14 DEF ForeignStart, ForeignExit
<1>15. CASE UNCHANGED vars
  BY <1>15 DEF vars
<1> QED
  BY <1>1, <1>2, <1>3, <1>4, <1>5, <1>6, <1>7, <1>8, <1>9, <1>10, <1>11, <1>12,
     <1>13, <1>14, <1>15 DEF Next, Step

(* An invocation that came past _acquire_lock stays past it.               *)
LEMMA PassedStable ==
  ASSUME TypeOK, [Next]_vars, NEW v \in Wrapper, pc[v] \in Passed
  PROVE  pc'[v] \in Passed
BY DEF TypeOK, Passed, Holding, Entered, Ended, Next, Step, vars, Goto, Exit,
   Active, Start, CreateLock, LockExists, ReadHolder, FindStale, FindHeld,
   Reclaim, WritePid, SpawnScoring, ScoringExits, Reap, Release, Kill,
   ForeignStart, ForeignExit

(* The file at the path stays that of an invocation between its create and *)
(* its unlink, or of a killed one.                                         *)
LEMMA NoLeakStep ==
  TypeOK /\ NoLeakedLock /\ [Next]_vars => NoLeakedLock'
<1> SUFFICES ASSUME TypeOK, NoLeakedLock, [Next]_vars PROVE NoLeakedLock'
  OBVIOUS
<1> USE LockAssumption DEF TypeOK, NoLeakedLock, Entered, Ended, Goto, Exit, Active
<1>1. ASSUME NEW w \in Wrapper, CreateLock(w) PROVE NoLeakedLock'
  BY <1>1 DEF CreateLock
<1>2. ASSUME NEW w \in Wrapper, Reclaim(w) \/ Release(w) PROVE NoLeakedLock'
  BY <1>2 DEF Reclaim, Release
<1>3. ASSUME NEW w \in Wrapper,
             \/ Start(w) \/ LockExists(w) \/ ReadHolder(w)
             \/ FindStale(w) \/ FindHeld(w)
      PROVE  NoLeakedLock'
  BY <1>3 DEF Start, LockExists, ReadHolder, FindStale, FindHeld
<1>4. ASSUME NEW w \in Wrapper,
             \/ WritePid(w) \/ SpawnScoring(w) \/ Reap(w) \/ Kill(w)
      PROVE  NoLeakedLock'
  BY <1>4 DEF WritePid, SpawnScoring, Reap, Kill
<1>5. CASE owner' = owner /\ pc' = pc
  BY <1>5
<1> QED
  BY <1>1, <1>2, <1>3, <1>4, <1>5 DEF Next, Step, vars, ScoringExits,
     ForeignStart, ForeignExit

(* A pid is only ever written by an invocation that is past _acquire_lock. *)
LEMMA PidStep ==
  TypeOK /\ PidMeansPassed /\ [Next]_vars => PidMeansPassed'
<1> SUFFICES ASSUME TypeOK, PidMeansPassed, [Next]_vars PROVE PidMeansPassed'
  OBVIOUS
<1>1. (\E v \in Wrapper : pc[v] \in Passed) => \E v \in Wrapper : pc'[v] \in Passed
  BY PassedStable
<1>2. ASSUME NEW w \in Wrapper, WritePid(w) PROVE PidMeansPassed'
  <2>1. pc'[w] \in Passed
    BY <1>2 DEF WritePid, Goto, TypeOK, Passed, Holding
  <2> QED
    BY <2>1 DEF PidMeansPassed
<1>3. ASSUME NEW w \in Wrapper, ReadHolder(w) PROVE PidMeansPassed'
  BY <1>1, <1>3 DEF PidMeansPassed, ReadHolder, TypeOK
<1>4. ASSUME NEW w \in Wrapper, CreateLock(w) \/ Release(w) PROVE PidMeansPassed'
  BY <1>1, <1>4 DEF PidMeansPassed, CreateLock, Release
<1>5. ASSUME NEW w \in Wrapper, Reclaim(w) PROVE PidMeansPassed'
  BY <1>1, <1>5 DEF PidMeansPassed, Reclaim, TypeOK
<1>6. CASE content' = content /\ seen' = seen
  BY <1>1, <1>6 DEF PidMeansPassed
<1> QED
  BY <1>2, <1>3, <1>4, <1>5, <1>6 DEF Next, Step, vars, Start, LockExists,
     FindStale, FindHeld, SpawnScoring, ScoringExits, Reap, Kill,
     ForeignStart, ForeignExit

(* Only a pid that was read, never pid 0, turns an invocation away.        *)
LEMMA BusyStep == TypeOK /\ BusyHasSeen /\ [Next]_vars => BusyHasSeen'
<1> SUFFICES ASSUME TypeOK, BusyHasSeen, [Next]_vars,
                    NEW u \in Wrapper, pc'[u] = "busy"
             PROVE  seen'[u] # NoPid
  BY DEF BusyHasSeen
<1> USE DEF TypeOK, BusyHasSeen, Goto, Exit, Active, Ended
<1>1. ASSUME NEW w \in Wrapper, FindHeld(w) PROVE seen'[u] # NoPid
  BY <1>1 DEF FindHeld, Stale
<1>2. ASSUME NEW w \in Wrapper,
             \/ Start(w) \/ CreateLock(w) \/ LockExists(w) \/ ReadHolder(w)
             \/ FindStale(w) \/ Reclaim(w)
      PROVE  seen'[u] # NoPid
  BY <1>2 DEF Start, CreateLock, LockExists, ReadHolder, FindStale, Reclaim
<1>3. ASSUME NEW w \in Wrapper,
             \/ WritePid(w) \/ SpawnScoring(w) \/ Reap(w) \/ Release(w) \/ Kill(w)
      PROVE  seen'[u] # NoPid
  BY <1>3 DEF WritePid, SpawnScoring, Reap, Release, Kill
<1>4. CASE pc' = pc /\ seen' = seen
  BY <1>4
<1> QED
  BY <1>1, <1>2, <1>3, <1>4 DEF Next, Step, vars, ScoringExits, ForeignStart,
     ForeignExit

(* The child has ended when the wrapper is about to release.               *)
LEMMA ReapedStep ==
  TypeOK /\ ReapedBeforeRelease /\ [Next]_vars => ReapedBeforeRelease'
BY DEF TypeOK, ReapedBeforeRelease, Scoring, Entered, Ended, Next, Step, vars,
   Goto, Exit, Active, Start, CreateLock, LockExists, ReadHolder, FindStale,
   FindHeld, Reclaim, WritePid, SpawnScoring, ScoringExits, Reap, Release, Kill,
   ForeignStart, ForeignExit

(* Without a reclaim the file is removed by its owner only.                *)
LEMMA OwnerStep ==
  TypeOK /\ ReapedBeforeRelease /\ OwnerUnlessReclaimed /\ [Next]_vars
    => OwnerUnlessReclaimed'
<1> SUFFICES ASSUME TypeOK, ReapedBeforeRelease, OwnerUnlessReclaimed, [Next]_vars,
                    ~reclaimed', NEW u \in Wrapper, (pc[u] \in Entered \/ Scoring(u))'
             PROVE  owner' = u
  BY DEF OwnerUnlessReclaimed
<1> USE LockAssumption
    DEF TypeOK, ReapedBeforeRelease, OwnerUnlessReclaimed, Scoring, Entered, Ended,
        Goto, Exit, Active
<1>1. ASSUME NEW w \in Wrapper, CreateLock(w) PROVE owner' = u
  BY <1>1 DEF CreateLock
<1>2. ASSUME NEW w \in Wrapper, Reclaim(w) PROVE owner' = u
  BY <1>2 DEF Reclaim
<1>3. ASSUME NEW w \in Wrapper, Release(w) PROVE owner' = u
  BY <1>3 DEF Release
<1>4. ASSUME NEW w \in Wrapper,
             \/ Start(w) \/ LockExists(w) \/ ReadHolder(w)
             \/ FindStale(w) \/ FindHeld(w)
      PROVE  owner' = u
  BY <1>4 DEF Start, LockExists, ReadHolder, FindStale, FindHeld
<1>5. ASSUME NEW w \in Wrapper,
             \/ WritePid(w) \/ SpawnScoring(w) \/ ScoringExits(w)
             \/ Reap(w) \/ Kill(w)
      PROVE  owner' = u
  BY <1>5 DEF WritePid, SpawnScoring, ScoringExits, Reap, Kill
<1>6. CASE UNCHANGED <<pc, owner, child, reclaimed>>
  BY <1>6
<1> QED
  BY <1>1, <1>2, <1>3, <1>4, <1>5, <1>6 DEF Next, Step, vars, ForeignStart,
     ForeignExit

(* Every reachable state of the lock satisfies the invariant.              *)
THEOREM LockInvariant == Spec => []LockInv
<1>1. LockInv /\ [Next]_vars => LockInv'
  BY TypeStep, NoLeakStep, PidStep, BusyStep, ReapedStep, OwnerStep DEF LockInv
<1> QED
  BY LockInit, <1>1, PTL DEF Spec

(* The lock's variables keep their types.                                  *)
THEOREM TypeCorrect == Spec => []TypeOK
BY LockInvariant, PTL DEF LockInv

(* An invocation that ends on its own leaves no lock file of its own       *)
(* behind, however acquires, reclaims and releases interleave.             *)
THEOREM LockNeverLeaks == Spec => []NoLeakedLock
BY LockInvariant, PTL DEF LockInv

(* Until a lock file is reclaimed as stale, at most one scoring process    *)
(* runs, orphans of killed wrappers included.                              *)
THEOREM ExclusionUnlessReclaimed == Spec => []ExclusiveUnlessReclaimed
<1>1. LockInv => ExclusiveUnlessReclaimed
  BY DEF LockInv, OwnerUnlessReclaimed, ExclusiveUnlessReclaimed, NoOverlap
<1> QED
  BY LockInvariant, <1>1, PTL

(* If an invocation exits with 75 and none was killed, some invocation     *)
(* came past _acquire_lock.                                                *)
THEOREM SomebodyRuns == Spec => []NotAllTurnedAway
<1>1. LockInv => NotAllTurnedAway
  BY DEF LockInv, PidMeansPassed, BusyHasSeen, NotAllTurnedAway, Passed
<1> QED
  BY LockInvariant, <1>1, PTL
=============================================================================
