----------------------------- MODULE ScoringLock -----------------------------
(***************************************************************************)
(* The lock file of scripts/run_scoring.py.                                *)
(*                                                                         *)
(* Every element of Wrapper is one invocation of the cron wrapper, an OS   *)
(* process of its own.  It takes the lock (_acquire_lock), runs            *)
(* `scoring.cli run` as a child process, removes the lock (_release_lock)  *)
(* and exits with the child's code, or with 75 when the lock is held.      *)
(* Invocations share the file at the lock path, and every system call on   *)
(* it is one step here: the open with O_EXCL, the read of the holder's     *)
(* pid, kill(pid, 0), the unlink and the write of the own pid interleave   *)
(* with the calls of the others.                                           *)
(*                                                                         *)
(* An invocation can be killed (SIGKILL, an OOM kill) between any two      *)
(* calls: the file stays, and a scoring child that was running goes on,    *)
(* because subprocess.run leaves it behind.  An invocation interrupted     *)
(* with Ctrl-C while it waits ends the child and then releases: to the     *)
(* lock that is ScoringExits followed by Reap.  The operating system may   *)
(* give the pid of a dead process to a later one.                          *)
(***************************************************************************)
EXTENDS Naturals, FiniteSets

CONSTANTS
  Wrapper,  \* the invocations of `python -m scripts.run_scoring`
  Pid,      \* the process ids the operating system hands out
  NoPid,    \* what an empty, missing or unreadable lock file reads as: pid 0
  NoFile    \* nothing at the lock path

ASSUME LockAssumption == NoPid \notin Pid /\ NoFile \notin Wrapper

VARIABLES
  pc,        \* pc[w]: the next system call of invocation w
  pid,       \* pid[w]: os.getpid() of w, NoPid when w is no process
  seen,      \* seen[w]: the holder's pid that w read from the lock file
  owner,     \* the invocation whose open() created the file now at the path
  content,   \* the pid written in that file
  child,     \* child[w]: the scoring subprocess of w
  foreign,   \* pids of live processes that are no invocation of the wrapper
  reclaimed  \* history: a lock file was removed as stale

vars == <<pc, pid, seen, owner, content, child, foreign, reclaimed>>

-----------------------------------------------------------------------------
(* An invocation past _acquire_lock's create, and one past its return.     *)
Entered == {"write", "exec", "wait", "release"}
Holding == {"exec", "wait", "release"}

(* Ended with 75, ended with the child's code, ended by a signal.          *)
Ended == {"busy", "ran", "killed"}

Active(w) == pc[w] \notin {"idle"} \cup Ended

(* What os.kill(pid, 0) finds: every process that runs now.                *)
LivePids == ({pid[w] : w \in Wrapper} \ {NoPid}) \cup foreign

PidAlive(p) == p \in LivePids

Goto(w, l) == pc' = [pc EXCEPT ![w] = l] /\ UNCHANGED pid

(* The process of w is gone, and its pid is free.                          *)
Exit(w, l) ==
  /\ pc' = [pc EXCEPT ![w] = l]
  /\ pid' = [pid EXCEPT ![w] = NoPid]

-----------------------------------------------------------------------------
(* Faulty variants of definitions below, each a slip this code could have. *)
(* Nothing uses them; they show which slip each property rules out.        *)

(* A missing lock file is not mapped to pid 0.                             *)
ReadHolderUnmapped(w) ==
  /\ pc[w] = "read"
  /\ seen' = [seen EXCEPT ![w] = IF owner = NoFile THEN NoFile ELSE content]
  /\ Goto(w, "probe")
  /\ UNCHANGED <<owner, content, child, foreign, reclaimed>>

(* O_EXCL is forgotten: the open succeeds on a file that exists.           *)
CreateLockShared(w) ==
  /\ pc[w] = "open"
  /\ owner' = w
  /\ content' = NoPid
  /\ Goto(w, "write")
  /\ UNCHANGED <<seen, child, foreign, reclaimed>>

(* An empty lock file counts as held.                                      *)
StaleUnlessEmpty(p) == p # NoPid /\ ~PidAlive(p)

(* The retry comes before the unlink.                                      *)
ReclaimWithoutUnlink(w) ==
  /\ pc[w] = "unlink"
  /\ seen' = [seen EXCEPT ![w] = NoPid]
  /\ Goto(w, "open")
  /\ UNCHANGED <<owner, content, child, foreign, reclaimed>>

(* The finally clause is missing.                                          *)
ReleaseNothing(w) ==
  /\ pc[w] = "release"
  /\ Exit(w, "ran")
  /\ UNCHANGED <<seen, owner, content, child, foreign, reclaimed>>

-----------------------------------------------------------------------------
Init ==
  /\ pc = [w \in Wrapper |-> "idle"]
  /\ pid = [w \in Wrapper |-> NoPid]
  /\ seen = [w \in Wrapper |-> NoPid]
  /\ owner = NoFile
  /\ content = NoPid
  /\ child = [w \in Wrapper |-> "none"]
  /\ foreign = {}
  /\ reclaimed = FALSE

(* Cron or an operator starts the wrapper; the pid is any that is free.    *)
Start(w) ==
  /\ pc[w] = "idle"
  /\ \E p \in Pid \ LivePids : pid' = [pid EXCEPT ![w] = p]
  /\ pc' = [pc EXCEPT ![w] = "open"]
  /\ UNCHANGED <<seen, owner, content, child, foreign, reclaimed>>

(* os.open(O_CREAT | O_EXCL) succeeds: an empty file is at the path.       *)
CreateLock(w) ==
  /\ pc[w] = "open"
  /\ owner = NoFile
  /\ owner' = w
  /\ content' = NoPid
  /\ Goto(w, "write")
  /\ UNCHANGED <<seen, child, foreign, reclaimed>>

(* os.open raises FileExistsError.                                         *)
LockExists(w) ==
  /\ pc[w] = "open"
  /\ owner # NoFile
  /\ Goto(w, "read")
  /\ UNCHANGED <<seen, owner, content, child, foreign, reclaimed>>

(* The holder's pid; a file that is gone again or still empty reads as 0.  *)
ReadHolder(w) ==
  /\ pc[w] = "read"
  /\ seen' = [seen EXCEPT ![w] = content]
  /\ Goto(w, "probe")
  /\ UNCHANGED <<owner, content, child, foreign, reclaimed>>

Stale(p) == p = NoPid \/ ~PidAlive(p)

(* The pid that was read names no live process: go and reclaim.            *)
FindStale(w) ==
  /\ pc[w] = "probe"
  /\ Stale(seen[w])
  /\ Goto(w, "unlink")
  /\ UNCHANGED <<seen, owner, content, child, foreign, reclaimed>>

(* The pid that was read is alive: return False, exit with EX_TEMPFAIL.    *)
FindHeld(w) ==
  /\ pc[w] = "probe"
  /\ ~Stale(seen[w])
  /\ Exit(w, "busy")
  /\ UNCHANGED <<seen, owner, content, child, foreign, reclaimed>>

(* lock.unlink() removes whatever file is at the path by now, and a file   *)
(* that is already gone is no error; then the create is tried again.       *)
Reclaim(w) ==
  /\ pc[w] = "unlink"
  /\ owner' = NoFile
  /\ content' = NoPid
  /\ reclaimed' = (reclaimed \/ owner # NoFile)
  /\ seen' = [seen EXCEPT ![w] = NoPid]
  /\ Goto(w, "open")
  /\ UNCHANGED <<child, foreign>>

(* os.write on the descriptor that w created: it reaches the path only if  *)
(* that file is still the one there.                                       *)
WritePid(w) ==
  /\ pc[w] = "write"
  /\ content' = IF owner = w THEN pid[w] ELSE content
  /\ Goto(w, "exec")
  /\ UNCHANGED <<seen, owner, child, foreign, reclaimed>>

(* subprocess.run starts the scoring CLI.                                  *)
SpawnScoring(w) ==
  /\ pc[w] = "exec"
  /\ child' = [child EXCEPT ![w] = "running"]
  /\ Goto(w, "wait")
  /\ UNCHANGED <<seen, owner, content, foreign, reclaimed>>

(* The scoring CLI ends, with whatever exit code.                          *)
ScoringExits(w) ==
  /\ child[w] = "running"
  /\ child' = [child EXCEPT ![w] = "ended"]
  /\ UNCHANGED <<pc, pid, seen, owner, content, foreign, reclaimed>>

(* subprocess.run returns in the wrapper.                                  *)
Reap(w) ==
  /\ pc[w] = "wait"
  /\ child[w] = "ended"
  /\ Goto(w, "release")
  /\ UNCHANGED <<seen, owner, content, child, foreign, reclaimed>>

(* The finally clause: unlink whatever is at the path, exit.               *)
Release(w) ==
  /\ pc[w] = "release"
  /\ owner' = NoFile
  /\ content' = NoPid
  /\ Exit(w, "ran")
  /\ UNCHANGED <<seen, child, foreign, reclaimed>>

(* The process of w is killed; no finally clause runs.                     *)
Kill(w) ==
  /\ Active(w)
  /\ Exit(w, "killed")
  /\ UNCHANGED <<seen, owner, content, child, foreign, reclaimed>>

ForeignStart(p) ==
  /\ p \notin LivePids
  /\ foreign' = foreign \cup {p}
  /\ UNCHANGED <<pc, pid, seen, owner, content, child, reclaimed>>

ForeignExit(p) ==
  /\ p \in foreign
  /\ foreign' = foreign \ {p}
  /\ UNCHANGED <<pc, pid, seen, owner, content, child, reclaimed>>

(* What the code of w does once it is started.                             *)
Step(w) ==
  \/ CreateLock(w) \/ LockExists(w)
  \/ ReadHolder(w) \/ FindStale(w) \/ FindHeld(w) \/ Reclaim(w)
  \/ WritePid(w) \/ SpawnScoring(w) \/ Reap(w) \/ Release(w)

Next ==
  \/ \E w \in Wrapper : Start(w) \/ Step(w) \/ ScoringExits(w) \/ Kill(w)
  \/ \E p \in Pid : ForeignStart(p) \/ ForeignExit(p)

Spec == Init /\ [][Next]_vars

(* A process that can run is scheduled, and a scoring child ends.          *)
Fairness ==
  \A w \in Wrapper : WF_vars(Step(w)) /\ WF_vars(ScoringExits(w))

FairSpec == Spec /\ Fairness

-----------------------------------------------------------------------------
TypeOK ==
  /\ pc \in [Wrapper -> {"idle", "open", "read", "probe", "unlink"}
                          \cup Entered \cup Ended]
  /\ pid \in [Wrapper -> Pid \cup {NoPid}]
  /\ seen \in [Wrapper -> Pid \cup {NoPid}]
  /\ owner \in Wrapper \cup {NoFile}
  /\ content \in Pid \cup {NoPid}
  /\ child \in [Wrapper -> {"none", "running", "ended"}]
  /\ foreign \subseteq Pid
  /\ reclaimed \in BOOLEAN

(* Two scoring processes never run at once: the module docstring's "Lock   *)
(* file preventing overlapping runs ... should wait/abort, not race".      *)
(* It does not hold.                                                       *)
Scoring(w) == child[w] = "running"

NoOverlap == \A u, v \in Wrapper : Scoring(u) /\ Scoring(v) => u = v

(* What the create with O_EXCL does give: as long as no lock file was ever *)
(* removed as stale, at most one scoring process runs, killed wrappers     *)
(* and their orphaned children included.                                   *)
ExclusiveUnlessReclaimed == ~reclaimed => NoOverlap

(* The lock file at the path belongs to an invocation that is still        *)
(* between its create and its unlink, or to one that was killed: however   *)
(* the creates, reclaims and releases of several invocations interleave,   *)
(* one whose steps all succeed leaves no lock of its own behind.  A write  *)
(* of the pid or an unlink of a stale lock that raises ends the process    *)
(* before the try of run_scoring; here that is a Kill at the same step.    *)
NoLeakedLock == owner # NoFile => pc[owner] \in Entered \cup {"killed"}

(* Exit code 75 never means that everyone stood aside: if nobody was       *)
(* killed and one invocation gave up, some invocation got past             *)
(* _acquire_lock.                                                          *)
NotAllTurnedAway ==
  (\E w \in Wrapper : pc[w] = "busy") /\ (\A w \in Wrapper : pc[w] # "killed")
    => \E v \in Wrapper : pc[v] \in Holding \cup {"ran"}

(* The `while True` of _acquire_lock ends: an invocation that was started  *)
(* ends, however often others create and reclaim in between.               *)
EveryInvocationEnds ==
  \A w \in Wrapper : pc[w] = "open" ~> pc[w] \in Ended

(* "A lock whose PID is no longer running is reclaimed": an invocation     *)
(* that finds the lock of a dead holder, or one left empty, runs scoring   *)
(* unless another invocation is around, the holder's pid has come back to  *)
(* life in another process, or it is killed.                               *)
Alone(w) == \A v \in Wrapper \ {w} : ~Active(v)

StaleLockIsReclaimed ==
  \A w \in Wrapper :
    (pc[w] = "open" /\ Alone(w))
      ~> (\/ pc[w] \in Holding \cup {"killed"}
          \/ ~Alone(w)
          \/ PidAlive(content) \/ PidAlive(seen[w]))

=============================================================================
