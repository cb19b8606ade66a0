-------------------------- MODULE ImagerySupervisor --------------------------
(***************************************************************************)
(* scripts/run_imagery_supervisor.py: one process at a time that takes the *)
(* cities of its command line in order and runs `ingestion.cli imagery`    *)
(* for each as a child process, up to Retries times, until it exits with   *)
(* 0.  A checkpoint file holds the attempts and the status of every city;  *)
(* it is rewritten in place on every change, by truncating and writing it. *)
(*                                                                         *)
(* The supervisor can be killed between any two steps.  A child it was     *)
(* waiting for goes on without it.  A later start reads the file.  If the  *)
(* kill came between the truncation and the write, the file is empty and   *)
(* what it said of every city is gone: json.loads raises, and no           *)
(* supervisor starts until one is given --reset, which deletes the file.   *)
(*                                                                         *)
(* Jobs are known here by their city and how they ended.  ImageryPipeline  *)
(* puts the real job in the place of JobEnds.                              *)
(***************************************************************************)
EXTENDS Naturals, Sequences

CONSTANTS
  City,      \* the city slugs
  Cities,    \* --cities: a sequence of slugs, the same at every start
  Retries,   \* --retries
  MaxStarts  \* bound: how often somebody starts the supervisor

ASSUME SupervisorAssumption ==
  /\ Cities \in Seq(City)
  /\ Retries \in Nat
  /\ MaxStarts \in Nat

VARIABLES
  file,     \* the checkpoint file's entry for every city, Fresh when it has none
  torn,     \* the file is empty: truncated, and not written since
  mem,      \* the Checkpoint object
  spc,      \* the supervisor's next step, "off" when none runs
  then,     \* where it goes on after the save under way
  turn,     \* the index in Cities of the city at hand
  allOk,    \* overall_ok
  result,   \* exit code of the last supervisor that ended, or "none"
  jobs,     \* every imagery job so far: its city, and how it ended
  child,    \* the index in jobs of the child waited for, 0 for none
  starts,   \* how often the supervisor was started
  launches, \* history: jobs started for a city since the last --reset
  origin,   \* history: the checkpoint that this supervisor loaded
  reached   \* history: the cities a file has had as done since the last --reset

svars == <<file, torn, mem, spc, then, turn, allOk, result, child, starts,
           launches, origin, reached>>
vars == <<svars, jobs>>

-----------------------------------------------------------------------------
Status == {"pending", "running", "done", "failed"}
Entry == [attempts : Nat, status : Status]
Job == [city : City, exit : {"running", "ok", "failed"}]

(* CityState(slug): what get() yields for a slug the file does not have.   *)
NewEntry == [attempts |-> 0, status |-> "pending"]
Fresh == [c \in City |-> NewEntry]

This == Cities[turn]

Mark(c, status) ==
  mem' = [mem EXCEPT ![c] = [attempts |-> @.attempts, status |-> status]]

(* Checkpoint.save, and what follows it.                                   *)
SaveThen(label) == spc' = "truncate" /\ then' = label

-----------------------------------------------------------------------------
(* Faulty variants of actions below, each a slip this code could have:     *)
(* nothing uses them, they show which slip each property rules out.        *)

(* The attempt is counted in memory and saved only with its outcome.       *)
BeginAttemptUnsaved ==
  /\ spc = "attempt"
  /\ mem[This].attempts < Retries
  /\ mem' = [mem EXCEPT ![This] = [attempts |-> @.attempts + 1, status |-> "running"]]
  /\ spc' = "launch"
  /\ UNCHANGED <<file, torn, then, turn, allOk, result, child, starts, launches,
                 origin, reached, jobs>>

(* A child that failed is taken for done.                                  *)
ReapAnyAsDone ==
  /\ spc = "wait"
  /\ jobs[child].exit # "running"
  /\ Mark(This, "done")
  /\ child' = 0
  /\ turn' = turn + 1
  /\ SaveThen("city")
  /\ UNCHANGED <<file, torn, allOk, result, starts, launches, origin, reached, jobs>>

(* overall_ok is not cleared for a city that was given up.                 *)
GiveUpQuietly ==
  /\ spc = "attempt"
  /\ mem[This].attempts >= Retries
  /\ Mark(This, "failed")
  /\ turn' = turn + 1
  /\ SaveThen("city")
  /\ UNCHANGED <<file, torn, allOk, result, child, starts, launches, origin, reached,
                 jobs>>

(* A city that was given up is taken up again.                             *)
GiveUpInPlace ==
  /\ spc = "attempt"
  /\ mem[This].attempts >= Retries
  /\ Mark(This, "failed")
  /\ allOk' = FALSE
  /\ SaveThen("attempt")
  /\ UNCHANGED <<file, torn, turn, result, child, starts, launches, origin, reached,
                 jobs>>

(* The city after one that is done is passed over.                         *)
ReapDoneSkipsNext ==
  /\ spc = "wait"
  /\ jobs[child].exit = "ok"
  /\ Mark(This, "done")
  /\ child' = 0
  /\ turn' = turn + 2
  /\ SaveThen("city")
  /\ UNCHANGED <<file, torn, allOk, result, starts, launches, origin, reached, jobs>>

-----------------------------------------------------------------------------
Init ==
  /\ file = Fresh /\ torn = FALSE
  /\ mem = Fresh
  /\ spc = "off" /\ then = "city" /\ turn = 1
  /\ allOk = TRUE /\ result = "none"
  /\ jobs = <<>> /\ child = 0
  /\ starts = 0
  /\ launches = [c \in City |-> 0]
  /\ origin = Fresh
  /\ reached = {}

(* Checkpoint.load of checkpoint f, and the head of run_supervisor.        *)
Begin(f) ==
  /\ spc = "off"
  /\ starts < MaxStarts
  /\ starts' = starts + 1
  /\ mem' = f /\ origin' = f
  /\ spc' = "city" /\ turn' = 1
  /\ allOk' = TRUE /\ result' = "none"
  /\ UNCHANGED <<then, child, jobs>>

(* A faulty Start: an empty file is taken for one that is not there.       *)
StartFromEmpty ==
  /\ Begin(file)
  /\ torn' = FALSE
  /\ UNCHANGED <<file, launches, reached>>

Start ==
  /\ ~torn
  /\ Begin(file)
  /\ UNCHANGED <<file, torn, launches, reached>>

StartReset ==
  /\ Begin(Fresh)
  /\ file' = Fresh /\ torn' = FALSE
  /\ launches' = [c \in City |-> 0]
  /\ reached' = {}

SkipDone ==
  /\ spc = "city"
  /\ turn <= Len(Cities)
  /\ mem[This].status = "done"
  /\ turn' = turn + 1
  /\ UNCHANGED <<file, torn, mem, spc, then, allOk, result, child, starts, launches,
                 origin, reached, jobs>>

EnterCity ==
  /\ spc = "city"
  /\ turn <= Len(Cities)
  /\ mem[This].status # "done"
  /\ spc' = "attempt"
  /\ UNCHANGED <<file, torn, mem, then, turn, allOk, result, child, starts, launches,
                 origin, reached, jobs>>

(* The attempt is counted and saved before the job is started.             *)
BeginAttempt ==
  /\ spc = "attempt"
  /\ mem[This].attempts < Retries
  /\ mem' = [mem EXCEPT ![This] = [attempts |-> @.attempts + 1, status |-> "running"]]
  /\ SaveThen("launch")
  /\ UNCHANGED <<file, torn, turn, allOk, result, child, starts, launches, origin,
                 reached, jobs>>

(* The attempts of the city are used up, in this run or in earlier ones.   *)
GiveUp ==
  /\ spc = "attempt"
  /\ mem[This].attempts >= Retries
  /\ Mark(This, "failed")
  /\ allOk' = FALSE
  /\ turn' = turn + 1
  /\ SaveThen("city")
  /\ UNCHANGED <<file, torn, result, child, starts, launches, origin, reached, jobs>>

(* write_text opens the file for writing, which empties it, ...            *)
Truncate ==
  /\ spc = "truncate"
  /\ file' = Fresh /\ torn' = TRUE
  /\ spc' = "write"
  /\ UNCHANGED <<mem, then, turn, allOk, result, child, starts, launches, origin,
                 reached, jobs>>

(* ... and writes the new content.                                         *)
WriteFile ==
  /\ spc = "write"
  /\ file' = mem /\ torn' = FALSE
  /\ spc' = then
  /\ reached' = reached \cup {c \in City : mem[c].status = "done"}
  /\ UNCHANGED <<mem, then, turn, allOk, result, child, starts, launches, origin,
                 jobs>>

(* What a start of a job is to the supervisor.                             *)
LaunchChild ==
  /\ spc = "launch"
  /\ child' = Len(jobs) + 1
  /\ launches' = [launches EXCEPT ![This] = @ + 1]
  /\ spc' = "wait"
  /\ UNCHANGED <<file, torn, mem, then, turn, allOk, result, starts, origin, reached>>

Launch ==
  /\ LaunchChild
  /\ jobs' = Append(jobs, [city |-> This, exit |-> "running"])

ReapDone ==
  /\ spc = "wait"
  /\ jobs[child].exit = "ok"
  /\ Mark(This, "done")
  /\ child' = 0
  /\ turn' = turn + 1
  /\ SaveThen("city")
  /\ UNCHANGED <<file, torn, allOk, result, starts, launches, origin, reached, jobs>>

(* After a failure the backoff only passes time.                           *)
ReapFailed ==
  /\ spc = "wait"
  /\ jobs[child].exit = "failed"
  /\ Mark(This, "pending")
  /\ child' = 0
  /\ SaveThen("attempt")
  /\ UNCHANGED <<file, torn, turn, allOk, result, starts, launches, origin, reached,
                 jobs>>

(* All cities are through: the process returns its exit code.              *)
Exit ==
  /\ spc = "city"
  /\ turn > Len(Cities)
  /\ spc' = "off"
  /\ result' = IF allOk THEN "0" ELSE "1"
  /\ UNCHANGED <<file, torn, mem, then, turn, allOk, child, starts, launches, origin,
                 reached, jobs>>

(* The supervisor is killed; a child goes on, what is saved stays.         *)
Kill ==
  /\ spc # "off"
  /\ spc' = "off"
  /\ child' = 0
  /\ UNCHANGED <<file, torn, mem, then, turn, allOk, result, starts, launches, origin,
                 reached, jobs>>

(* A job ends, waited for or not.                                          *)
JobEnds(j) ==
  /\ jobs[j].exit = "running"
  /\ \E e \in {"ok", "failed"} :
       jobs' = [jobs EXCEPT ![j] = [city |-> @.city, exit |-> e]]
  /\ UNCHANGED svars

(* The supervisor's own steps, except the start of a child.                *)
Work ==
  \/ SkipDone \/ EnterCity \/ BeginAttempt \/ GiveUp
  \/ Truncate \/ WriteFile \/ ReapDone \/ ReapFailed \/ Exit

Next ==
  \/ Start \/ StartReset \/ Work \/ Launch \/ Kill
  \/ \E j \in DOMAIN jobs : JobEnds(j)

Spec == Init /\ [][Next]_vars

(* A live supervisor is scheduled, and a job ends one way or the other.    *)
FairSpec ==
  /\ Spec
  /\ WF_vars(Work \/ Launch)
  /\ WF_vars(\E j \in DOMAIN jobs : JobEnds(j))

-----------------------------------------------------------------------------
Labels == {"off", "city", "attempt", "truncate", "write", "launch", "wait"}

TypeOK ==
  /\ file \in [City -> Entry] /\ mem \in [City -> Entry] /\ origin \in [City -> Entry]
  /\ torn \in BOOLEAN /\ allOk \in BOOLEAN
  /\ spc \in Labels /\ then \in {"city", "attempt", "launch"}
  /\ turn \in 1..(Len(Cities) + 1)
  /\ result \in {"none", "0", "1"}
  /\ jobs \in Seq(Job)
  /\ child \in 0..Len(jobs)
  /\ starts \in Nat
  /\ launches \in [City -> Nat]
  /\ reached \subseteq City

(* The retry budget survives kills and restarts: as long as nobody resets  *)
(* the checkpoint, no city gets more than Retries jobs altogether.         *)
BudgetKept == \A c \in City : launches[c] <= Retries

(* A city is never marked done, in memory or in the file, unless one of    *)
(* its jobs exited with 0.                                                 *)
Succeeded(c) == \E j \in DOMAIN jobs : jobs[j].city = c /\ jobs[j].exit = "ok"

DoneIsEarned ==
  \A c \in City :
    mem[c].status = "done" \/ file[c].status = "done" => Succeeded(c)

(* "0 - all configured cities reached terminal done state": when the       *)
(* supervisor ends with 0 the file on disk says so for every city.         *)
ExitZeroMeansAllDone ==
  result = "0" => ~torn /\ \A i \in DOMAIN Cities : file[Cities[i]].status = "done"

(* "skips ones already marked done": until somebody resets the checkpoint, *)
(* a city that the file has once had as done gets no further job, and      *)
(* every supervisor that runs knows it is done, also while a save has      *)
(* emptied the file.  A kill in that moment loses the status for good (the *)
(* file stays empty), but then no supervisor goes on from it: the loss     *)
(* never passes for a checkpoint in which nothing is done.                 *)
DoneStaysDone ==
  [][\A c \in reached :
        \/ reached' = {}
        \/ /\ launches'[c] = launches[c]
           /\ file'[c].status = "done" \/ torn'
           /\ spc' # "off" => mem'[c].status = "done"]_vars

(* A supervisor ends unless it is killed: it neither retries for ever nor  *)
(* waits for a child that is gone.                                         *)
SupervisorEnds == spc # "off" ~> spc = "off"

(* "Re-running the supervisor picks up unfinished cities": one that ends   *)
(* by itself has started a job for each city that its checkpoint had as    *)
(* neither done nor failed.  It does not hold: an attempt that was cut     *)
(* short by a kill counts, and after the last one the city is given up     *)
(* without a job.                                                          *)
PickedUp(c) == mem[c].attempts > origin[c].attempts

RerunPicksUpUnfinished ==
  result # "none" =>
    \A i \in DOMAIN Cities :
      origin[Cities[i]].status \in {"pending", "running"} => PickedUp(Cities[i])
=============================================================================
