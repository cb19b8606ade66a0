------------------------ MODULE ImageryPipeline_proofs ------------------------
(***************************************************************************)
(* The supervisor and its jobs together, for every list of cities, every   *)
(* imagery and any number of attempts, starts and jobs left behind.        *)
(*                                                                         *)
(* Of the jobs the invariant of ImageryJob is kept, for to them a          *)
(* supervisor is one that starts jobs.  Of the supervisor it takes that    *)
(* the city at hand is one of the list and not done (AtHand), that it      *)
(* waits for a job of that city (WaitsForOwn), that a city is marked done  *)
(* only after a job of its own exited with 0 (Earned), and that as long as *)
(* overall_ok holds every city passed so far is done (OkSoFar, ZeroIsDone).*)
(***************************************************************************)
EXTENDS ImageryPipeline, ImageryJob_proofs

InCity ==
  \/ spc \in {"attempt", "launch", "wait"}
  \/ spc \in {"truncate", "write"} /\ then # "city"

CheckpointTyped ==
  /\ file \in [City -> Sup!Entry] /\ mem \in [City -> Sup!Entry]
  /\ turn \in Nat \ {0} /\ then \in {"city", "attempt", "launch"}

AtHand == InCity => turn \in DOMAIN Cities /\ mem[Cities[turn]].status # "done"

WaitsForOwn ==
  spc = "wait" => child \in DOMAIN jobs /\ jobs[child].city = Cities[turn]

Succeeded(c) == \E j \in DOMAIN jobs : jobs[j].city = c /\ jobs[j].exit = "ok"

Earned == \A c \in City : Marked(c) => Succeeded(c)

OkSoFar ==
  spc # "off" =>
    /\ result = "none"
    /\ allOk => \A i \in 1..(turn - 1) \cap DOMAIN Cities : mem[Cities[i]].status = "done"

ZeroIsDone == result = "0" => \A i \in DOMAIN Cities : Marked(Cities[i])

PipelineInv ==
  /\ ImageryInv /\ CheckpointTyped /\ AtHand /\ WaitsForOwn
  /\ Earned /\ OkSoFar /\ ZeroIsDone
-----------------------------------------------------------------------------
(* The cities of the command line are cities.                              *)
LEMMA CityAtIndex ==
  /\ Len(Cities) \in Nat /\ DOMAIN Cities = 1..Len(Cities)
  /\ \A i \in DOMAIN Cities : Cities[i] \in City
BY PipelineAssumption

(* Inside the loop of a city, this is one of them.                         *)
LEMMA ThisIsCity == AtHand /\ InCity => Sup!This \in City /\ turn \in DOMAIN Cities
BY CityAtIndex DEF AtHand, Sup!This

(* What the supervisor sees of the jobs: as many, each with its city.      *)
LEMMA OutcomesShape ==
  ASSUME jobs \in Seq(Job)
  PROVE  /\ Outcomes \in Seq(Sup!Job)
         /\ DOMAIN Outcomes = DOMAIN jobs /\ Len(Outcomes) = Len(jobs)
         /\ \A j \in DOMAIN jobs :
              Outcomes[j] = [city |-> jobs[j].city, exit |-> jobs[j].exit]
<1>1. /\ DOMAIN Outcomes = 1..Len(jobs) /\ Len(jobs) \in Nat /\ DOMAIN jobs = 1..Len(jobs)
      /\ \A j \in DOMAIN jobs : Outcomes[j] = [city |-> jobs[j].city, exit |-> jobs[j].exit]
  BY DEF Outcomes
<1>2. \A j \in DOMAIN jobs : [city |-> jobs[j].city, exit |-> jobs[j].exit] \in Sup!Job
  <2>1. \A j \in DOMAIN jobs : jobs[j] \in Job
    OBVIOUS
  <2> QED
    BY <2>1 DEF Job, Sup!Job
<1>3. Outcomes \in [1..Len(jobs) -> Sup!Job]
  BY <1>1, <1>2 DEF Outcomes
<1>4. Outcomes \in Seq(Sup!Job) /\ Len(Outcomes) = Len(jobs)
  <2> HIDE DEF Outcomes
  <2> QED
    BY <1>1, <1>3
<1> QED
  BY <1>1, <1>4

(* Nothing is stored and nobody has run.                                   *)
LEMMA PipelineInitial == PipelineInit => PipelineInv /\ Sup!Init
<1> SUFFICES ASSUME PipelineInit PROVE PipelineInv
  BY DEF PipelineInit
<1>1. ImageryInv
  BY ImageryInit DEF PipelineInit
<1>2. CheckpointTyped
  BY DEF PipelineInit, Sup!Init, Sup!Fresh, Sup!NewEntry, Sup!Entry, Sup!Status,
     CheckpointTyped
<1>3. AtHand /\ WaitsForOwn /\ OkSoFar /\ ZeroIsDone
  BY DEF PipelineInit, Sup!Init, AtHand, InCity, WaitsForOwn, OkSoFar, ZeroIsDone
<1>4. Earned
  BY DEF PipelineInit, Sup!Init, Sup!Fresh, Sup!NewEntry, Earned, Marked
<1> QED
  BY <1>1, <1>2, <1>3, <1>4 DEF PipelineInv

-----------------------------------------------------------------------------
(* To the jobs, each step is one of theirs, the start of one, or none.     *)
LEMMA JobsSee == PipelineInv /\ [PipelineNext]_vars => [Next]_jvars
<1> SUFFICES ASSUME PipelineInv, [PipelineNext]_vars PROVE [Next]_jvars
  OBVIOUS
<1>1. CASE Launch
  <2>1. Sup!This \in City
    BY <1>1, ThisIsCity DEF Launch, Sup!LaunchChild, PipelineInv, InCity
  <2> QED
    BY <1>1, <2>1 DEF Launch, Next
<1>2. CASE Ingest
  BY <1>2 DEF Ingest, Next
<1>3. CASE Supervise \/ UNCHANGED vars
  BY <1>3 DEF Supervise, vars
<1> QED
  BY <1>1, <1>2, <1>3 DEF PipelineNext

(* A job that runs goes on or exits, its city is the same; one that has    *)
(* exited stays as it is.                                                  *)
LEMMA JobsOutcome ==
  ASSUME PipelineInv, NEW j \in DOMAIN jobs, Proceed(j) \/ Fail(j)
  PROVE  /\ jobs[j].exit = "running"
         /\ \E e \in {"running", "ok", "failed"} :
              Outcomes' = [Outcomes EXCEPT ![j] = [city |-> jobs[j].city, exit |-> e]]
<1>0. TypeOK /\ jobs \in Seq(Job) /\ TypeOK'
  BY TypeStep DEF PipelineInv, ImageryInv, TypeOK, Next, JobStep
<1>1. /\ jobs[j].exit = "running" /\ jobs'[j].city = jobs[j].city
      /\ DOMAIN jobs' = DOMAIN jobs
      /\ \A k \in DOMAIN jobs : k # j => jobs'[k] = jobs[k]
  BY <1>0, Frame
<1>2. jobs'[j].exit \in {"running", "ok", "failed"}
  <2>1. jobs'[j] \in Job
    BY <1>0, <1>1 DEF TypeOK
  <2> QED
    BY <2>1 DEF Job
<1>3. Outcomes' = [Outcomes EXCEPT ![j] = [city |-> jobs[j].city, exit |-> jobs'[j].exit]]
  BY <1>1 DEF Outcomes
<1> QED
  BY <1>1, <1>2, <1>3

(* To the supervisor too: a child starts as it expects, and whatever a job *)
(* does is to it either the end of that job or nothing.                    *)
LEMMA SupervisorSees ==
  PipelineInv /\ [PipelineNext]_vars => [Sup!Next]_(Sup!vars)
<1> SUFFICES ASSUME PipelineInv, [PipelineNext]_vars PROVE [Sup!Next]_(Sup!vars)
  OBVIOUS
<1>0. jobs \in Seq(Job)
  BY DEF PipelineInv, ImageryInv, TypeOK
<1>1. CASE Launch
  <2>1. jobs' = Append(jobs, NewJob(Sup!This))
    BY <1>1 DEF Launch, Spawn
  <2>2. NewJob(Sup!This).city = Sup!This /\ NewJob(Sup!This).exit = "running"
    BY DEF NewJob
  <2>3. Outcomes' = Append(Outcomes, [city |-> Sup!This, exit |-> "running"])
    <3>1. /\ DOMAIN jobs' = 1..(Len(jobs) + 1) /\ jobs'[Len(jobs) + 1] = NewJob(Sup!This)
          /\ \A k \in 1..Len(jobs) : jobs'[k] = jobs[k]
      BY <1>0, <2>1
    <3>2. Outcomes' = [k \in 1..(Len(jobs) + 1) |->
                         IF k = Len(jobs) + 1 THEN [city |-> Sup!This, exit |-> "running"]
                         ELSE [city |-> jobs[k].city, exit |-> jobs[k].exit]]
      BY <2>2, <3>1 DEF Outcomes
    <3>3. /\ Outcomes \in Seq(Sup!Job) /\ Len(Outcomes) = Len(jobs)
          /\ \A k \in 1..Len(jobs) : Outcomes[k] = [city |-> jobs[k].city, exit |-> jobs[k].exit]
      BY <1>0, OutcomesShape
    <3>4. Append(Outcomes, [city |-> Sup!This, exit |-> "running"]) =
            [k \in 1..(Len(jobs) + 1) |->
               IF k = Len(jobs) + 1 THEN [city |-> Sup!This, exit |-> "running"]
               ELSE Outcomes[k]]
      <4> HIDE DEF Outcomes
      <4> QED
        BY <3>3
    <3> QED
      BY <3>2, <3>3, <3>4
  <2> QED
    BY <1>1, <2>3 DEF Launch, Sup!Next, Sup!Launch
<1>2. ASSUME NEW j \in DOMAIN jobs, Proceed(j) \/ Fail(j), UNCHANGED svars
      PROVE  [Sup!Next]_(Sup!vars)
  <2>1. PICK e \in {"running", "ok", "failed"} :
          Outcomes' = [Outcomes EXCEPT ![j] = [city |-> jobs[j].city, exit |-> e]]
    BY <1>2, JobsOutcome
  <2>2. /\ jobs[j].exit = "running" /\ j \in DOMAIN Outcomes
        /\ Outcomes[j] = [city |-> jobs[j].city, exit |-> "running"]
    BY <1>0, <1>2, JobsOutcome, OutcomesShape
  <2>3. UNCHANGED Sup!svars
    BY <1>2 DEF svars, Sup!svars
  <2>4. CASE e = "running"
    <3>1. Outcomes' = Outcomes
      BY <2>1, <2>2, <2>4 DEF Outcomes
    <3> QED
      BY <2>3, <3>1 DEF Sup!vars
  <2>5. CASE e \in {"ok", "failed"}
    <3>1. Outcomes' = [Outcomes EXCEPT ![j] = [city |-> Outcomes[j].city, exit |-> e]]
      BY <2>1, <2>2
    <3>2. Outcomes[j].exit = "running"
      BY <2>2
    <3>3. Sup!JobEnds(j)
      BY <2>3, <2>5, <3>1, <3>2 DEF Sup!JobEnds
    <3> QED
      BY <2>2, <3>3 DEF Sup!Next
  <2> QED
    BY <2>4, <2>5
<1>3. CASE Supervise
  BY <1>3 DEF Supervise, Sup!Next
<1>4. CASE UNCHANGED vars
  <2>1. Outcomes' = Outcomes
    BY <1>4 DEF Outcomes, vars, jvars
  <2> QED
    BY <1>4, <2>1 DEF vars, svars, Sup!vars, Sup!svars
<1> QED
  BY <1>1, <1>2, <1>3, <1>4 DEF PipelineNext, Ingest, JobStep

-----------------------------------------------------------------------------
(* A job that ended well stays, and a job keeps its city.                  *)
LEMMA JobsKept ==
  PipelineInv /\ [PipelineNext]_vars =>
    /\ DOMAIN jobs \subseteq DOMAIN jobs'
    /\ \A j \in DOMAIN jobs :
         jobs'[j].city = jobs[j].city /\ (jobs[j].exit = "ok" => jobs'[j].exit = "ok")
<1> DEFINE Kept ==
      /\ DOMAIN jobs \subseteq DOMAIN jobs'
      /\ \A j \in DOMAIN jobs :
           jobs'[j].city = jobs[j].city /\ (jobs[j].exit = "ok" => jobs'[j].exit = "ok")
<1> SUFFICES ASSUME PipelineInv, [PipelineNext]_vars PROVE Kept
  OBVIOUS
<1>0. TypeOK
  BY DEF PipelineInv, ImageryInv
<1>1. ASSUME NEW c \in City, Spawn(c)
      PROVE  Kept
  BY <1>0, <1>1, SpawnFrame
<1>2. ASSUME NEW k \in DOMAIN jobs, Proceed(k) \/ Fail(k)
      PROVE  Kept
  BY <1>0, <1>2, Frame
<1> QED
  BY <1>1, <1>2, JobsSee DEF Next, JobStep, jvars

LEMMA SucceededStable ==
  ASSUME PipelineInv, [PipelineNext]_vars, NEW c \in City, Succeeded(c)
  PROVE  Succeeded(c)'
<1> PICK j \in DOMAIN jobs : jobs[j].city = c /\ jobs[j].exit = "ok"
  BY DEF Succeeded
<1>1. j \in DOMAIN jobs' /\ jobs'[j].city = c /\ jobs'[j].exit = "ok"
  BY JobsKept
<1> QED
  BY <1>1 DEF Succeeded

-----------------------------------------------------------------------------
(* The checkpoint, in the file and in memory, keeps its type.              *)
LEMMA CheckpointStep == PipelineInv /\ [PipelineNext]_vars => CheckpointTyped'
<1> SUFFICES ASSUME PipelineInv, [PipelineNext]_vars PROVE CheckpointTyped'
  OBVIOUS
<1>0. /\ file \in [City -> Sup!Entry] /\ mem \in [City -> Sup!Entry] /\ turn \in Nat \ {0}
      /\ then \in {"city", "attempt", "launch"}
      /\ \A c \in City : mem[c].attempts \in Nat
  BY DEF PipelineInv, CheckpointTyped, Sup!Entry
<1>1. ASSUME NEW c \in City, NEW n \in Nat, NEW s \in Sup!Status
      PROVE  [mem EXCEPT ![c] = [attempts |-> n, status |-> s]] \in [City -> Sup!Entry]
  BY <1>0 DEF Sup!Entry
<1>2. CASE Sup!Start \/ Sup!StartReset \/ Sup!Truncate
  <2>1. Sup!Fresh \in [City -> Sup!Entry]
    BY DEF Sup!Fresh, Sup!NewEntry, Sup!Entry, Sup!Status
  <2> QED
    BY <1>0, <1>2, <2>1 DEF Sup!Start, Sup!StartReset, Sup!Begin, Sup!Truncate, CheckpointTyped
<1>3. CASE Sup!BeginAttempt
  <2>1. Sup!This \in City
    BY <1>3, ThisIsCity DEF Sup!BeginAttempt, PipelineInv, InCity
  <2>2. mem' = [mem EXCEPT ![Sup!This] = [attempts |-> mem[Sup!This].attempts + 1,
                                          status |-> "running"]]
    BY <1>0, <1>3, <2>1 DEF Sup!BeginAttempt
  <2>3. mem[Sup!This].attempts + 1 \in Nat /\ "running" \in Sup!Status
    BY <1>0, <2>1 DEF Sup!Status
  <2>4. mem' \in [City -> Sup!Entry]
    BY <1>1, <2>1, <2>2, <2>3
  <2> QED
    BY <1>0, <1>3, <2>4 DEF Sup!BeginAttempt, Sup!SaveThen, CheckpointTyped
<1>4. CASE Sup!GiveUp \/ Sup!ReapDone \/ Sup!ReapFailed
  <2>1. Sup!This \in City
    BY <1>4, ThisIsCity DEF Sup!GiveUp, Sup!ReapDone, Sup!ReapFailed, PipelineInv, InCity
  <2>2. PICK s \in Sup!Status :
          mem' = [mem EXCEPT ![Sup!This] = [attempts |-> mem[Sup!This].attempts,
                                            status |-> s]]
    BY <1>0, <1>4, <2>1 DEF Sup!GiveUp, Sup!ReapDone, Sup!ReapFailed, Sup!Mark, Sup!Status
  <2>3. mem' \in [City -> Sup!Entry]
    BY <1>0, <1>1, <2>1, <2>2
  <2>4. file' = file /\ turn' \in {turn, turn + 1} /\ then' \in {"city", "attempt"}
    BY <1>4 DEF Sup!GiveUp, Sup!ReapDone, Sup!ReapFailed, Sup!SaveThen
  <2> QED
    BY <1>0, <2>3, <2>4 DEF CheckpointTyped
<1>5. CASE Sup!SkipDone \/ Sup!EnterCity \/ Sup!WriteFile \/ Sup!Exit
  BY <1>0, <1>5 DEF Sup!SkipDone, Sup!EnterCity, Sup!WriteFile, Sup!Exit,
     CheckpointTyped
<1>6. CASE Sup!Kill \/ Sup!LaunchChild \/ UNCHANGED svars
  BY <1>0, <1>6 DEF Sup!Kill, Sup!LaunchChild, svars, CheckpointTyped
<1> QED
  BY <1>2, <1>3, <1>4, <1>5, <1>6 DEF PipelineNext, Supervise, Launch, Ingest, Sup!Work, vars

(* Where the supervisor is in its list, and whom it waits for.             *)
LEMMA PlaceStep == PipelineInv /\ [PipelineNext]_vars => AtHand' /\ WaitsForOwn'
<1> DEFINE Place == AtHand /\ WaitsForOwn
<1> SUFFICES ASSUME PipelineInv, [PipelineNext]_vars PROVE Place'
  OBVIOUS
<1>0. /\ AtHand /\ WaitsForOwn /\ TypeOK /\ CheckpointTyped
      /\ mem \in [City -> Sup!Entry]
      /\ InCity => Sup!This \in City /\ turn \in DOMAIN Cities
      /\ Sup!This = Cities[turn]
  BY ThisIsCity DEF PipelineInv, ImageryInv, CheckpointTyped, Sup!This
<1> USE DEF AtHand, WaitsForOwn, InCity
<1>1. CASE Sup!Start \/ Sup!StartReset
  BY <1>1 DEF Sup!Start, Sup!StartReset, Sup!Begin
<1>2. CASE Sup!SkipDone \/ Sup!Exit \/ Sup!Kill
  BY <1>2 DEF Sup!SkipDone, Sup!Exit, Sup!Kill
<1>3. CASE Sup!EnterCity
  <2>1. turn \in DOMAIN Cities
    BY <1>0, <1>3, CityAtIndex DEF Sup!EnterCity, CheckpointTyped
  <2> QED
    BY <1>0, <1>3, <2>1 DEF Sup!EnterCity
<1>4. CASE Sup!BeginAttempt
  BY <1>0, <1>4 DEF Sup!BeginAttempt, Sup!SaveThen, Sup!Entry
<1>5. CASE Sup!GiveUp \/ Sup!ReapDone
  BY <1>5 DEF Sup!GiveUp, Sup!ReapDone, Sup!SaveThen
<1>6. CASE Sup!ReapFailed
  BY <1>0, <1>6 DEF Sup!ReapFailed, Sup!SaveThen, Sup!Mark, Sup!Entry
<1>7. CASE Sup!Truncate \/ Sup!WriteFile
  <2>1. mem' = mem /\ turn' = turn /\ spc' # "wait"
    BY <1>0, <1>7 DEF Sup!Truncate, Sup!WriteFile, CheckpointTyped
  <2> QED
    BY <1>0, <1>7, <2>1 DEF Sup!Truncate, Sup!WriteFile
<1>8. CASE Launch
  <2>1. /\ child' = Len(Outcomes) + 1 /\ mem' = mem /\ turn' = turn
        /\ Sup!This \in City /\ InCity
    BY <1>0, <1>8 DEF Launch, Sup!LaunchChild
  <2>2. child' \in DOMAIN jobs' /\ jobs'[child'].city = Sup!This
    <3>1. jobs' = Append(jobs, NewJob(Sup!This)) /\ NewJob(Sup!This).city = Sup!This
      BY <1>8 DEF Launch, Spawn, NewJob
    <3>2. jobs \in Seq(Job) /\ Len(Outcomes) = Len(jobs)
      BY <1>0, OutcomesShape DEF TypeOK
    <3> QED
      BY <2>1, <3>1, <3>2
  <2> QED
    BY <1>0, <2>1, <2>2
<1>9. CASE UNCHANGED svars
  BY <1>0, <1>9, JobsKept DEF svars
<1> QED
  BY <1>1, <1>2, <1>3, <1>4, <1>5, <1>6, <1>7, <1>8, <1>9
     DEF PipelineNext, Supervise, Ingest, Sup!Work, vars

(* Only a job of its own that exited with 0 makes a city done.             *)
LEMMA EarnedStep == PipelineInv /\ [PipelineNext]_vars => Earned'
<1> SUFFICES ASSUME PipelineInv, [PipelineNext]_vars, NEW c \in City, Marked(c)'
             PROVE  Succeeded(c)'
  BY DEF Earned
<1> USE DEF Marked
<1>0. /\ Marked(c) => Succeeded(c)'
      /\ mem \in [City -> Sup!Entry]
      /\ InCity => Sup!This \in City
      /\ Sup!This = Cities[turn]
  BY SucceededStable, ThisIsCity DEF PipelineInv, Earned, CheckpointTyped, Sup!This
<1>1. CASE Sup!ReapDone
  <2>1. CASE c = Sup!This
    <3>1. spc = "wait" /\ Outcomes[child].exit = "ok"
      BY <1>1 DEF Sup!ReapDone
    <3>2. child \in DOMAIN jobs /\ jobs[child].city = c /\ Outcomes[child].exit = jobs[child].exit
      BY <1>0, <2>1, <3>1, OutcomesShape DEF PipelineInv, ImageryInv, TypeOK, WaitsForOwn
    <3>3. Succeeded(c)
      BY <3>1, <3>2 DEF Succeeded
    <3> QED
      BY <3>3, SucceededStable
  <2>2. CASE c # Sup!This
    BY <1>0, <1>1, <2>2 DEF Sup!ReapDone, Sup!Mark
  <2> QED
    BY <2>1, <2>2
<1>2. CASE Sup!BeginAttempt \/ Sup!GiveUp \/ Sup!ReapFailed
  BY <1>0, <1>2 DEF Sup!BeginAttempt, Sup!GiveUp, Sup!ReapFailed, Sup!Mark, Sup!Entry, InCity
<1>3. CASE Sup!Start
  BY <1>0, <1>3 DEF Sup!Start, Sup!Begin
<1>4. CASE Sup!StartReset
  <2>1. mem'[c].status = "pending" /\ file'[c].status = "pending"
    BY <1>4 DEF Sup!StartReset, Sup!Begin, Sup!Fresh, Sup!NewEntry
  <2> QED
    BY <2>1
<1>5. CASE Sup!WriteFile \/ Sup!Truncate
  <2>1. CASE Sup!WriteFile
    BY <1>0, <2>1 DEF Sup!WriteFile
  <2>2. CASE Sup!Truncate
    <3>1. mem' = mem /\ file'[c].status = "pending"
      BY <2>2 DEF Sup!Truncate, Sup!Fresh, Sup!NewEntry
    <3> QED
      BY <1>0, <3>1
  <2> QED
    BY <1>5, <2>1, <2>2
<1>6. CASE mem' = mem /\ file' = file
  BY <1>0, <1>6
<1> QED
  BY <1>1, <1>2, <1>3, <1>4, <1>5, <1>6
     DEF PipelineNext, Supervise, Launch, Ingest, Sup!Work, vars, svars, Sup!SkipDone,
         Sup!EnterCity, Sup!Exit, Sup!Truncate, Sup!LaunchChild, Sup!Kill

(* overall_ok and the exit code tell what the checkpoint says.             *)
LEMMA ExitStep == PipelineInv /\ [PipelineNext]_vars => OkSoFar' /\ ZeroIsDone'
<1> DEFINE Told == OkSoFar /\ ZeroIsDone
<1> SUFFICES ASSUME PipelineInv, [PipelineNext]_vars PROVE Told'
  OBVIOUS
<1>0. /\ OkSoFar /\ ZeroIsDone
      /\ mem \in [City -> Sup!Entry] /\ turn \in Nat \ {0}
      /\ Sup!This = Cities[turn]
      /\ InCity => Sup!This \in City /\ turn \in DOMAIN Cities /\ mem[Sup!This].status # "done"
  BY ThisIsCity DEF PipelineInv, CheckpointTyped, AtHand, Sup!This
<1> USE CityAtIndex DEF OkSoFar, ZeroIsDone
<1>1. CASE Sup!Start \/ Sup!StartReset
  BY <1>1 DEF Sup!Start, Sup!StartReset, Sup!Begin
<1>2. CASE Sup!SkipDone
  <2>1. /\ spc = "city" /\ mem[Cities[turn]].status = "done" /\ turn' = turn + 1
        /\ mem' = mem /\ allOk' = allOk /\ result' = result /\ spc' = spc
    BY <1>0, <1>2 DEF Sup!SkipDone
  <2>2. \A i \in 1..(turn' - 1) : i \in 1..(turn - 1) \/ i = turn
    BY <1>0, <2>1
  <2> QED
    BY <1>0, <2>1, <2>2
<1>3. CASE Sup!Exit
  <2>1. /\ spc = "city" /\ turn > Len(Cities) /\ spc' = "off"
        /\ mem' = mem /\ file' = file /\ result' = (IF allOk THEN "0" ELSE "1")
    BY <1>3 DEF Sup!Exit
  <2>2. DOMAIN Cities \subseteq 1..(turn - 1)
    BY <1>0, <2>1
  <2> QED
    BY <1>0, <2>1, <2>2 DEF Marked
<1>4. CASE Sup!BeginAttempt \/ Sup!ReapFailed
  <2>1. /\ InCity /\ spc # "off" /\ allOk' = allOk /\ turn' = turn /\ result' = result
        /\ spc' # "off"
    BY <1>4 DEF Sup!BeginAttempt, Sup!ReapFailed, Sup!SaveThen, InCity
  <2>2. \A c \in City \ {Sup!This} : mem'[c] = mem[c]
    BY <1>0, <1>4 DEF Sup!BeginAttempt, Sup!ReapFailed, Sup!Mark
  <2>3. ASSUME allOk, NEW i \in 1..(turn - 1) \cap DOMAIN Cities
        PROVE  mem'[Cities[i]].status = "done"
    <3>1. mem[Cities[i]].status = "done" /\ Cities[i] \in City
      BY <1>0, <2>1, <2>3
    <3> QED
      BY <1>0, <2>1, <2>2, <3>1
  <2> QED
    BY <1>0, <2>1, <2>3
<1>5. CASE Sup!GiveUp
  BY <1>0, <1>5 DEF Sup!GiveUp, Sup!SaveThen
<1>6. CASE Sup!ReapDone
  <2>1. /\ InCity /\ spc # "off" /\ allOk' = allOk /\ turn' = turn + 1 /\ result' = result
        /\ spc' # "off"
    BY <1>6 DEF Sup!ReapDone, Sup!SaveThen, InCity
  <2>2. mem'[Sup!This].status = "done" /\ \A c \in City \ {Sup!This} : mem'[c] = mem[c]
    BY <1>0, <1>6, <2>1 DEF Sup!ReapDone, Sup!Mark
  <2>3. ASSUME allOk, NEW i \in 1..(turn' - 1) \cap DOMAIN Cities
        PROVE  mem'[Cities[i]].status = "done"
    <3>1. CASE i = turn
      BY <1>0, <2>2, <3>1
    <3>2. CASE i # turn
      <4>1. i \in 1..(turn - 1) \cap DOMAIN Cities /\ Cities[i] \in City
        BY <1>0, <2>1, <2>3, <3>2
      <4>2. mem[Cities[i]].status = "done"
        BY <1>0, <2>1, <2>3, <4>1
      <4> QED
        BY <2>2, <4>1, <4>2
    <3> QED
      BY <3>1, <3>2
  <2> QED
    BY <1>0, <2>1, <2>3
<1>7. CASE Sup!EnterCity \/ Sup!Truncate \/ Sup!WriteFile \/ Launch
  <2>1. /\ spc # "off" /\ spc' # "off" /\ result' = result
        /\ mem' = mem /\ allOk' = allOk /\ turn' = turn
    BY <1>7 DEF Sup!EnterCity, Sup!Truncate, Sup!WriteFile, Launch, Sup!LaunchChild,
       PipelineInv, CheckpointTyped
  <2> QED
    BY <1>0, <2>1
<1>8. CASE Sup!Kill
  BY <1>0, <1>8 DEF Sup!Kill
<1>9. CASE UNCHANGED svars
  BY <1>0, <1>9 DEF svars, Marked
<1> QED
  BY <1>1, <1>2, <1>3, <1>4, <1>5, <1>6, <1>7, <1>8, <1>9
     DEF PipelineNext, Supervise, Ingest, Sup!Work, vars

-----------------------------------------------------------------------------
(* The invariant holds in every reachable state of the composition.        *)
THEOREM PipelineInvariant == PipelineSpec => []PipelineInv
<1>1. PipelineInv /\ [PipelineNext]_vars => PipelineInv'
  <2>1. PipelineInv /\ [PipelineNext]_vars => ImageryInv'
    BY JobsSee, ImageryStep DEF PipelineInv
  <2> QED
    BY <2>1, CheckpointStep, PlaceStep, EarnedStep, ExitStep DEF PipelineInv
<1> QED
  BY PipelineInitial, <1>1, PTL DEF PipelineSpec

(* The jobs that a supervisor starts behave as any jobs: what is proved of *)
(* ingest_imagery holds under the supervisor.                              *)
THEOREM JobsAreJobs == PipelineSpec => Spec
BY PipelineInvariant, JobsSee, PTL DEF PipelineSpec, PipelineInit, Spec

(* The supervisor with the real jobs behaves as it does with any jobs:     *)
(* what is proved of run_supervisor's checkpoint holds here.               *)
THEOREM SupervisorIsSupervisor == PipelineSpec => SupervisorSpec
BY PipelineInvariant, PipelineInitial, SupervisorSees, PTL
   DEF PipelineSpec, SupervisorSpec, Sup!Spec

(* A city that is done has a row for every image of its waypoints, except  *)
(* where a job of that city passed a waypoint over, whichever supervisor   *)
(* or job was killed and whichever jobs overlapped.                        *)
THEOREM DoneCitiesAreStored == PipelineSpec => []DoneMeansStored
<1>1. PipelineInv => DoneMeansStored
  <2> SUFFICES ASSUME PipelineInv, NEW c \in City, Marked(c), NEW i \in DOMAIN Waypoints[c]
               PROVE  HasRows(Waypoints[c][i]) \/ PassedOver(c, i)
    BY DEF DoneMeansStored
  <2>1. PICK j \in DOMAIN jobs : jobs[j].city = c /\ jobs[j].exit = "ok"
    BY DEF PipelineInv, Earned, Succeeded
  <2>2. \A n \in DOMAIN Waypoints[c] \ jobs[j].skipped : References(Waypoints[c][n]) \subseteq rows
    BY <2>1 DEF PipelineInv, ImageryInv, SuccessMeansStored, Covered, Route
  <2> QED
    BY <2>1, <2>2 DEF HasRows, PassedOver
<1> QED
  BY PipelineInvariant, <1>1, PTL

(* Exit code 0 of run_supervisor covers every city it was given: each      *)
(* image of each of its waypoints has a row, or the waypoint was passed    *)
(* over.                                                                   *)
AllStored ==
  \A n \in DOMAIN Cities : \A i \in DOMAIN Waypoints[Cities[n]] :
    HasRows(Waypoints[Cities[n]][i]) \/ PassedOver(Cities[n], i)

THEOREM ExitZeroMeansStored == PipelineSpec => [](result = "0" => AllStored)
<1>1. PipelineInv /\ DoneMeansStored => (result = "0" => AllStored)
  BY CityAtIndex DEF PipelineInv, ZeroIsDone, DoneMeansStored, AllStored
<1> QED
  BY PipelineInvariant, DoneCitiesAreStored, <1>1, PTL

(* A row always has its object, under the supervisor as well.              *)
THEOREM SupervisedRowsAreBacked == PipelineSpec => []RowHasObject
BY JobsAreJobs, RowsAreBacked, PTL
=============================================================================
