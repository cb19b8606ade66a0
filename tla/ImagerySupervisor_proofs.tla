----------------------- MODULE ImagerySupervisor_proofs -----------------------
(***************************************************************************)
(* The supervisor's checkpoint for every list of cities, every number of   *)
(* retries and of starts.                                                  *)
(*                                                                         *)
(* What has to be carried along: outside a save the file is what memory    *)
(* is (Saved); the city at hand is one of the list and not done (AtHand);  *)
(* the child waited for is a job of that city (Waiting); an attempt is in  *)
(* the file before its job starts, and the budget holds without the file,  *)
(* which a save empties (Counted); a city that was done in a file is done  *)
(* in memory, and in the file unless that is empty (ReachedKept); and as   *)
(* long as overall_ok holds every city passed so far is done (OkSoFar).    *)
(***************************************************************************)
EXTENDS ImagerySupervisor, TLAPS

Saving == spc \in {"truncate", "write"}

(* Inside the while loop of a city.                                        *)
InCity == spc \in {"attempt", "launch", "wait"} \/ (Saving /\ then # "city")

AtHand == InCity => turn \in DOMAIN Cities /\ mem[This].status # "done"

Waiting == spc = "wait" => child \in DOMAIN jobs /\ jobs[child].city = This

Saved == spc \in {"city", "attempt", "launch", "wait"} => file = mem /\ ~torn

Counted ==
  /\ \A c \in City :
       /\ launches[c] <= Retries
       /\ ~torn => launches[c] <= file[c].attempts
       /\ file[c].attempts <= Retries /\ mem[c].attempts <= Retries
       /\ spc # "off" => launches[c] <= mem[c].attempts
  /\ spc = "launch" \/ (Saving /\ then = "launch")
       => launches[This] < mem[This].attempts

ReachedKept ==
  \A c \in reached :
    /\ file[c].status = "done" \/ torn
    /\ spc # "off" => mem[c].status = "done"

OkSoFar ==
  spc # "off" =>
    /\ result = "none"
    /\ allOk => \A i \in 1..(turn - 1) : mem[Cities[i]].status = "done"

SupervisorInv ==
  /\ TypeOK /\ AtHand /\ Waiting /\ Saved /\ Counted
  /\ DoneIsEarned /\ ReachedKept /\ OkSoFar /\ ExitZeroMeansAllDone

-----------------------------------------------------------------------------
(* The city of an index within the list is a city.                         *)
LEMMA CityAtIndex ==
  /\ Len(Cities) \in Nat /\ DOMAIN Cities = 1..Len(Cities)
  /\ \A i \in DOMAIN Cities : Cities[i] \in City
BY SupervisorAssumption

(* What the types say of the numbers in the checkpoint.                    *)
LEMMA Counts ==
  ASSUME TypeOK
  PROVE  /\ \A c \in City : /\ file[c].attempts \in Nat /\ mem[c].attempts \in Nat
                            /\ launches[c] \in Nat
         /\ Len(jobs) \in Nat /\ DOMAIN jobs = 1..Len(jobs)
         /\ Retries \in Nat
<1>1. \A e \in Entry : e.attempts \in Nat
  BY DEF Entry
<1> QED
  BY <1>1, SupervisorAssumption DEF TypeOK

(* While the supervisor is inside the loop of a city, this is a city.      *)
LEMMA ThisIsCity == AtHand /\ InCity => This \in City
BY CityAtIndex DEF AtHand, This

(* The file starts absent and no supervisor has run.                       *)
LEMMA SupervisorInit == Init => SupervisorInv
<1> SUFFICES ASSUME Init PROVE SupervisorInv
  OBVIOUS
<1> USE SupervisorAssumption, CityAtIndex DEF Init, Fresh, NewEntry
<1>1. TypeOK
  <2>1. Fresh \in [City -> Entry]
    BY DEF Entry, Status
  <2>2. turn \in 1..(Len(Cities) + 1) /\ jobs \in Seq(Job) /\ child \in 0..Len(jobs)
    OBVIOUS
  <2> QED
    BY <2>1, <2>2 DEF TypeOK, Labels
<1>2. AtHand /\ Waiting /\ Saved /\ ReachedKept /\ OkSoFar
  BY DEF AtHand, InCity, Saving, Waiting, Saved, ReachedKept, OkSoFar
<1>3. Counted /\ DoneIsEarned /\ ExitZeroMeansAllDone
  BY DEF Counted, DoneIsEarned, ExitZeroMeansAllDone, Saving
<1> QED
  BY <1>1, <1>2, <1>3 DEF SupervisorInv

(* A job that ended well stays in the list of jobs.                        *)
LEMMA SucceededStable ==
  ASSUME TypeOK, [Next]_vars, NEW c \in City, Succeeded(c)
  PROVE  Succeeded(c)'
<1> PICK j \in DOMAIN jobs : jobs[j].city = c /\ jobs[j].exit = "ok"
  BY DEF Succeeded
<1>1. j \in DOMAIN jobs' /\ jobs'[j] = jobs[j]
  <2>1. CASE Launch
    BY <2>1 DEF Launch, TypeOK
  <2>2. ASSUME NEW k \in DOMAIN jobs, JobEnds(k) PROVE j \in DOMAIN jobs' /\ jobs'[j] = jobs[j]
    BY <2>2 DEF JobEnds, TypeOK
  <2>3. CASE jobs' = jobs
    BY <2>3
  <2> QED
    BY <2>1, <2>2, <2>3 DEF Next, vars, Start, StartReset, Begin, Work, Kill,
       SkipDone, EnterCity, BeginAttempt, GiveUp, Truncate, WriteFile, ReapDone,
       ReapFailed, Exit
<1> QED
  BY <1>1 DEF Succeeded

-----------------------------------------------------------------------------
(* The checkpoint, in the file and in memory, keeps its type.              *)
LEMMA EntriesStep ==
  SupervisorInv /\ [Next]_vars =>
    /\ file' \in [City -> Entry] /\ mem' \in [City -> Entry]
    /\ origin' \in [City -> Entry] /\ launches' \in [City -> Nat]
<1> DEFINE Typed ==
      /\ file \in [City -> Entry] /\ mem \in [City -> Entry]
      /\ origin \in [City -> Entry] /\ launches \in [City -> Nat]
<1> SUFFICES ASSUME SupervisorInv, [Next]_vars PROVE Typed'
  OBVIOUS
<1>0. Typed
  BY DEF SupervisorInv, TypeOK
<1>1. ASSUME NEW c \in City, NEW n \in Nat, NEW s \in Status
      PROVE  [mem EXCEPT ![c] = [attempts |-> n, status |-> s]] \in [City -> Entry]
  BY <1>0 DEF Entry
<1>2. \A c \in City : mem[c].attempts \in Nat
  BY Counts DEF SupervisorInv
<1>3. CASE Start \/ StartReset \/ Truncate
  <2>1. Fresh \in [City -> Entry]
    BY DEF Fresh, NewEntry, Entry, Status
  <2> QED
    BY <1>0, <1>3, <2>1 DEF Start, StartReset, Begin, Truncate
<1>4. CASE BeginAttempt
  <2>1. This \in City
    BY <1>4, ThisIsCity DEF BeginAttempt, SupervisorInv, InCity
  <2>2. mem' = [mem EXCEPT ![This] = [attempts |-> mem[This].attempts + 1, status |-> "running"]]
    BY <1>4, <2>1, <1>0 DEF BeginAttempt
  <2>3. mem[This].attempts + 1 \in Nat /\ "running" \in Status
    BY <1>2, <2>1 DEF Status
  <2>4. mem' \in [City -> Entry]
    BY <1>1, <2>1, <2>2, <2>3
  <2> QED
    BY <1>0, <1>4, <2>4 DEF BeginAttempt
<1>5. CASE GiveUp \/ ReapDone \/ ReapFailed
  <2>1. This \in City
    BY <1>5, ThisIsCity DEF GiveUp, ReapDone, ReapFailed, SupervisorInv, InCity
  <2>2. PICK s \in Status :
          mem' = [mem EXCEPT ![This] = [attempts |-> mem[This].attempts, status |-> s]]
    BY <1>5, <2>1, <1>0 DEF GiveUp, ReapDone, ReapFailed, Mark, Status
  <2>3. mem' \in [City -> Entry]
    BY <1>1, <1>2, <2>1, <2>2
  <2> QED
    BY <1>0, <1>5, <2>3 DEF GiveUp, ReapDone, ReapFailed
<1>6. CASE Launch
  <2>1. This \in City /\ launches[This] \in Nat
    BY <1>0, <1>6, ThisIsCity DEF Launch, LaunchChild, SupervisorInv, InCity
  <2> QED
    BY <1>0, <1>6, <2>1 DEF Launch, LaunchChild
<1>7. CASE WriteFile
  BY <1>0, <1>7 DEF WriteFile
<1>8. CASE UNCHANGED <<file, mem, origin, launches>>
  BY <1>0, <1>8
<1> QED
  BY <1>3, <1>4, <1>5, <1>6, <1>7, <1>8 DEF Next, Work, vars, svars, SkipDone,
     EnterCity, Exit, Truncate, Kill, JobEnds

(* So do the jobs, and the child waited for is one of them.                *)
LEMMA JobsStep ==
  SupervisorInv /\ [Next]_vars => jobs' \in Seq(Job) /\ child' \in 0..Len(jobs')
<1> SUFFICES ASSUME SupervisorInv, [Next]_vars
             PROVE  jobs' \in Seq(Job) /\ child' \in 0..Len(jobs')
  OBVIOUS
<1>0. jobs \in Seq(Job) /\ child \in 0..Len(jobs)
  BY DEF SupervisorInv, TypeOK
<1>1. CASE Launch
  <2>1. [city |-> This, exit |-> "running"] \in Job
    BY <1>1, ThisIsCity DEF Launch, LaunchChild, SupervisorInv, InCity, Job
  <2> QED
    BY <1>0, <1>1, <2>1 DEF Launch, LaunchChild
<1>2. ASSUME NEW j \in DOMAIN jobs, JobEnds(j)
      PROVE  jobs' \in Seq(Job) /\ child' \in 0..Len(jobs')
  <2>1. PICK e \in {"ok", "failed"} :
          jobs' = [jobs EXCEPT ![j] = [city |-> jobs[j].city, exit |-> e]]
    BY <1>0, <1>2 DEF JobEnds
  <2>2. jobs[j] \in Job
    BY <1>0
  <2>3. [city |-> jobs[j].city, exit |-> e] \in Job
    BY <2>2 DEF Job
  <2> QED
    BY <1>0, <1>2, <2>1, <2>3 DEF JobEnds, svars
<1>3. CASE jobs' = jobs /\ child' \in {0, child}
  BY <1>0, <1>3
<1> QED
  BY <1>1, <1>2, <1>3 DEF Next, Work, vars, svars, Start, StartReset, Begin, SkipDone,
     EnterCity, BeginAttempt, GiveUp, Truncate, WriteFile, ReapDone, ReapFailed, Exit,
     Kill

(* A city that was done in a file: no job, and whoever runs knows it.      *)
LEMMA ReachedStep ==
  ASSUME SupervisorInv, [Next]_vars, NEW c \in reached, reached' # {}
  PROVE  /\ launches'[c] = launches[c]
         /\ file'[c].status = "done" \/ torn'
         /\ spc' # "off" => mem'[c].status = "done"
<1>0. /\ c \in City /\ mem \in [City -> Entry] /\ launches \in [City -> Nat]
      /\ file[c].status = "done" \/ torn
      /\ spc # "off" => mem[c].status = "done"
  BY DEF SupervisorInv, TypeOK, ReachedKept
<1>1. spc \in {"attempt", "launch", "wait"} => This # c
  BY <1>0 DEF SupervisorInv, AtHand, InCity
<1>2. CASE Start
  BY <1>0, <1>2 DEF Start, Begin
<1>3. CASE StartReset
  BY <1>3 DEF StartReset
<1>4. CASE BeginAttempt \/ GiveUp \/ ReapDone \/ ReapFailed
  <2>1. /\ spc \in {"attempt", "wait"} /\ UNCHANGED <<file, torn, launches>>
    BY <1>4 DEF BeginAttempt, GiveUp, ReapDone, ReapFailed
  <2>2. mem'[c] = mem[c]
    BY <1>0, <1>1, <1>4, <2>1 DEF BeginAttempt, GiveUp, ReapDone, ReapFailed, Mark
  <2> QED
    BY <1>0, <2>1, <2>2
<1>5. CASE Truncate
  BY <1>0, <1>5 DEF Truncate
<1>6. CASE WriteFile
  BY <1>0, <1>6 DEF WriteFile
<1>7. CASE Launch
  BY <1>0, <1>1, <1>7 DEF Launch, LaunchChild
<1>8. CASE SkipDone \/ EnterCity \/ Exit \/ Kill
  BY <1>0, <1>8 DEF SkipDone, EnterCity, Exit, Kill
<1>9. CASE UNCHANGED svars
  BY <1>0, <1>9 DEF svars
<1> QED
  BY <1>2, <1>3, <1>4, <1>5, <1>6, <1>7, <1>8, <1>9 DEF Next, Work, vars, JobEnds

(* A city comes to be done in a file by being written.                     *)
LEMMA ReachedWritten ==
  SupervisorInv /\ [Next]_vars => reached' \subseteq City /\ ReachedKept'
<1> SUFFICES ASSUME SupervisorInv, [Next]_vars
             PROVE  reached' \subseteq City /\ ReachedKept'
  OBVIOUS
<1>0. reached \subseteq City
  BY DEF SupervisorInv, TypeOK
<1>1. CASE WriteFile
  <2>1. /\ reached' = reached \cup {c \in City : mem[c].status = "done"}
        /\ file' = mem /\ mem' = mem
    BY <1>1 DEF WriteFile
  <2>2. ASSUME NEW c \in reached' PROVE mem[c].status = "done"
    BY <1>1, <2>1 DEF WriteFile, SupervisorInv, ReachedKept
  <2> QED
    BY <1>0, <2>1, <2>2 DEF ReachedKept
<1>2. CASE reached' = reached \/ reached' = {}
  BY <1>0, <1>2, ReachedStep DEF ReachedKept
<1> QED
  BY <1>1, <1>2 DEF Next, Work, vars, svars, Start, StartReset, SkipDone, EnterCity,
     BeginAttempt, GiveUp, Truncate, Launch, LaunchChild, ReapDone, ReapFailed, Exit,
     Kill, JobEnds

(* Every variable keeps its type.                                          *)
LEMMA TypeStep == SupervisorInv /\ [Next]_vars => TypeOK'
<1> SUFFICES ASSUME SupervisorInv, [Next]_vars PROVE TypeOK'
  OBVIOUS
<1> DEFINE Rest ==
      /\ spc \in Labels /\ then \in {"city", "attempt", "launch"}
      /\ turn \in 1..(Len(Cities) + 1)
      /\ result \in {"none", "0", "1"}
      /\ starts \in Nat
<1>0. Rest
  BY DEF SupervisorInv, TypeOK
<1>1. InCity => turn + 1 \in 1..(Len(Cities) + 1)
  BY CityAtIndex DEF SupervisorInv, AtHand
<1>2. Rest'
  <2>1. CASE Start \/ StartReset
    BY <1>0, <2>1, CityAtIndex DEF Start, StartReset, Begin, Labels
  <2>2. CASE SkipDone
    BY <1>0, <2>2, CityAtIndex DEF SkipDone
  <2>3. CASE GiveUp \/ ReapDone
    BY <1>0, <1>1, <2>3 DEF GiveUp, ReapDone, SaveThen, InCity, Labels
  <2>4. CASE EnterCity \/ Exit \/ Truncate \/ WriteFile
    BY <1>0, <2>4 DEF EnterCity, Exit, Truncate, WriteFile, Labels
  <2>5. CASE BeginAttempt \/ ReapFailed \/ Launch \/ Kill
    BY <1>0, <2>5 DEF BeginAttempt, ReapFailed, Launch, LaunchChild, Kill, SaveThen, Labels
  <2>6. CASE UNCHANGED svars
    BY <1>0, <2>6 DEF svars
  <2> QED
    BY <2>1, <2>2, <2>3, <2>4, <2>5, <2>6 DEF Next, Work, vars, JobEnds
<1>3. torn' \in BOOLEAN /\ allOk' \in BOOLEAN
  <2>1. torn' \in {torn, TRUE, FALSE} /\ allOk' \in {allOk, TRUE, FALSE}
    BY Zenon DEF Next, Work, vars, svars, Start, StartReset, Begin, SkipDone, EnterCity,
       BeginAttempt, GiveUp, Truncate, WriteFile, Launch, LaunchChild, ReapDone,
       ReapFailed, Exit, Kill, JobEnds
  <2>2. torn \in BOOLEAN /\ allOk \in BOOLEAN
    BY DEF SupervisorInv, TypeOK
  <2> QED
    BY <2>1, <2>2, Zenon
<1> QED
  BY <1>2, <1>3, EntriesStep, JobsStep, ReachedWritten, Zenon DEF TypeOK

(* Where the supervisor is in its list, and what is on the disk there.     *)
LEMMA PlaceStep ==
  SupervisorInv /\ [Next]_vars => AtHand' /\ Waiting' /\ Saved'
<1> DEFINE Place == AtHand /\ Waiting /\ Saved
<1> SUFFICES ASSUME SupervisorInv, [Next]_vars PROVE Place'
  OBVIOUS
<1> USE SupervisorAssumption, CityAtIndex DEF SupervisorInv, TypeOK, Entry, AtHand, InCity,
        Saving, Waiting, Saved, This
<1>0. InCity => This \in City
  BY ThisIsCity
<1>1. CASE Start \/ StartReset
  <2>1. spc' = "city" /\ file' = mem' /\ ~torn'
    BY <1>1 DEF Start, StartReset, Begin
  <2> QED
    BY <2>1
<1>2. CASE SkipDone \/ EnterCity \/ Exit
  <2>1. CASE SkipDone
    BY <2>1 DEF SkipDone
  <2>2. CASE EnterCity
    BY <2>2 DEF EnterCity
  <2>3. CASE Exit
    BY <2>3 DEF Exit
  <2> QED
    BY <1>2, <2>1, <2>2, <2>3
<1>3. CASE BeginAttempt
  BY <1>0, <1>3 DEF BeginAttempt, SaveThen
<1>4. CASE GiveUp
  BY <1>0, <1>4 DEF GiveUp, SaveThen, Mark
<1>5. CASE Truncate \/ WriteFile
  BY <1>5 DEF Truncate, WriteFile
<1>6. CASE Launch
  BY <1>6 DEF Launch, LaunchChild
<1>7. CASE ReapDone
  BY <1>0, <1>7 DEF ReapDone, SaveThen, Mark
<1>8. CASE ReapFailed
  BY <1>0, <1>8 DEF ReapFailed, SaveThen, Mark
<1>9. CASE Kill
  BY <1>9 DEF Kill
<1>10. ASSUME NEW j \in DOMAIN jobs, JobEnds(j) PROVE Place'
  <2>1. UNCHANGED svars /\ jobs \in Seq(Job)
    BY <1>10 DEF JobEnds
  <2>2. DOMAIN jobs' = DOMAIN jobs /\ \A k \in DOMAIN jobs : jobs'[k].city = jobs[k].city
    BY <1>10, <2>1 DEF JobEnds
  <2>3. AtHand' /\ Saved'
    BY <2>1 DEF svars
  <2>4. Waiting'
    BY <2>1, <2>2 DEF svars
  <2> QED
    BY <2>3, <2>4
<1>11. CASE UNCHANGED vars
  BY <1>11 DEF vars, svars
<1> QED
  BY <1>1, <1>2, <1>3, <1>4, <1>5, <1>6, <1>7, <1>8, <1>9, <1>10, <1>11
     DEF Next, Work

(* An attempt is on the disk before its job starts.                        *)
LEMMA CountStep == SupervisorInv /\ [Next]_vars => Counted'
<1> SUFFICES ASSUME SupervisorInv, [Next]_vars PROVE Counted'
  OBVIOUS
<1> USE SupervisorAssumption, CityAtIndex DEF SupervisorInv, TypeOK, Entry, Counted, Saving, This
<1>0. InCity => This \in City
  BY ThisIsCity
<1> USE Counts
<1>1. CASE Start \/ StartReset
  <2>1. CASE Start
    BY <2>1 DEF Start, Begin
  <2>2. CASE StartReset
    <3>1. \A c \in City : file'[c].attempts = 0 /\ mem'[c].attempts = 0 /\ launches'[c] = 0
      BY <2>2 DEF StartReset, Begin, Fresh, NewEntry
    <3>2. spc' = "city"
      BY <2>2 DEF StartReset, Begin
    <3> QED
      BY <3>1, <3>2
  <2> QED
    BY <1>1, <2>1, <2>2
<1>2. CASE SkipDone \/ EnterCity \/ Exit
  BY <1>2 DEF SkipDone, EnterCity, Exit
<1>3. CASE BeginAttempt
  <2>1. This \in City /\ This' = This /\ spc # "off"
    BY <1>0, <1>3 DEF BeginAttempt, InCity
  <2>2. /\ mem'[This].attempts = mem[This].attempts + 1
        /\ \A c \in City \ {This} : mem'[c] = mem[c]
    BY <1>3, <2>1 DEF BeginAttempt
  <2>3. mem[This].attempts < Retries /\ UNCHANGED <<file, torn, launches>>
    BY <1>3 DEF BeginAttempt
  <2>4. ASSUME NEW c \in City
        PROVE  launches[c] <= mem'[c].attempts /\ mem'[c].attempts <= Retries
    <3>1. /\ launches[c] <= mem[c].attempts /\ mem[c].attempts <= Retries
          /\ launches[c] \in Nat /\ mem[c].attempts \in Nat
      BY <2>1
    <3> HIDE DEF SupervisorInv, TypeOK, Entry, Counted, Saving
    <3>2. CASE c = This
      BY <2>2, <2>3, <3>1, <3>2
    <3>3. CASE c # This
      BY <2>2, <3>1, <3>3
    <3> QED
      BY <3>2, <3>3
  <2>5. launches'[This'] < mem'[This'].attempts
    <3>1. /\ launches[This] <= mem[This].attempts
          /\ launches[This] \in Nat /\ mem[This].attempts \in Nat
      BY <2>1
    <3> HIDE DEF SupervisorInv, TypeOK, Entry, Counted, Saving
    <3> QED
      BY <2>1, <2>2, <2>3, <3>1
  <2> QED
    BY <2>3, <2>4, <2>5
<1>4. CASE GiveUp
  BY <1>0, <1>4 DEF GiveUp, SaveThen, Mark, InCity
<1>5. CASE Truncate
  <2>1. /\ torn' /\ UNCHANGED <<mem, then, launches, turn>>
        /\ spc = "truncate" /\ spc' = "write"
        /\ \A c \in City : file'[c].attempts = 0
    BY <1>5 DEF Truncate, Fresh, NewEntry
  <2> QED
    BY <2>1
<1>6. CASE WriteFile
  BY <1>6 DEF WriteFile
<1>7. CASE Launch
  <2>1. /\ This \in City /\ spc = "launch" /\ spc' = "wait" /\ file = mem
        /\ launches' = [launches EXCEPT ![This] = launches[This] + 1]
        /\ UNCHANGED <<file, torn, mem>>
    BY <1>0, <1>7 DEF Launch, LaunchChild, Saved, InCity
  <2>2. ASSUME NEW c \in City PROVE launches'[c] <= mem[c].attempts
    <3>1. /\ launches[c] <= mem[c].attempts /\ launches[This] < mem[This].attempts
          /\ launches[c] \in Nat /\ mem[c].attempts \in Nat
          /\ launches \in [City -> Nat]
      BY <2>1
    <3> HIDE DEF SupervisorInv, TypeOK, Entry, Counted, Saving, This
    <3> QED
      BY <2>1, <3>1
  <2>3. ASSUME NEW c \in City
        PROVE  /\ launches'[c] \in Nat /\ mem[c].attempts \in Nat
               /\ mem[c].attempts <= Retries
    <3>1. launches \in [City -> Nat] /\ launches[This] \in Nat
      BY <2>1
    <3>2. mem[c].attempts \in Nat /\ mem[c].attempts <= Retries
      OBVIOUS
    <3> HIDE DEF SupervisorInv, TypeOK, Entry, Counted, Saving, This
    <3> QED
      BY <2>1, <3>1, <3>2
  <2>4. \A c \in City : launches'[c] <= Retries
    BY <2>2, <2>3
  <2> QED
    BY <2>1, <2>2, <2>3, <2>4
<1>8. CASE ReapDone \/ ReapFailed
  <2>1. \A c \in City : mem'[c].attempts = mem[c].attempts
    <3>1. PICK s : mem' = [mem EXCEPT ![This] = [attempts |-> mem[This].attempts, status |-> s]]
      BY <1>0, <1>8 DEF ReapDone, ReapFailed, Mark, InCity
    <3>2. mem \in [City -> Entry]
      OBVIOUS
    <3> HIDE DEF This, Entry, SupervisorInv
    <3> QED
      BY <3>1, <3>2
  <2>2. /\ UNCHANGED <<file, torn, launches>>
        /\ spc' = "truncate" /\ then' # "launch" /\ spc # "off"
    BY <1>8 DEF ReapDone, ReapFailed, SaveThen
  <2> QED
    BY <2>1, <2>2
<1>9. CASE Kill
  BY <1>9 DEF Kill
<1>10. ASSUME NEW j \in DOMAIN jobs, JobEnds(j) PROVE Counted'
  BY <1>10 DEF JobEnds, svars
<1>11. CASE UNCHANGED vars
  BY <1>11 DEF vars, svars
<1> QED
  BY <1>1, <1>2, <1>3, <1>4, <1>5, <1>6, <1>7, <1>8, <1>9, <1>10, <1>11 DEF Next, Work

(* Only a job that exited with 0 makes a city done.                        *)
LEMMA EarnedStep == SupervisorInv /\ [Next]_vars => DoneIsEarned'
<1> SUFFICES ASSUME SupervisorInv, [Next]_vars,
                    NEW c \in City,
                    mem'[c].status = "done" \/ file'[c].status = "done"
             PROVE  Succeeded(c)'
  BY DEF DoneIsEarned
<1> USE DEF SupervisorInv, TypeOK, Entry
<1>0. mem[c].status = "done" \/ file[c].status = "done" => Succeeded(c)'
  BY SucceededStable DEF DoneIsEarned
<1>1. CASE ReapDone
  <2>1. CASE c = This
    <3>1. Succeeded(c)
      BY <1>1, <2>1 DEF ReapDone, Waiting, Succeeded
    <3> QED
      BY <3>1, SucceededStable
  <2>2. CASE c # This
    BY <1>0, <1>1, <2>2 DEF ReapDone, Mark
  <2> QED
    BY <2>1, <2>2
<1>2. CASE BeginAttempt \/ GiveUp \/ ReapFailed
  <2>1. file' = file /\ (mem'[c] = mem[c] \/ mem'[c].status # "done")
    <3>1. CASE BeginAttempt
      BY <3>1 DEF BeginAttempt
    <3>2. CASE GiveUp \/ ReapFailed
      BY <3>2 DEF GiveUp, ReapFailed, Mark
    <3> QED
      BY <1>2, <3>1, <3>2
  <2> QED
    BY <1>0, <2>1
<1>3. CASE Start \/ StartReset \/ Truncate \/ WriteFile
  <2>1. CASE Start
    BY <1>0, <2>1 DEF Start, Begin
  <2>2. CASE StartReset
    <3>1. mem'[c].status = "pending" /\ file'[c].status = "pending"
      BY <2>2 DEF StartReset, Begin, Fresh, NewEntry
    <3> QED
      BY <3>1
  <2>3. CASE WriteFile
    BY <1>0, <2>3 DEF WriteFile
  <2>4. CASE Truncate
    <3>1. mem' = mem /\ file'[c].status = "pending"
      BY <2>4 DEF Truncate, Fresh, NewEntry
    <3> QED
      BY <1>0, <3>1
  <2> QED
    BY <1>3, <2>1, <2>2, <2>3, <2>4
<1>4. CASE mem' = mem /\ file' = file
  BY <1>0, <1>4
<1> QED
  BY <1>1, <1>2, <1>3, <1>4 DEF Next, Work, vars, svars, SkipDone, EnterCity, Exit,
     Launch, LaunchChild, Kill, JobEnds

(* overall_ok and the exit code tell what the checkpoint says.             *)
LEMMA ExitStep ==
  SupervisorInv /\ [Next]_vars => OkSoFar' /\ ExitZeroMeansAllDone'
<1> DEFINE Told == OkSoFar /\ ExitZeroMeansAllDone
<1> SUFFICES ASSUME SupervisorInv, [Next]_vars PROVE Told'
  OBVIOUS
<1> USE SupervisorAssumption, CityAtIndex
    DEF SupervisorInv, TypeOK, Entry, OkSoFar, ExitZeroMeansAllDone
<1>0. InCity => This \in City /\ turn \in DOMAIN Cities /\ mem[This].status # "done"
  BY ThisIsCity DEF AtHand
<1>1. CASE Start \/ StartReset
  BY <1>1 DEF Start, StartReset, Begin
<1>2. CASE SkipDone
  BY <1>2 DEF SkipDone, This
<1>3. CASE Exit
  BY <1>3 DEF Exit, Saved
<1>4. CASE BeginAttempt \/ ReapFailed
  <2>1. /\ InCity /\ spc # "off" /\ allOk' = allOk /\ turn' = turn /\ result' = result
    BY <1>4 DEF BeginAttempt, ReapFailed, InCity
  <2>2. \A c \in City \ {This} : mem'[c] = mem[c]
    BY <1>4 DEF BeginAttempt, ReapFailed, Mark
  <2>3. ASSUME allOk', NEW i \in 1..(turn' - 1) PROVE mem'[Cities[i]].status = "done"
    <3>1. mem[Cities[i]].status = "done" /\ Cities[i] \in City
      BY <2>1, <2>3
    <3> QED
      BY <1>0, <2>1, <2>2, <3>1
  <2>4. result' = "none" /\ spc' # "off"
    BY <1>4, <2>1 DEF BeginAttempt, ReapFailed, SaveThen
  <2> QED
    BY <2>3, <2>4
<1>5. CASE GiveUp
  BY <1>5 DEF GiveUp, SaveThen
<1>6. CASE ReapDone
  <2>1. /\ InCity /\ spc # "off" /\ allOk' = allOk /\ turn' = turn + 1 /\ result' = result
    BY <1>6 DEF ReapDone, InCity
  <2>2. mem'[This].status = "done" /\ \A c \in City \ {This} : mem'[c] = mem[c]
    BY <1>0, <1>6, <2>1 DEF ReapDone, Mark
  <2>3. ASSUME allOk', NEW i \in 1..(turn' - 1) PROVE mem'[Cities[i]].status = "done"
    <3>1. CASE i = turn
      BY <2>2, <3>1 DEF This
    <3>2. CASE i # turn
      <4>1. i \in 1..(turn - 1) /\ Cities[i] \in City
        BY <2>1, <2>3, <3>2
      <4>2. mem[Cities[i]].status = "done"
        BY <2>1, <2>3, <4>1
      <4> QED
        BY <2>2, <4>1, <4>2
    <3> QED
      BY <3>1, <3>2
  <2>4. result' = "none" /\ spc' # "off"
    BY <1>6, <2>1 DEF ReapDone, SaveThen
  <2> QED
    BY <2>3, <2>4
<1>7. CASE EnterCity \/ Truncate \/ WriteFile \/ Launch
  <2>1. /\ spc # "off" /\ spc' # "off" /\ result' = result
        /\ mem' = mem /\ allOk' = allOk /\ turn' = turn
    BY <1>7 DEF EnterCity, Truncate, WriteFile, Launch, LaunchChild
  <2> QED
    BY <2>1
<1>8. CASE Kill
  BY <1>8 DEF Kill
<1>9. ASSUME NEW j \in DOMAIN jobs, JobEnds(j) PROVE Told'
  BY <1>9 DEF JobEnds, svars
<1>10. CASE UNCHANGED vars
  BY <1>10 DEF vars, svars
<1> QED
  BY <1>1, <1>2, <1>3, <1>4, <1>5, <1>6, <1>7, <1>8, <1>9, <1>10 DEF Next, Work

-----------------------------------------------------------------------------
(* The checkpoint's invariant holds in every reachable state.              *)
THEOREM SupervisorInvariant == Spec => []SupervisorInv
<1>1. SupervisorInv /\ [Next]_vars => SupervisorInv'
  BY TypeStep, PlaceStep, ReachedWritten, CountStep, EarnedStep, ExitStep DEF SupervisorInv
<1> QED
  BY SupervisorInit, <1>1, PTL DEF Spec

(* Every variable keeps its type.                                          *)
THEOREM TypeCorrect == Spec => []TypeOK
<1>1. SupervisorInv => TypeOK
  BY DEF SupervisorInv
<1> QED
  BY SupervisorInvariant, <1>1, PTL

(* Between two resets no city gets more than --retries jobs, whatever is   *)
(* killed and restarted (run_supervisor saves the attempt before the job). *)
THEOREM BudgetHolds == Spec => []BudgetKept
<1>1. SupervisorInv => BudgetKept
  <2> SUFFICES ASSUME SupervisorInv, NEW c \in City PROVE launches[c] <= Retries
    BY DEF BudgetKept
  <2> QED
    BY DEF SupervisorInv, Counted
<1> QED
  BY SupervisorInvariant, <1>1, PTL

(* A city that is marked done has a job that exited with 0.                *)
THEOREM DoneHasJob == Spec => []DoneIsEarned
<1>1. SupervisorInv => DoneIsEarned
  BY DEF SupervisorInv
<1> QED
  BY SupervisorInvariant, <1>1, PTL

(* Exit code 0 means that the file on the disk has every city as done.     *)
THEOREM ExitCodeIsTrue == Spec => []ExitZeroMeansAllDone
<1>1. SupervisorInv => ExitZeroMeansAllDone
  BY DEF SupervisorInv
<1> QED
  BY SupervisorInvariant, <1>1, PTL

(* A city that a file has once had as done gets no further job and stays   *)
(* done for every supervisor that runs, until --reset; the file itself may *)
(* lose it, to a kill in the middle of Checkpoint.save, and is then empty. *)
THEOREM DoneIsFinal == Spec => DoneStaysDone
<1> DEFINE Kept ==
      \A c \in reached :
        \/ reached' = {}
        \/ /\ launches'[c] = launches[c]
           /\ file'[c].status = "done" \/ torn'
           /\ spc' # "off" => mem'[c].status = "done"
<1>1. SupervisorInv /\ [Next]_vars => [Kept]_vars
  BY ReachedStep
<1> QED
  BY SupervisorInvariant, <1>1, PTL DEF Spec, DoneStaysDone
=============================================================================
