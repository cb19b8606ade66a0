-------------------------- MODULE ImageryJob_proofs --------------------------
(***************************************************************************)
(* The stored imagery for every set of cities, waypoints and images, every *)
(* batch size and any number of jobs at the same time.                     *)
(*                                                                         *)
(* Backed: what a job holds in its batch is in the object store.           *)
(* Accounted: every reference of a waypoint that a job has come past is    *)
(* stored, in its batch or still in its hands, and what it knows is stored *)
(* or in its batch; a job about to stamp has nothing left in its hands.    *)
(* Alone: as long as no two jobs overlapped only one runs, and an upload   *)
(* it is about to make was not made before.                                *)
(***************************************************************************)
EXTENDS ImageryJob, TLAPS

InStore(keys) == \A k \in keys : k.image \in objects

(* There is one reference at hand at most.                                 *)
OneAtHand == \A j \in DOMAIN jobs : \A k, l \in jobs[j].at : k = l

Backed ==
  \A j \in Running :
    InStore(jobs[j].batch) /\ (jobs[j].pc = "row" => InStore(jobs[j].at))

InHands(j) == jobs[j].queue \cup jobs[j].at

Accounted ==
  \A j \in Running :
    /\ jobs[j].known \subseteq rows \cup jobs[j].batch
    /\ \A i \in (1..(jobs[j].pos - 1) \cap DOMAIN Route(j)) \ jobs[j].skipped :
         References(Route(j)[i]) \subseteq rows \cup jobs[j].batch \cup InHands(j)

Settled ==
  \A j \in Running :
    /\ jobs[j].pc \in {"stream", "flush", "stamp", "exit"} => jobs[j].at = {}
    /\ jobs[j].pc \in {"stamp", "exit"} =>
         jobs[j].pos > Len(Route(j)) /\ jobs[j].queue = {} /\ jobs[j].batch = {}

Alone ==
  ~overlapped =>
    /\ \A j, k \in Running : j = k
    /\ \A i \in Image : uploads[i] <= 1 /\ (uploads[i] = 1 => i \in objects)
    /\ \A j \in Running : jobs[j].pc = "upload" =>
         \A k \in jobs[j].at : k.image \notin objects

ImageryInv ==
  /\ TypeOK /\ OneAtHand /\ RowHasObject /\ Backed
  /\ Accounted /\ Settled /\ SuccessMeansStored
  /\ Alone

-----------------------------------------------------------------------------
(* The waypoints of a job's city, and the references they yield.           *)
LEMMA RouteType ==
  ASSUME jobs \in Seq(Job), NEW j \in DOMAIN jobs
  PROVE  /\ jobs[j] \in Job
         /\ Len(Route(j)) \in Nat /\ DOMAIN Route(j) = 1..Len(Route(j))
         /\ \A i \in DOMAIN Route(j) : References(Route(j)[i]) \in SUBSET Key
<1> DEFINE Waypoint == [segment : Segment, images : SUBSET Image]
<1>1. jobs[j] \in Job
  OBVIOUS
<1>2. Route(j) \in Seq(Waypoint)
  BY <1>1, ImageryAssumption DEF Route, Job
<1>3. \A w \in Waypoint : References(w) \in SUBSET Key
  BY DEF References, Key
<1>4. /\ Len(Route(j)) \in Nat /\ DOMAIN Route(j) = 1..Len(Route(j))
      /\ \A i \in DOMAIN Route(j) : Route(j)[i] \in Waypoint
  <2> HIDE DEF Waypoint
  <2> QED
    BY <1>2
<1> QED
  BY <1>1, <1>3, <1>4

(* No job has run yet.                                                     *)
LEMMA ImageryInit == Init => ImageryInv
<1> SUFFICES ASSUME Init PROVE ImageryInv
  OBVIOUS
<1>1. jobs = <<>> /\ DOMAIN jobs = {} /\ Running = {}
  BY DEF Init, Running
<1>2. TypeOK
  <2>1. jobs \in Seq(Job) /\ stamp \in 0..Len(jobs)
    BY <1>1 DEF Init
  <2>2. uploads \in [Image -> Nat] /\ rows \subseteq Key /\ objects \subseteq Image
    BY DEF Init
  <2>3. overlapped \in BOOLEAN
    BY DEF Init
  <2> QED
    BY <2>1, <2>2, <2>3 DEF TypeOK
<1>3. RowHasObject /\ SuccessMeansStored /\ Alone
  BY <1>1 DEF Init, RowHasObject, SuccessMeansStored, Alone
<1> QED
  BY <1>1, <1>2, <1>3 DEF ImageryInv, OneAtHand, Backed, Accounted, Settled

-----------------------------------------------------------------------------
(* What each action makes of the local variables of its job.               *)
LEMMA FetchEffect ==
  ASSUME jobs \in Seq(Job), NEW j \in DOMAIN jobs, FetchWaypoint(j)
  PROVE  /\ jobs'[j] \in Job
         /\ jobs'[j].pos = jobs[j].pos + 1
         /\ jobs'[j].queue = References(Route(j)[jobs[j].pos])
         /\ jobs'[j].city = jobs[j].city /\ jobs'[j].exit = jobs[j].exit
         /\ jobs'[j].pc = jobs[j].pc /\ jobs'[j].at = jobs[j].at
         /\ jobs'[j].known = jobs[j].known /\ jobs'[j].batch = jobs[j].batch
         /\ jobs'[j].skipped = jobs[j].skipped
<1>1. jobs[j] \in Job
  OBVIOUS
<1>2. /\ jobs[j].pos + 1 \in Nat \ {0}
      /\ References(Route(j)[jobs[j].pos]) \in SUBSET Key
  BY <1>1, RouteType DEF FetchWaypoint, Job
<1>3. PICK p \in Nat \ {0}, q \in SUBSET Key :
        /\ p = jobs[j].pos + 1 /\ q = References(Route(j)[jobs[j].pos])
        /\ jobs'[j] = [jobs[j] EXCEPT !.pos = p, !.queue = q]
  BY <1>2 DEF FetchWaypoint
<1> QED
  BY <1>1, <1>3 DEF Job

(* SkipWaypoint.                                                           *)
LEMMA SkipEffect ==
  ASSUME jobs \in Seq(Job), NEW j \in DOMAIN jobs, SkipWaypoint(j)
  PROVE  /\ jobs'[j] \in Job
         /\ jobs'[j].pos = jobs[j].pos + 1
         /\ jobs'[j].skipped = jobs[j].skipped \cup {jobs[j].pos}
         /\ jobs'[j].city = jobs[j].city /\ jobs'[j].exit = jobs[j].exit
         /\ jobs'[j].pc = jobs[j].pc /\ jobs'[j].queue = jobs[j].queue
         /\ jobs'[j].at = jobs[j].at /\ jobs'[j].known = jobs[j].known
         /\ jobs'[j].batch = jobs[j].batch
<1>1. jobs[j] \in Job
  OBVIOUS
<1>2. jobs[j].pos + 1 \in Nat \ {0} /\ jobs[j].skipped \cup {jobs[j].pos} \in SUBSET Nat
  BY <1>1 DEF Job
<1>3. PICK p \in Nat \ {0}, t \in SUBSET Nat :
        /\ p = jobs[j].pos + 1 /\ t = jobs[j].skipped \cup {jobs[j].pos}
        /\ jobs'[j] = [jobs[j] EXCEPT !.pos = p, !.skipped = t]
  BY <1>2 DEF SkipWaypoint
<1> QED
  BY <1>1, <1>3 DEF Job

(* SkipKnown.                                                              *)
LEMMA KnownEffect ==
  ASSUME jobs \in Seq(Job), NEW j \in DOMAIN jobs, SkipKnown(j)
  PROVE  \E k \in jobs[j].queue \cap jobs[j].known :
           /\ jobs'[j] \in Job
           /\ jobs'[j].queue = jobs[j].queue \ {k}
           /\ jobs'[j].city = jobs[j].city /\ jobs'[j].exit = jobs[j].exit
           /\ jobs'[j].pc = jobs[j].pc /\ jobs'[j].pos = jobs[j].pos
           /\ jobs'[j].at = jobs[j].at /\ jobs'[j].known = jobs[j].known
           /\ jobs'[j].batch = jobs[j].batch /\ jobs'[j].skipped = jobs[j].skipped
<1>1. jobs[j] \in Job
  OBVIOUS
<1>2. PICK k \in jobs[j].queue \cap jobs[j].known :
        jobs'[j] = [jobs[j] EXCEPT !.queue = @ \ {k}]
  BY DEF SkipKnown
<1>3. PICK q \in SUBSET Key : q = jobs[j].queue \ {k}
  BY <1>1 DEF Job
<1>4. jobs'[j] = [jobs[j] EXCEPT !.queue = q]
  BY <1>1, <1>2, <1>3 DEF Job
<1> QED
  BY <1>1, <1>3, <1>4 DEF Job

(* Look.                                                                   *)
LEMMA LookEffect ==
  ASSUME jobs \in Seq(Job), NEW j \in DOMAIN jobs, Look(j)
  PROVE  \E k \in jobs[j].queue \ jobs[j].known :
           /\ jobs'[j] \in Job
           /\ jobs'[j].pc = IF k.image \in objects THEN "row" ELSE "upload"
           /\ jobs'[j].queue = jobs[j].queue \ {k}
           /\ jobs'[j].at = {k}
           /\ jobs'[j].city = jobs[j].city /\ jobs'[j].exit = jobs[j].exit
           /\ jobs'[j].pos = jobs[j].pos /\ jobs'[j].known = jobs[j].known
           /\ jobs'[j].batch = jobs[j].batch /\ jobs'[j].skipped = jobs[j].skipped
<1>1. jobs[j] \in Job
  OBVIOUS
<1>2. PICK k \in jobs[j].queue \ jobs[j].known :
        jobs'[j] = [jobs[j] EXCEPT !.pc = IF k.image \in objects THEN "row" ELSE "upload",
                                   !.queue = @ \ {k}, !.at = {k}]
  <2>1. PICK k \in jobs[j].queue \ jobs[j].known :
          jobs' = [jobs EXCEPT ![j].queue = @ \ {k}, ![j].at = {k},
                               ![j].pc = IF k.image \in objects THEN "row" ELSE "upload"]
    BY DEF Look
  <2> QED
    BY <2>1
<1>3. PICK l \in Labels : l = IF k.image \in objects THEN "row" ELSE "upload"
  BY DEF Labels
<1>4. /\ {k} \in SUBSET Key
      /\ jobs[j].queue \ {k} \in SUBSET Key
  BY <1>1, <1>2 DEF Job
<1>5. PICK t \in SUBSET Key, q \in SUBSET Key :
        /\ t = {k} /\ q = jobs[j].queue \ {k}
        /\ jobs'[j] = [jobs[j] EXCEPT !.pc = l, !.queue = q, !.at = t]
  BY <1>2, <1>3, <1>4
<1>6. /\ jobs'[j] \in Job /\ jobs'[j].pc = l /\ jobs'[j].queue = q /\ jobs'[j].at = t
      /\ jobs'[j].city = jobs[j].city /\ jobs'[j].exit = jobs[j].exit
      /\ jobs'[j].pos = jobs[j].pos /\ jobs'[j].known = jobs[j].known
      /\ jobs'[j].batch = jobs[j].batch /\ jobs'[j].skipped = jobs[j].skipped
  BY <1>1, <1>5 DEF Job
<1> QED
  BY <1>3, <1>5, <1>6

(* Upload.                                                                 *)
LEMMA UploadEffect ==
  ASSUME jobs \in Seq(Job), NEW j \in DOMAIN jobs, Upload(j)
  PROVE  /\ jobs'[j] \in Job
         /\ jobs'[j].pc = "row"
         /\ jobs'[j].city = jobs[j].city /\ jobs'[j].exit = jobs[j].exit
         /\ jobs'[j].pos = jobs[j].pos /\ jobs'[j].queue = jobs[j].queue
         /\ jobs'[j].at = jobs[j].at /\ jobs'[j].known = jobs[j].known
         /\ jobs'[j].batch = jobs[j].batch /\ jobs'[j].skipped = jobs[j].skipped
<1>1. jobs'[j] = [jobs[j] EXCEPT !.pc = "row"]
  BY DEF Upload
<1>2. jobs[j] \in Job
  OBVIOUS
<1> QED
  BY <1>1, <1>2 DEF Job, Labels

(* Buffer.                                                                 *)
LEMMA BufferEffect ==
  ASSUME jobs \in Seq(Job), NEW j \in DOMAIN jobs, Buffer(j)
  PROVE  \E l \in {"flush", "stream"} :
           /\ jobs'[j] \in Job
           /\ jobs'[j].pc = l
           /\ jobs'[j].at = {}
           /\ jobs'[j].known = jobs[j].known \cup jobs[j].at
           /\ jobs'[j].batch = jobs[j].batch \cup jobs[j].at
           /\ jobs'[j].city = jobs[j].city /\ jobs'[j].exit = jobs[j].exit
           /\ jobs'[j].pos = jobs[j].pos /\ jobs'[j].queue = jobs[j].queue
           /\ jobs'[j].skipped = jobs[j].skipped
<1>1. jobs[j] \in Job
  OBVIOUS
<1>2. PICK l \in {"flush", "stream"} :
        jobs'[j] = [jobs[j] EXCEPT !.pc = l, !.at = {}, !.known = @ \cup jobs[j].at,
                                   !.batch = @ \cup jobs[j].at]
  BY DEF Buffer
<1>3. PICK known \in SUBSET Key, batch \in SUBSET Key :
        known = jobs[j].known \cup jobs[j].at /\ batch = jobs[j].batch \cup jobs[j].at
  BY <1>1 DEF Job
<1>4. jobs'[j] = [jobs[j] EXCEPT !.pc = l, !.at = {}, !.known = known, !.batch = batch]
  BY <1>1, <1>2, <1>3 DEF Job
<1>5. /\ jobs'[j] \in Job /\ jobs'[j].pc = l /\ jobs'[j].at = {}
      /\ jobs'[j].known = known /\ jobs'[j].batch = batch
      /\ jobs'[j].city = jobs[j].city /\ jobs'[j].exit = jobs[j].exit
      /\ jobs'[j].pos = jobs[j].pos /\ jobs'[j].queue = jobs[j].queue
      /\ jobs'[j].skipped = jobs[j].skipped
  BY <1>1, <1>4 DEF Job, Labels
<1> QED
  BY <1>3, <1>5

(* Flush.                                                                  *)
LEMMA FlushEffect ==
  ASSUME jobs \in Seq(Job), NEW j \in DOMAIN jobs, Flush(j)
  PROVE  /\ jobs'[j] \in Job
         /\ jobs'[j].pc = "stream"
         /\ jobs'[j].batch = {}
         /\ jobs'[j].city = jobs[j].city /\ jobs'[j].exit = jobs[j].exit
         /\ jobs'[j].pos = jobs[j].pos /\ jobs'[j].queue = jobs[j].queue
         /\ jobs'[j].at = jobs[j].at /\ jobs'[j].known = jobs[j].known
         /\ jobs'[j].skipped = jobs[j].skipped
<1>1. jobs'[j] = [jobs[j] EXCEPT !.pc = "stream", !.batch = {}]
  BY DEF Flush
<1>2. jobs[j] \in Job
  OBVIOUS
<1> QED
  BY <1>1, <1>2 DEF Job, Labels

(* FlushRest.                                                              *)
LEMMA FlushRestEffect ==
  ASSUME jobs \in Seq(Job), NEW j \in DOMAIN jobs, FlushRest(j)
  PROVE  /\ jobs'[j] \in Job
         /\ jobs'[j].pc = "stamp"
         /\ jobs'[j].batch = {}
         /\ jobs'[j].city = jobs[j].city /\ jobs'[j].exit = jobs[j].exit
         /\ jobs'[j].pos = jobs[j].pos /\ jobs'[j].queue = jobs[j].queue
         /\ jobs'[j].at = jobs[j].at /\ jobs'[j].known = jobs[j].known
         /\ jobs'[j].skipped = jobs[j].skipped
<1>1. jobs'[j] = [jobs[j] EXCEPT !.pc = "stamp", !.batch = {}]
  BY DEF FlushRest
<1>2. jobs[j] \in Job
  OBVIOUS
<1> QED
  BY <1>1, <1>2 DEF Job, Labels

(* Stamp.                                                                  *)
LEMMA StampEffect ==
  ASSUME jobs \in Seq(Job), NEW j \in DOMAIN jobs, Stamp(j)
  PROVE  /\ jobs'[j] \in Job
         /\ jobs'[j].pc = "exit"
         /\ jobs'[j].city = jobs[j].city /\ jobs'[j].exit = jobs[j].exit
         /\ jobs'[j].pos = jobs[j].pos /\ jobs'[j].queue = jobs[j].queue
         /\ jobs'[j].at = jobs[j].at /\ jobs'[j].known = jobs[j].known
         /\ jobs'[j].batch = jobs[j].batch /\ jobs'[j].skipped = jobs[j].skipped
<1>1. jobs'[j] = [jobs[j] EXCEPT !.pc = "exit"]
  BY DEF Stamp
<1>2. jobs[j] \in Job
  OBVIOUS
<1> QED
  BY <1>1, <1>2 DEF Job, Labels

(* Succeed and Fail.                                                       *)
LEMMA EndEffect ==
  ASSUME jobs \in Seq(Job), NEW j \in DOMAIN jobs, Succeed(j) \/ Fail(j)
  PROVE  \E e \in {"ok", "failed"} :
           /\ jobs'[j] \in Job
           /\ jobs'[j].exit = e
           /\ jobs'[j].pc = "gone"
           /\ jobs'[j].queue = {}
           /\ jobs'[j].at = {}
           /\ jobs'[j].known = {}
           /\ jobs'[j].batch = {}
           /\ jobs'[j].city = jobs[j].city /\ jobs'[j].pos = jobs[j].pos
           /\ jobs'[j].skipped = jobs[j].skipped
<1>1. PICK e \in {"ok", "failed"} :
        jobs'[j] = [jobs[j] EXCEPT !.exit = e, !.pc = "gone", !.queue = {}, !.at = {}, !.known = {}, !.batch = {}]
  BY DEF Succeed, Fail, Leave
<1>2. jobs[j] \in Job
  OBVIOUS
<1> QED
  BY <1>1, <1>2 DEF Job, Labels

-----------------------------------------------------------------------------
(* The types are kept by every step.                                       *)
LEMMA TypeStep == TypeOK /\ [Next]_jvars => TypeOK'
<1> SUFFICES ASSUME TypeOK, [Next]_jvars PROVE TypeOK'
  OBVIOUS
<1> USE DEF TypeOK
<1>1. ASSUME NEW c \in City, Spawn(c) PROVE TypeOK'
  <2>1. NewJob(c) \in Job
    BY DEF NewJob, Job, Labels
  <2> QED
    BY <1>1, <2>1 DEF Spawn
<1>2. ASSUME NEW j \in DOMAIN jobs, Proceed(j) \/ Fail(j) PROVE TypeOK'
  <2>0. jobs[j] \in Job
    BY RouteType
  <2>1. jobs'[j] \in Job
    BY <1>2, FetchEffect, SkipEffect, KnownEffect, LookEffect, UploadEffect, BufferEffect,
       FlushEffect, FlushRestEffect, StampEffect, EndEffect DEF Proceed
  <2>2. jobs' = [jobs EXCEPT ![j] = jobs'[j]]
    BY <1>2 DEF Proceed, Fail, FetchWaypoint, SkipWaypoint, SkipKnown, Look, Upload, Buffer,
       Flush, FlushRest, Stamp, Succeed, Leave
  <2>3. jobs' \in Seq(Job) /\ Len(jobs') = Len(jobs)
    BY <2>1, <2>2
  <2>4. rows' \subseteq rows \cup jobs[j].batch /\ stamp' \in {stamp, j}
        /\ overlapped' = overlapped
    BY <1>2 DEF Proceed, Fail, FetchWaypoint, SkipWaypoint, SkipKnown, Look, Upload, Buffer,
       Flush, FlushRest, Stamp, Succeed, ivars
  <2>5. objects' \subseteq Image /\ uploads' \in [Image -> Nat]
    <3>1. CASE Upload(j)
      BY <2>0, <3>1 DEF Upload, Job, Key
    <3>2. CASE objects' = objects /\ uploads' = uploads
      BY <3>2
    <3> QED
      BY <1>2, <3>1, <3>2 DEF Proceed, Fail, FetchWaypoint, SkipWaypoint, SkipKnown, Look,
         Buffer, Flush, FlushRest, Stamp, Succeed, ivars
  <2>6. rows' \subseteq Key
    BY <2>0, <2>4 DEF Job
  <2> QED
    BY <2>3, <2>4, <2>5, <2>6
<1>3. CASE UNCHANGED jvars
  BY <1>3 DEF jvars, ivars
<1> QED
  BY <1>1, <1>2, <1>3 DEF Next, JobStep

(* A step of one job leaves the others as they are, and takes nothing back *)
(* of what is stored.                                                      *)
LEMMA Frame ==
  ASSUME TypeOK, NEW j \in DOMAIN jobs, Proceed(j) \/ Fail(j)
  PROVE  /\ jobs[j] \in Job /\ jobs[j].exit = "running"
         /\ DOMAIN jobs' = DOMAIN jobs
         /\ \A k \in DOMAIN jobs : k # j => jobs'[k] = jobs[k]
         /\ \A k \in DOMAIN jobs : /\ jobs'[k].city = jobs[k].city
                                   /\ jobs[k].skipped \subseteq jobs'[k].skipped
         /\ rows \subseteq rows' /\ objects \subseteq objects'
         /\ Running' \subseteq Running
<1>1. jobs[j] \in Job
  BY RouteType DEF TypeOK
<1>2. jobs[j].exit = "running"
  BY DEF Proceed, Fail, FetchWaypoint, SkipWaypoint, SkipKnown, Look, Upload, Buffer,
     Flush, FlushRest, Stamp, Succeed, At, WaypointDone
<1>3. rows \subseteq rows' /\ objects \subseteq objects'
  BY DEF Proceed, Fail, FetchWaypoint, SkipWaypoint, SkipKnown, Look, Upload, Buffer,
     Flush, FlushRest, Stamp, Succeed, ivars
<1>4. /\ DOMAIN jobs' = DOMAIN jobs
      /\ \A k \in DOMAIN jobs : k # j => jobs'[k] = jobs[k]
  BY DEF TypeOK, Proceed, Fail, FetchWaypoint, SkipWaypoint, SkipKnown, Look, Upload,
     Buffer, Flush, FlushRest, Stamp, Succeed, Leave
<1>5. jobs'[j].city = jobs[j].city /\ jobs[j].skipped \subseteq jobs'[j].skipped
  <2> USE DEF TypeOK
  <2> QED
    BY FetchEffect, SkipEffect, KnownEffect, LookEffect, UploadEffect, BufferEffect,
       FlushEffect, FlushRestEffect, StampEffect, EndEffect DEF Proceed
<1> QED
  BY <1>1, <1>2, <1>3, <1>4, <1>5 DEF Running

(* A new job is behind the others and has done nothing.                    *)
LEMMA SpawnFrame ==
  ASSUME TypeOK, NEW c \in City, Spawn(c)
  PROVE  /\ DOMAIN jobs' = DOMAIN jobs \cup {Len(jobs) + 1}
         /\ Len(jobs) + 1 \notin DOMAIN jobs
         /\ \A k \in DOMAIN jobs : jobs'[k] = jobs[k]
         /\ jobs'[Len(jobs) + 1] = NewJob(c)
         /\ Running' = Running \cup {Len(jobs) + 1}
<1>1. /\ DOMAIN jobs' = DOMAIN jobs \cup {Len(jobs) + 1}
      /\ Len(jobs) + 1 \notin DOMAIN jobs
      /\ \A k \in DOMAIN jobs : jobs'[k] = jobs[k]
      /\ jobs'[Len(jobs) + 1] = NewJob(c)
  BY DEF TypeOK, Spawn
<1>2. NewJob(c).exit = "running"
  BY DEF NewJob
<1> QED
  BY <1>1, <1>2 DEF Running

-----------------------------------------------------------------------------
(* Bytes are in the store before the reference is in the batch.            *)
LEMMA StoreStep ==
  TypeOK /\ OneAtHand /\ RowHasObject /\ Backed /\ [Next]_jvars => RowHasObject' /\ Backed'
<1> DEFINE Safe == RowHasObject /\ Backed
<1> SUFFICES ASSUME TypeOK, OneAtHand, RowHasObject, Backed, [Next]_jvars PROVE Safe'
  OBVIOUS
<1>1. ASSUME NEW c \in City, Spawn(c) PROVE Safe'
  <2>1. NewJob(c).batch = {} /\ NewJob(c).pc = "stream"
    BY DEF NewJob
  <2>2. rows' = rows /\ objects' = objects
    BY <1>1 DEF Spawn
  <2>3. RowHasObject'
    BY <2>2 DEF RowHasObject
  <2>4. Backed'
    BY <1>1, <2>1, <2>2, SpawnFrame DEF Backed, InStore, Running
  <2> QED
    BY <2>3, <2>4
<1>2. ASSUME NEW j \in DOMAIN jobs, Proceed(j) \/ Fail(j) PROVE Safe'
  <2>0. /\ jobs[j] \in Job /\ jobs[j].exit = "running" /\ DOMAIN jobs' = DOMAIN jobs
        /\ \A k \in DOMAIN jobs : k # j => jobs'[k] = jobs[k]
        /\ rows \subseteq rows' /\ objects \subseteq objects' /\ Running' \subseteq Running
    BY <1>2, Frame
  <2>1. InStore(jobs[j].batch) /\ (jobs[j].pc = "row" => InStore(jobs[j].at))
    BY <2>0 DEF Backed, Running
  <2>2. rows' \subseteq rows \cup jobs[j].batch
    BY <1>2 DEF Proceed, Fail, FetchWaypoint, SkipWaypoint, SkipKnown, Look, Upload, Buffer,
       Flush, FlushRest, Stamp, Succeed, ivars
  <2>3. /\ \A k \in jobs'[j].batch : k.image \in objects'
        /\ jobs'[j].pc = "row" => \A k \in jobs'[j].at : k.image \in objects'
    <3>0. jobs \in Seq(Job)
      BY DEF TypeOK
    <3>1. CASE FetchWaypoint(j) \/ SkipWaypoint(j) \/ SkipKnown(j)
      <4>1. jobs'[j].batch = jobs[j].batch /\ jobs'[j].pc = jobs[j].pc /\ jobs[j].pc = "stream"
        BY <3>0, <3>1, FetchEffect, SkipEffect, KnownEffect
           DEF FetchWaypoint, SkipWaypoint, SkipKnown, WaypointDone, At
      <4> QED
        BY <2>0, <2>1, <4>1 DEF InStore
    <3>2. CASE Look(j)
      BY <2>0, <2>1, <3>0, <3>2, LookEffect DEF InStore
    <3>3. CASE Upload(j)
      <4>1. jobs'[j].batch = jobs[j].batch /\ jobs'[j].at = jobs[j].at
        BY <3>0, <3>3, UploadEffect
      <4>2. \A k \in jobs[j].at : k.image \in objects'
        BY <3>3 DEF Upload, OneAtHand
      <4> QED
        BY <2>0, <2>1, <4>1, <4>2 DEF InStore
    <3>4. CASE Buffer(j)
      <4>1. jobs'[j].batch = jobs[j].batch \cup jobs[j].at /\ jobs'[j].at = {}
        BY <3>0, <3>4, BufferEffect
      <4> QED
        BY <2>0, <2>1, <3>4, <4>1 DEF Buffer, At, InStore
    <3>5. CASE Flush(j) \/ FlushRest(j) \/ Succeed(j) \/ Fail(j)
      <4>1. jobs'[j].batch = {} /\ jobs'[j].pc # "row"
        BY <3>0, <3>5, FlushEffect, FlushRestEffect, EndEffect
      <4> QED
        BY <4>1
    <3>6. CASE Stamp(j)
      <4>1. jobs'[j].batch = jobs[j].batch /\ jobs'[j].pc = "exit"
        BY <3>0, <3>6, StampEffect
      <4> QED
        BY <2>0, <2>1, <4>1 DEF InStore
    <3> QED
      BY <1>2, <3>1, <3>2, <3>3, <3>4, <3>5, <3>6 DEF Proceed
  <2>4. RowHasObject'
    BY <2>0, <2>1, <2>2 DEF RowHasObject, InStore
  <2>5. Backed'
    BY <2>0, <2>3 DEF Backed, InStore, Running
  <2> QED
    BY <2>4, <2>5
<1>3. CASE UNCHANGED jvars
  BY <1>3 DEF jvars, ivars, RowHasObject, Backed, InStore, Running
<1> QED
  BY <1>1, <1>2, <1>3 DEF Next, JobStep

(* Each step takes at most one reference in hand.                          *)
LEMMA AtHandStep == TypeOK /\ OneAtHand /\ [Next]_jvars => OneAtHand'
<1> SUFFICES ASSUME TypeOK, OneAtHand, [Next]_jvars PROVE OneAtHand'
  OBVIOUS
<1>1. ASSUME NEW c \in City, Spawn(c) PROVE OneAtHand'
  <2>1. NewJob(c).at = {}
    BY DEF NewJob
  <2> QED
    BY <1>1, <2>1, SpawnFrame DEF OneAtHand
<1>2. ASSUME NEW j \in DOMAIN jobs, Proceed(j) \/ Fail(j) PROVE OneAtHand'
  <2>0. jobs \in Seq(Job)
    BY DEF TypeOK
  <2>1. jobs'[j].at = jobs[j].at \/ jobs'[j].at = {} \/ \E k : jobs'[j].at = {k}
    <3>1. CASE Look(j)
      BY <2>0, <3>1, LookEffect
    <3>2. CASE Buffer(j) \/ Succeed(j) \/ Fail(j)
      BY <2>0, <3>2, BufferEffect, EndEffect
    <3>3. CASE FetchWaypoint(j) \/ SkipWaypoint(j) \/ SkipKnown(j) \/ Upload(j)
      BY <2>0, <3>3, FetchEffect, SkipEffect, KnownEffect, UploadEffect
    <3>4. CASE Flush(j) \/ FlushRest(j) \/ Stamp(j)
      BY <2>0, <3>4, FlushEffect, FlushRestEffect, StampEffect
    <3> QED
      BY <1>2, <3>1, <3>2, <3>3, <3>4 DEF Proceed
  <2> QED
    BY <1>2, <2>1, Frame DEF OneAtHand
<1>3. CASE UNCHANGED jvars
  BY <1>3 DEF jvars, OneAtHand
<1> QED
  BY <1>1, <1>2, <1>3 DEF Next, JobStep

-----------------------------------------------------------------------------
(* Before its last flush a job has nothing left in its hands.              *)
LEMMA SettledStep == TypeOK /\ Settled /\ [Next]_jvars => Settled'
<1> SUFFICES ASSUME TypeOK, Settled, [Next]_jvars PROVE Settled'
  OBVIOUS
<1>1. ASSUME NEW c \in City, Spawn(c) PROVE Settled'
  <2>1. NewJob(c).at = {} /\ NewJob(c).pc = "stream"
    BY DEF NewJob
  <2> QED
    BY <1>1, <2>1, SpawnFrame DEF Settled, Running, Route
<1>2. ASSUME NEW j \in DOMAIN jobs, Proceed(j) \/ Fail(j) PROVE Settled'
  <2>0. jobs \in Seq(Job)
    BY DEF TypeOK
  <2>1. /\ jobs[j].exit = "running" /\ Running' \subseteq Running
        /\ \A k \in DOMAIN jobs : k # j => jobs'[k] = jobs[k]
        /\ jobs'[j].city = jobs[j].city
    BY <1>2, Frame
  <2>2. jobs[j].pc \in {"stream", "flush", "stamp", "exit"} => jobs[j].at = {}
    BY <2>1 DEF Settled, Running
  <2> DEFINE Fine(r) ==
        /\ r.pc \in {"stream", "flush", "stamp", "exit"} => r.at = {}
        /\ r.pc \in {"stamp", "exit"} =>
             r.pos > Len(Waypoints[r.city]) /\ r.queue = {} /\ r.batch = {}
  <2>3. Fine(jobs'[j]) \/ jobs'[j].exit # "running"
    <3>1. CASE FetchWaypoint(j) \/ SkipWaypoint(j) \/ SkipKnown(j)
      BY <2>0, <2>2, <3>1, FetchEffect, SkipEffect, KnownEffect
         DEF FetchWaypoint, SkipWaypoint, SkipKnown, WaypointDone, At
    <3>2. CASE Look(j) \/ Upload(j)
      <4>1. jobs'[j].pc \in {"row", "upload"}
        BY <2>0, <3>2, LookEffect, UploadEffect
      <4> QED
        BY <4>1
    <3>3. CASE Buffer(j)
      BY <2>0, <3>3, BufferEffect
    <3>4. CASE Flush(j)
      BY <2>0, <2>2, <3>4, FlushEffect DEF Flush, At
    <3>5. CASE FlushRest(j)
      BY <2>0, <2>1, <2>2, <3>5, FlushRestEffect DEF FlushRest, WaypointDone, At, Route
    <3>6. CASE Stamp(j)
      <4>1. jobs[j].pc = "stamp"
        BY <3>6 DEF Stamp, At
      <4>2. /\ jobs[j].at = {} /\ jobs[j].queue = {} /\ jobs[j].batch = {}
            /\ jobs[j].pos > Len(Waypoints[jobs[j].city])
        BY <2>1, <4>1 DEF Settled, Running, Route
      <4> QED
        BY <2>0, <3>6, <4>2, StampEffect
    <3>7. CASE Succeed(j) \/ Fail(j)
      BY <2>0, <3>7, EndEffect
    <3> QED
      BY <1>2, <3>1, <3>2, <3>3, <3>4, <3>5, <3>6, <3>7 DEF Proceed
  <2>4. \A k \in Running : Fine(jobs[k])
    BY DEF Settled, Route
  <2>5. \A k \in Running' : Fine(jobs'[k])
    BY <2>1, <2>3, <2>4 DEF Running
  <2> QED
    BY <2>5 DEF Settled, Route
<1>3. CASE UNCHANGED jvars
  BY <1>3 DEF jvars, Settled, Running, Route
<1> QED
  BY <1>1, <1>2, <1>3 DEF Next, JobStep

(* A waypoint that is covered stays covered.                               *)
LEMMA CoveredStable ==
  ASSUME TypeOK, NEW j \in DOMAIN jobs, Proceed(j) \/ Fail(j),
         NEW k \in DOMAIN jobs, Covered(k)
  PROVE  Covered(k)'
BY Frame DEF Covered, Route

(* What a job came past is stored, buffered or in its hands.               *)
LEMMA AccountStep ==
  TypeOK /\ Settled /\ Accounted /\ [Next]_jvars => Accounted'
<1> SUFFICES ASSUME TypeOK, Settled, Accounted, [Next]_jvars PROVE Accounted'
  OBVIOUS
<1> DEFINE
      Held(r, stored) ==
        /\ r.known \subseteq stored \cup r.batch
        /\ \A i \in (1..(r.pos - 1) \cap DOMAIN Waypoints[r.city]) \ r.skipped :
             References(Waypoints[r.city][i]) \subseteq stored \cup r.batch \cup r.queue \cup r.at
<1>0. Accounted <=> \A k \in Running : Held(jobs[k], rows)
  BY DEF Accounted, Route, InHands
<1>1. ASSUME NEW c \in City, Spawn(c) PROVE Accounted'
  <2>1. Held(NewJob(c), rows)
    BY DEF NewJob
  <2>2. \A k \in Running' : Held(jobs'[k], rows')
    <3>1. rows' = rows
      BY <1>1 DEF Spawn
    <3> QED
      BY <1>0, <1>1, <2>1, <3>1, SpawnFrame DEF Running
  <2> QED
    BY <2>2 DEF Accounted, Route, InHands
<1>2. ASSUME NEW j \in DOMAIN jobs, Proceed(j) \/ Fail(j) PROVE Accounted'
  <2>0. jobs \in Seq(Job)
    BY DEF TypeOK
  <2>1. /\ jobs[j].exit = "running" /\ Running' \subseteq Running /\ rows \subseteq rows'
        /\ \A k \in DOMAIN jobs : k # j => jobs'[k] = jobs[k]
        /\ jobs[j] \in Job
    BY <1>2, Frame
  <2>2. Held(jobs[j], rows)
    BY <1>0, <2>1 DEF Running
  <2>3. jobs[j].pc \in {"stream", "flush", "stamp", "exit"} => jobs[j].at = {}
    BY <2>1 DEF Settled, Running
  <2>4. jobs[j].pos \in Nat \ {0}
    BY <2>1 DEF Job
  <2>5. Held(jobs'[j], rows') \/ jobs'[j].exit # "running"
    <3>1. CASE FetchWaypoint(j)
      <4>1. jobs[j].at = {} /\ jobs[j].queue = {} /\ rows' = rows
        BY <2>3, <3>1 DEF FetchWaypoint, WaypointDone, At, ivars
      <4>2. jobs'[j].queue = References(Waypoints[jobs[j].city][jobs[j].pos])
        BY <2>0, <3>1, FetchEffect DEF Route
      <4>3. /\ jobs'[j].pos = jobs[j].pos + 1 /\ jobs'[j].city = jobs[j].city
            /\ jobs'[j].known = jobs[j].known /\ jobs'[j].batch = jobs[j].batch
            /\ jobs'[j].skipped = jobs[j].skipped
        BY <2>0, <3>1, FetchEffect
      <4>4. 1..(jobs[j].pos + 1 - 1) = 1..(jobs[j].pos - 1) \cup {jobs[j].pos}
        BY <2>4
      <4> QED
        BY <2>2, <4>1, <4>2, <4>3, <4>4
    <3>2. CASE SkipWaypoint(j)
      <4>1. rows' = rows
        BY <3>2 DEF SkipWaypoint, ivars
      <4>2. 1..(jobs[j].pos + 1 - 1) = 1..(jobs[j].pos - 1) \cup {jobs[j].pos}
        BY <2>4
      <4>3. /\ jobs'[j].pos = jobs[j].pos + 1 /\ jobs'[j].city = jobs[j].city
            /\ jobs'[j].known = jobs[j].known /\ jobs'[j].batch = jobs[j].batch
            /\ jobs'[j].skipped = jobs[j].skipped \cup {jobs[j].pos}
            /\ jobs'[j].queue = jobs[j].queue /\ jobs'[j].at = jobs[j].at
        BY <2>0, <3>2, SkipEffect
      <4> QED
        BY <2>2, <4>1, <4>2, <4>3
    <3>3. CASE SkipKnown(j)
      <4>1. rows' = rows
        BY <3>3 DEF SkipKnown, ivars
      <4> QED
        BY <2>0, <2>2, <3>3, <4>1, KnownEffect
    <3>4. CASE Look(j)
      <4>1. rows' = rows /\ jobs[j].at = {}
        BY <2>3, <3>4 DEF Look, At, ivars
      <4> QED
        BY <2>0, <2>2, <3>4, <4>1, LookEffect
    <3>5. CASE Upload(j) \/ Stamp(j)
      <4>1. rows' = rows
        BY <3>5 DEF Upload, Stamp
      <4> QED
        BY <2>0, <2>2, <3>5, <4>1, UploadEffect, StampEffect
    <3>6. CASE Buffer(j)
      <4>1. rows' = rows
        BY <3>6 DEF Buffer, ivars
      <4> QED
        BY <2>0, <2>2, <3>6, <4>1, BufferEffect
    <3>7. CASE Flush(j) \/ FlushRest(j)
      <4>1. rows' = rows \cup jobs[j].batch
        BY <3>7 DEF Flush, FlushRest
      <4> QED
        BY <2>0, <2>2, <3>7, <4>1, FlushEffect, FlushRestEffect
    <3>8. CASE Succeed(j) \/ Fail(j)
      BY <2>0, <3>8, EndEffect
    <3> QED
      BY <1>2, <3>1, <3>2, <3>3, <3>4, <3>5, <3>6, <3>7, <3>8 DEF Proceed
  <2>6. \A k \in Running' : Held(jobs'[k], rows')
    BY <1>0, <2>1, <2>5 DEF Running
  <2> QED
    BY <2>6 DEF Accounted, Route, InHands
<1>3. CASE UNCHANGED jvars
  BY <1>3 DEF jvars, ivars, Accounted, Running, Route, InHands
<1> QED
  BY <1>1, <1>2, <1>3 DEF Next, JobStep

(* A job stamps, and succeeds, with everything stored.                     *)
LEMMA SuccessStep ==
  TypeOK /\ Settled /\ Accounted /\ SuccessMeansStored /\ [Next]_jvars => SuccessMeansStored'
<1> SUFFICES ASSUME TypeOK, Settled, Accounted, SuccessMeansStored, [Next]_jvars
             PROVE  SuccessMeansStored'
  OBVIOUS
<1>1. ASSUME NEW c \in City, Spawn(c) PROVE SuccessMeansStored'
  <2>1. NewJob(c).exit = "running"
    BY DEF NewJob
  <2>2. rows' = rows /\ stamp' = stamp /\ stamp # Len(jobs) + 1
    BY <1>1 DEF Spawn, TypeOK
  <2> QED
    BY <1>1, <2>1, <2>2, SpawnFrame DEF SuccessMeansStored, Covered, Route
<1>2. ASSUME NEW j \in DOMAIN jobs, Proceed(j) \/ Fail(j) PROVE SuccessMeansStored'
  <2>1. /\ jobs[j].exit = "running" /\ DOMAIN jobs' = DOMAIN jobs
        /\ \A k \in DOMAIN jobs : k # j => jobs'[k] = jobs[k]
    BY <1>2, Frame
  <2>2. CASE Stamp(j) \/ Succeed(j)
    <3>1. jobs[j].pc \in {"stamp", "exit"}
      BY <2>2 DEF Stamp, Succeed, At
    <3>2. /\ jobs[j].at = {} /\ jobs[j].queue = {} /\ jobs[j].batch = {}
          /\ jobs[j].pos > Len(Route(j))
      BY <2>1, <3>1 DEF Settled, Running
    <3>3. \A i \in (1..(jobs[j].pos - 1) \cap DOMAIN Route(j)) \ jobs[j].skipped :
            References(Route(j)[i]) \subseteq rows
      BY <2>1, <3>2 DEF Accounted, Running, InHands
    <3>4. jobs[j].pos \in Nat /\ Len(Route(j)) \in Nat /\ DOMAIN Route(j) = 1..Len(Route(j))
      BY RouteType DEF TypeOK, Job
    <3>5. Covered(j)
      BY <3>2, <3>3, <3>4 DEF Covered
    <3>6. stamp' \in {stamp, j}
      BY <2>2 DEF Stamp, Succeed, ivars
    <3> QED
      BY <1>2, <2>1, <3>5, <3>6, CoveredStable DEF SuccessMeansStored
  <2>3. CASE ~Stamp(j) /\ ~Succeed(j)
    <3>1. stamp' = stamp
      BY <1>2, <2>3 DEF Proceed, Fail, FetchWaypoint, SkipWaypoint, SkipKnown, Look, Upload,
         Buffer, Flush, FlushRest, ivars
    <3>2. jobs'[j].exit # "ok"
      <4>1. CASE Fail(j)
        BY <2>1, <4>1 DEF Fail, Leave, TypeOK
      <4>2. CASE ~Fail(j)
        BY <1>2, <2>1, <2>3, <4>2, FetchEffect, SkipEffect, KnownEffect, LookEffect,
           UploadEffect, BufferEffect, FlushEffect, FlushRestEffect DEF Proceed, TypeOK
      <4> QED
        BY <4>1, <4>2
    <3> QED
      BY <1>2, <2>1, <3>1, <3>2, CoveredStable DEF SuccessMeansStored
  <2> QED
    BY <2>2, <2>3
<1>3. CASE UNCHANGED jvars
  BY <1>3 DEF jvars, ivars, SuccessMeansStored, Covered, Route
<1> QED
  BY <1>1, <1>2, <1>3 DEF Next, JobStep

(* One job at a time finds an object that is in the store.                 *)
LEMMA AloneStep == TypeOK /\ Alone /\ [Next]_jvars => Alone'
<1> SUFFICES ASSUME TypeOK, Alone, [Next]_jvars, ~overlapped' PROVE Alone'
  BY DEF Alone
<1>1. ASSUME NEW c \in City, Spawn(c) PROVE Alone'
  <2>1. NewJob(c).pc = "stream"
    BY DEF NewJob
  <2>2. ~overlapped /\ Running = {} /\ uploads' = uploads /\ objects' = objects
    BY <1>1 DEF Spawn
  <2>3. Running' = {Len(jobs) + 1} /\ jobs'[Len(jobs) + 1].pc = "stream"
    BY <1>1, <2>1, <2>2, SpawnFrame
  <2> QED
    BY <2>2, <2>3 DEF Alone
<1>2. ASSUME NEW j \in DOMAIN jobs, Proceed(j) \/ Fail(j) PROVE Alone'
  <2>0. jobs \in Seq(Job) /\ uploads \in [Image -> Nat] /\ jobs[j] \in Job
    BY RouteType DEF TypeOK
  <2>1. j \in Running /\ Running' \subseteq Running /\ ~overlapped
    <3>1. overlapped' = overlapped
      BY <1>2 DEF Proceed, Fail, FetchWaypoint, SkipWaypoint, SkipKnown, Look, Upload,
         Buffer, Flush, FlushRest, Stamp, Succeed, ivars
    <3>2. jobs[j].exit = "running"
      BY <1>2 DEF Proceed, Fail, FetchWaypoint, SkipWaypoint, SkipKnown, Look, Upload,
         Buffer, Flush, FlushRest, Stamp, Succeed, WaypointDone, At
    <3>3. Running' \subseteq Running
      BY <1>2, <3>2, Frame DEF Running
    <3> QED
      BY <3>1, <3>2, <3>3 DEF Running
  <2>2. \A k \in Running' : k = j
    BY <2>1 DEF Alone
  <2>3. CASE Upload(j)
    <3>1. jobs[j].pc = "upload" /\ jobs'[j].pc = "row"
      BY <2>0, <2>3, UploadEffect DEF Upload, At
    <3>2. PICK k \in jobs[j].at :
            /\ objects' = objects \cup {k.image}
            /\ uploads' = [uploads EXCEPT ![k.image] = @ + 1]
      BY <2>3 DEF Upload
    <3>3. k.image \in Image /\ k.image \notin objects
      BY <2>0, <2>1, <3>1, <3>2 DEF Alone, Job, Key
    <3>4. uploads[k.image] = 0
      BY <2>0, <2>1, <3>3 DEF Alone
    <3>5. \A i \in Image : uploads'[i] <= 1 /\ (uploads'[i] = 1 => i \in objects')
      BY <2>0, <2>1, <3>2, <3>3, <3>4 DEF Alone
    <3> QED
      BY <2>2, <3>1, <3>5 DEF Alone
  <2>4. CASE ~Upload(j)
    <3>1. uploads' = uploads /\ objects' = objects
      BY <1>2, <2>4 DEF Proceed, Fail, FetchWaypoint, SkipWaypoint, SkipKnown, Look, Buffer,
         Flush, FlushRest, Stamp, Succeed, ivars
    <3>2. jobs'[j].pc = "upload" => \A k \in jobs'[j].at : k.image \notin objects
      <4>1. CASE Look(j)
        BY <2>0, <4>1, LookEffect
      <4>2. CASE FetchWaypoint(j) \/ SkipWaypoint(j) \/ SkipKnown(j)
        <5>1. jobs'[j].pc = "stream"
          BY <2>0, <4>2, FetchEffect, SkipEffect, KnownEffect
             DEF FetchWaypoint, SkipWaypoint, SkipKnown, WaypointDone, At
        <5> QED
          BY <5>1
      <4>3. CASE Buffer(j) \/ Flush(j) \/ FlushRest(j) \/ Stamp(j) \/ Succeed(j) \/ Fail(j)
        <5>1. jobs'[j].pc # "upload"
          BY <2>0, <4>3, BufferEffect, FlushEffect, FlushRestEffect, StampEffect, EndEffect
        <5> QED
          BY <5>1
      <4> QED
        BY <1>2, <2>4, <4>1, <4>2, <4>3 DEF Proceed
    <3> QED
      BY <2>1, <2>2, <3>1, <3>2 DEF Alone
  <2> QED
    BY <2>3, <2>4
<1>3. CASE UNCHANGED jvars
  BY <1>3 DEF jvars, ivars, Alone, Running
<1> QED
  BY <1>1, <1>2, <1>3 DEF Next, JobStep

-----------------------------------------------------------------------------
(* Every step keeps the invariant, whoever starts the jobs.                *)
LEMMA ImageryStep == ImageryInv /\ [Next]_jvars => ImageryInv'
BY TypeStep, AtHandStep, StoreStep, SettledStep, AccountStep, SuccessStep, AloneStep
   DEF ImageryInv

(* The invariant holds in every reachable state.                           *)
THEOREM ImageryInvariant == Spec => []ImageryInv
BY ImageryInit, ImageryStep, PTL DEF Spec

(* Every variable keeps its type.                                          *)
THEOREM TypeCorrect == Spec => []TypeOK
<1>1. ImageryInv => TypeOK
  BY DEF ImageryInv
<1> QED
  BY ImageryInvariant, <1>1, PTL

(* A row of segment_imagery always has its object, whichever jobs overlap  *)
(* and wherever they fail (ingest_imagery uploads before it buffers).      *)
THEOREM RowsAreBacked == Spec => []RowHasObject
<1>1. ImageryInv => RowHasObject
  BY DEF ImageryInv
<1> QED
  BY ImageryInvariant, <1>1, PTL

(* A job that exits with 0 has left a row for every reference it was       *)
(* offered (ingest_imagery's last flush).                                  *)
THEOREM SuccessIsComplete == Spec => []SuccessMeansStored
<1>1. ImageryInv => SuccessMeansStored
  BY DEF ImageryInv
<1> QED
  BY ImageryInvariant, <1>1, PTL

(* Jobs one after the other upload no image twice (object_exists).         *)
THEOREM RerunsUploadNothing == Spec => []UploadedOnce
<1>1. ImageryInv => UploadedOnce
  BY DEF ImageryInv, Alone, UploadedOnce
<1> QED
  BY ImageryInvariant, <1>1, PTL
=============================================================================
