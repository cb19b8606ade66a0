------------------------------ MODULE ImageryJob ------------------------------
(***************************************************************************)
(* `ingestion.cli imagery`: ingest_imagery of ingestion/imagery/job.py     *)
(* with the Mapillary provider.  A job asks for the images near every      *)
(* waypoint of a city, puts the ones it does not know yet into the object  *)
(* store, and inserts a row for each, in batches of one transaction each.  *)
(* In the end it stamps the imagery row of data_sources.                   *)
(*                                                                         *)
(* A job can fail at every step: a 4xx answer, a transport error or an     *)
(* unreadable thumbnail URL after the retries, an S3 or database error, a  *)
(* kill.  Nothing is taken back in the object store, the transaction at    *)
(* hand is rolled back, and the process exits with another code than 0.    *)
(* The exception is a waypoint query that keeps answering 5xx: the         *)
(* provider passes over that waypoint and the job goes on.                 *)
(*                                                                         *)
(* Jobs, of one city or of several, may run at the same time: a supervisor *)
(* that was killed leaves its child behind, and the command can be given   *)
(* by hand.                                                                *)
(***************************************************************************)
EXTENDS Naturals, Sequences, FiniteSets

CONSTANTS
  City,      \* the city slugs
  Segment,   \* the road segments
  Image,     \* Mapillary's image ids
  Waypoints, \* for every city the waypoints along its segments, in order,
             \* each with the images Mapillary has there
  BatchSize, \* insert_batch_size
  MaxJobs    \* bound: how many jobs are ever started

ASSUME ImageryAssumption ==
  /\ Waypoints \in [City -> Seq([segment : Segment, images : SUBSET Image])]
  /\ \A c \in City : \A i \in DOMAIN Waypoints[c] : IsFiniteSet(Waypoints[c][i].images)
  /\ BatchSize \in Nat
  /\ MaxJobs \in Nat

VARIABLES
  jobs,      \* every job so far, with its local variables
  rows,      \* segment_imagery: the keys (image, segment)
  objects,   \* the images in the object store
  stamp,     \* the job that set last_ingested_at, 0 before the first
  uploads,   \* history: put_object calls per image
  overlapped \* history: two jobs have run at the same time

ivars == <<rows, objects, stamp, uploads, overlapped>>
jvars == <<jobs, ivars>>

-----------------------------------------------------------------------------
Key == [image : Image, segment : Segment]

(* What fetch_for_waypoints yields at a waypoint.                          *)
References(w) == {[image |-> i, segment |-> w.segment] : i \in w.images}

Route(j) == Waypoints[jobs[j].city]

Running == {j \in DOMAIN jobs : jobs[j].exit = "running"}

At(j, label) == jobs[j].exit = "running" /\ jobs[j].pc = label

(* The stream of references has nothing left of the waypoint at hand.      *)
WaypointDone(j) == At(j, "stream") /\ jobs[j].queue = {}

(* The process is gone and its local variables with it.                    *)
Leave(j, code) ==
  jobs' = [jobs EXCEPT ![j].exit = code, ![j].pc = "gone", ![j].queue = {}, ![j].at = {},
                       ![j].known = {}, ![j].batch = {}]

-----------------------------------------------------------------------------
(* Faulty variants of actions below, each a slip this code could have:     *)
(* nothing uses them, they show which slip each property rules out.        *)

(* The row is buffered before the bytes are in the store.                  *)
LookOptimistically(j) ==
  /\ At(j, "stream")
  /\ \E k \in jobs[j].queue \ jobs[j].known :
       jobs' = [jobs EXCEPT ![j].queue = @ \ {k}, ![j].at = {k}, ![j].pc = "row"]
  /\ UNCHANGED ivars

(* The object store is not asked.                                          *)
LookBlindly(j) ==
  /\ At(j, "stream")
  /\ \E k \in jobs[j].queue \ jobs[j].known :
       jobs' = [jobs EXCEPT ![j].queue = @ \ {k}, ![j].at = {k}, ![j].pc = "upload"]
  /\ UNCHANGED ivars

(* The last batch, shorter than the others, is not flushed.                *)
FlushRestNot(j) ==
  /\ WaypointDone(j)
  /\ jobs[j].pos > Len(Route(j))
  /\ jobs' = [jobs EXCEPT ![j].batch = {}, ![j].pc = "stamp"]
  /\ UNCHANGED ivars

(* The object is named for the reference instead of the image.             *)
UploadPerReference(j) ==
  /\ At(j, "upload")
  /\ objects' = objects \cup jobs[j].at
  /\ jobs' = [jobs EXCEPT ![j].pc = "row"]
  /\ UNCHANGED <<rows, stamp, uploads, overlapped>>

(* A reference that is stored already holds up the stream.                 *)
SkipKnownInPlace(j) ==
  /\ At(j, "stream")
  /\ jobs[j].queue \cap jobs[j].known # {}
  /\ jobs' = jobs
  /\ UNCHANGED ivars

-----------------------------------------------------------------------------
Init ==
  /\ jobs = <<>>
  /\ rows = {} /\ objects = {}
  /\ stamp = 0
  /\ uploads = [i \in Image |-> 0]
  /\ overlapped = FALSE

(* The head of ingest_imagery: the references that are stored are read     *)
(* once, over all cities.                                                  *)
NewJob(c) ==
  [city |-> c, exit |-> "running", pc |-> "stream", pos |-> 1, queue |-> {},
   at |-> {}, known |-> rows, batch |-> {}, skipped |-> {}]

Spawn(c) ==
  /\ Len(jobs) < MaxJobs
  /\ jobs' = Append(jobs, NewJob(c))
  /\ overlapped' = (overlapped \/ Running # {})
  /\ UNCHANGED <<rows, objects, stamp, uploads>>

(* The images of the next waypoint are answered, ...                       *)
FetchWaypoint(j) ==
  /\ WaypointDone(j)
  /\ jobs[j].pos <= Len(Route(j))
  /\ jobs' = [jobs EXCEPT ![j].queue = References(Route(j)[jobs[j].pos]),
                          ![j].pos = @ + 1]
  /\ UNCHANGED ivars

(* ... or the last retry of the query is answered 5xx as well.             *)
SkipWaypoint(j) ==
  /\ WaypointDone(j)
  /\ jobs[j].pos <= Len(Route(j))
  /\ jobs' = [jobs EXCEPT ![j].skipped = @ \cup {jobs[j].pos}, ![j].pos = @ + 1]
  /\ UNCHANGED ivars

SkipKnown(j) ==
  /\ At(j, "stream")
  /\ \E k \in jobs[j].queue \cap jobs[j].known :
       jobs' = [jobs EXCEPT ![j].queue = @ \ {k}]
  /\ UNCHANGED ivars

(* object_exists for a reference that is not known.                        *)
Look(j) ==
  /\ At(j, "stream")
  /\ \E k \in jobs[j].queue \ jobs[j].known :
       jobs' = [jobs EXCEPT ![j].queue = @ \ {k}, ![j].at = {k},
                            ![j].pc = IF k.image \in objects THEN "row" ELSE "upload"]
  /\ UNCHANGED ivars

Upload(j) ==
  /\ At(j, "upload")
  /\ \E k \in jobs[j].at :
       /\ objects' = objects \cup {k.image}
       /\ uploads' = [uploads EXCEPT ![k.image] = @ + 1]
  /\ jobs' = [jobs EXCEPT ![j].pc = "row"]
  /\ UNCHANGED <<rows, stamp, overlapped>>

(* The reference joins the batch, and a batch that is full is flushed.     *)
Buffer(j) ==
  LET batch == jobs[j].batch \cup jobs[j].at IN
  /\ At(j, "row")
  /\ jobs' = [jobs EXCEPT ![j].batch = batch, ![j].known = @ \cup jobs[j].at, ![j].at = {},
                          ![j].pc = IF Cardinality(batch) >= BatchSize THEN "flush" ELSE "stream"]
  /\ UNCHANGED ivars

(* _flush: insert, ON CONFLICT DO NOTHING, and commit.                     *)
Flush(j) ==
  /\ At(j, "flush")
  /\ rows' = rows \cup jobs[j].batch
  /\ jobs' = [jobs EXCEPT ![j].batch = {}, ![j].pc = "stream"]
  /\ UNCHANGED <<objects, stamp, uploads, overlapped>>

FlushRest(j) ==
  /\ WaypointDone(j)
  /\ jobs[j].pos > Len(Route(j))
  /\ rows' = rows \cup jobs[j].batch
  /\ jobs' = [jobs EXCEPT ![j].batch = {}, ![j].pc = "stamp"]
  /\ UNCHANGED <<objects, stamp, uploads, overlapped>>

Stamp(j) ==
  /\ At(j, "stamp")
  /\ stamp' = j
  /\ jobs' = [jobs EXCEPT ![j].pc = "exit"]
  /\ UNCHANGED <<rows, objects, uploads, overlapped>>

Succeed(j) ==
  /\ At(j, "exit")
  /\ Leave(j, "ok")
  /\ UNCHANGED ivars

Fail(j) ==
  /\ jobs[j].exit = "running"
  /\ Leave(j, "failed")
  /\ UNCHANGED ivars

Proceed(j) ==
  \/ FetchWaypoint(j) \/ SkipWaypoint(j) \/ SkipKnown(j) \/ Look(j) \/ Upload(j)
  \/ Buffer(j) \/ Flush(j) \/ FlushRest(j) \/ Stamp(j) \/ Succeed(j)

JobStep == \E j \in DOMAIN jobs : Proceed(j) \/ Fail(j)

Next == (\E c \in City : Spawn(c)) \/ JobStep

Spec == Init /\ [][Next]_jvars

(* Every process is scheduled.                                             *)
FairSpec == Spec /\ \A j \in 1..MaxJobs : WF_jvars(j \in DOMAIN jobs /\ Proceed(j))

-----------------------------------------------------------------------------
Labels == {"stream", "upload", "row", "flush", "stamp", "exit", "gone"}

Job == [city : City, exit : {"running", "ok", "failed"}, pc : Labels, pos : Nat \ {0},
        queue : SUBSET Key, at : SUBSET Key, known : SUBSET Key,
        batch : SUBSET Key, skipped : SUBSET Nat]

TypeOK ==
  /\ jobs \in Seq(Job)
  /\ rows \subseteq Key /\ objects \subseteq Image
  /\ stamp \in 0..Len(jobs)
  /\ uploads \in [Image -> Nat]
  /\ overlapped \in BOOLEAN

(* A row of segment_imagery never names an object that is not in the       *)
(* store, whichever job failed where: the scorer can load every image.     *)
RowHasObject == \A k \in rows : k.image \in objects

(* A job that exits with 0, or that only came to stamp data_sources, has   *)
(* left a row for every reference of every waypoint it did not pass over,  *)
(* its own or one of another job.                                          *)
Covered(j) ==
  \A i \in DOMAIN Route(j) \ jobs[j].skipped : References(Route(j)[i]) \subseteq rows

SuccessMeansStored ==
  \A j \in DOMAIN jobs : jobs[j].exit = "ok" \/ stamp = j => Covered(j)

(* "re-invocation skips already-stored images": one job after the other,   *)
(* no image is uploaded twice, also if a job failed between the upload and *)
(* the commit of its row.                                                  *)
UploadedOnce == ~overlapped => \A i \in Image : uploads[i] <= 1

(* Every job ends: known references and passed waypoints do not hold it.   *)
EveryJobEnds ==
  \A j \in 1..MaxJobs :
    (j \in DOMAIN jobs /\ jobs[j].exit = "running")
      ~> (j \in DOMAIN jobs /\ jobs[j].exit # "running")
=============================================================================
