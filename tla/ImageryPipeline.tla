--------------------------- MODULE ImageryPipeline ---------------------------
(***************************************************************************)
(* The supervisor with the jobs it starts: ImagerySupervisor and ImageryJob *)
(* composed.  The supervisor sees of a job its city and how it exited; a   *)
(* job sees nothing of the supervisor, and a child whose supervisor was    *)
(* killed runs on beside the jobs of the next one.                         *)
(***************************************************************************)
EXTENDS ImageryJob

CONSTANTS
  Cities,    \* as in ImagerySupervisor, like the two below
  Retries,
  MaxStarts

VARIABLES
  file, torn, mem, spc, then, turn, allOk, result, child, starts, launches, origin,
  reached

(* All of a job that its parent sees.                                      *)
Outcomes == [j \in DOMAIN jobs |-> [city |-> jobs[j].city, exit |-> jobs[j].exit]]

Sup == INSTANCE ImagerySupervisor WITH jobs <- Outcomes

ASSUME PipelineAssumption ==
  /\ Cities \in Seq(City)
  /\ Retries \in Nat
  /\ MaxStarts \in Nat

svars == <<file, torn, mem, spc, then, turn, allOk, result, child, starts, launches,
           origin, reached>>
vars == <<svars, jvars>>

-----------------------------------------------------------------------------
(* A faulty variant of Launch: the child is started and not waited for.    *)
LaunchUnwatched ==
  /\ spc = "launch"
  /\ Spawn(Sup!This)
  /\ spc' = "attempt"
  /\ UNCHANGED <<file, torn, mem, then, turn, allOk, result, child, starts, launches,
                 origin, reached>>

-----------------------------------------------------------------------------
PipelineInit == Init /\ Sup!Init

(* The supervisor on its own.                                              *)
Supervise ==
  /\ UNCHANGED jvars
  /\ Sup!Start \/ Sup!StartReset \/ Sup!Work \/ Sup!Kill

(* subprocess.run: the child is there when the supervisor waits for it.    *)
Launch ==
  /\ Sup!LaunchChild
  /\ Spawn(Sup!This)

(* A child on its own.                                                     *)
Ingest ==
  /\ JobStep
  /\ UNCHANGED svars

PipelineNext == Supervise \/ Launch \/ Ingest

PipelineSpec == PipelineInit /\ [][PipelineNext]_vars

(* A live supervisor and every job are scheduled.                          *)
PipelineFairSpec ==
  /\ PipelineSpec
  /\ WF_vars((UNCHANGED jvars /\ Sup!Work) \/ Launch)
  /\ \A j \in 1..MaxJobs :
       WF_vars(j \in DOMAIN jobs /\ Proceed(j) /\ UNCHANGED svars)

-----------------------------------------------------------------------------
(* The supervisor with the real jobs behaves as it does with any jobs:     *)
(* what is shown of ImagerySupervisor holds here.                          *)
SupervisorSpec == Sup!Spec

(* Nothing in the composition keeps the supervisor from ending: it waits   *)
(* for a child that ends.                                                  *)
SupervisorEnds == spc # "off" ~> spc = "off"

Marked(c) == file[c].status = "done" \/ mem[c].status = "done"

HasRows(w) == References(w) \subseteq rows

(* A city that is done in the checkpoint has a row for every image of its  *)
(* waypoints, except at those that a job of that city passed over.  It     *)
(* holds although the file and the rows are written by different           *)
(* processes, one of which may be gone.                                    *)
PassedOver(c, i) ==
  \E j \in DOMAIN jobs : jobs[j].city = c /\ jobs[j].exit = "ok" /\ i \in jobs[j].skipped

DoneMeansStored ==
  \A c \in City : Marked(c) =>
    \A i \in DOMAIN Waypoints[c] : HasRows(Waypoints[c][i]) \/ PassedOver(c, i)

(* "A ... Mapillary 5xx ... kills the inner CLI.  The supervisor catches   *)
(* the non-zero exit, logs it, sleeps, and re-invokes": what a 5xx kept    *)
(* from being fetched is fetched by a later attempt, before the city is    *)
(* done.  It does not hold: the provider passes over the waypoint, the     *)
(* job exits with 0 and the city is done.                                  *)
ServerErrorsAreRetried ==
  \A c \in City : Marked(c) => \A i \in DOMAIN Waypoints[c] : HasRows(Waypoints[c][i])
=============================================================================
