------------------------------ MODULE ScoringRun ------------------------------
(***************************************************************************)
(* Scoring runs and the tables they write, for the segments of one city.   *)
(*                                                                         *)
(* A run is one process: execute_phase4_scoring_run (what scoring.cli run  *)
(* calls), or ScoringRun.execute for the runs in Streaming.  Both insert   *)
(* and commit their scoring_runs row first, read the city's segments in    *)
(* whatever order the database returns them, and write one segment_scores  *)
(* row per segment and temporal sample in batches, one transaction each.   *)
(* A Phase 4 run goes hour by hour over all segments, a streaming run      *)
(* segment by segment over all hours.  Before its first row a Phase 4 run  *)
(* scores everything and lets a thread pool compute the uplift of every    *)
(* hour (run_24_hourly).  Several runs may be under way at once, OSM       *)
(* ingestion may add segments between any two steps, and a process may die *)
(* at any point, which rolls its open transaction back.                    *)
(*                                                                         *)
(* Of scores and uplifts the model keeps whether they are there: a row of  *)
(* an hour that has no uplift would silently be written with an uplift of  *)
(* 0 (per_hour_uplift.get(h, {})), so the pool may not lose one.           *)
(* inserted_at is PostgreSQL's now(): the start of the transaction that    *)
(* wrote the row, read from a clock that ticks when a transaction starts.  *)
(***************************************************************************)
EXTENDS Integers, Sequences, FiniteSets, SequencesExt

CONSTANTS
  Run,        \* the ids of scoring runs (uuid4)
  Segment,    \* the road segments that OSM ingestion can produce
  Hours,      \* the number of temporal samples of a run
  BatchSize,  \* _BATCH_FLUSH_SIZE, batch_size
  Workers,    \* max_workers of the thread pool
  Streaming   \* the runs made by ScoringRun.execute

ASSUME RunAssumption ==
  /\ Hours \in Nat \ {0}
  /\ BatchSize \in Nat \ {0}
  /\ Workers \in Nat \ {0}
  /\ Streaming \subseteq Run
  /\ IsFiniteSet(Segment)

VARIABLES
  runs,     \* scoring_runs
  scores,   \* segment_scores
  roads,    \* road_segments of the city
  clock,    \* counts the transactions started so far
  pc,       \* pc[r]: the next step of run r
  index,    \* index[r]: the segments r read, in the order it read them
  calls,    \* calls[r][h]: what became of the propagation of hour h
  next,     \* next[r]: the loops' position, <<outer, inner>>, counted from 1
  batch,    \* batch[r]: the cells whose rows wait in memory
  begun,    \* begun[r]: when r's open transaction started, 0 when none is open
  written   \* written[r]: rows_written

vars == <<runs, scores, roads, clock, pc, index, calls, next, batch, begun, written>>

-----------------------------------------------------------------------------
(* A faulty Outer, for the properties to refute: an inclusive range.       *)
OuterInclusive(r) == IF r \in Streaming THEN Len(index[r]) ELSE Hours + 1

-----------------------------------------------------------------------------
Ended == {"done", "failed"}
Label == {"record", "load", "score", "propagate", "write", "commit"} \cup Ended

(* What one row scores: a segment at a temporal sample.                    *)
Cell == Segment \X (1..Hours)

(* The two nested loops, and the cell at a position.                       *)
Outer(r) == IF r \in Streaming THEN Len(index[r]) ELSE Hours
Inner(r) == IF r \in Streaming THEN Hours ELSE Len(index[r])

CellAt(r, p) ==
  IF r \in Streaming THEN <<index[r][p[1]], p[2]>> ELSE <<index[r][p[2]], p[1]>>

Positions(r) == (1..Outer(r)) \X (1..Inner(r))

Exhausted(r) == next[r] \notin Positions(r)

Succ(r, p) == IF p[2] < Inner(r) THEN <<p[1], p[2] + 1>> ELSE <<p[1] + 1, 1>>

(* Every hour of the run has its uplift.                                   *)
Propagated(r) == \A h \in 1..Hours : calls[r][h] = "there"

(* A statement opens a transaction unless one is open.                     *)
BeginIfNone(r) ==
  IF begun[r] # 0
  THEN UNCHANGED <<begun, clock>>
  ELSE begun' = [begun EXCEPT ![r] = clock + 1] /\ clock' = clock + 1

(* A faulty RowsOf: the last row of the batch is left out.                 *)
RowsOfButLast(r) ==
  {[run |-> r, cell |-> batch[r][k], seq |-> written[r] + k, inserted_at |-> begun[r]]
     : k \in 1..(Len(batch[r]) - 1)}

(* The rows of a batch as the table gets them; seq stands for the row's    *)
(* own uuid, which tells two rows for the same cell apart.                 *)
RowsOf(r) ==
  {[run |-> r, cell |-> batch[r][k], seq |-> written[r] + k, inserted_at |-> begun[r]]
     : k \in 1..Len(batch[r])}

-----------------------------------------------------------------------------
(* Faulty variants of actions below, each a slip this code could have:     *)
(* nothing uses them, they show which slip each property rules out.        *)

(* The scoring_runs row is not committed before the scores.                *)
RecordRunUncommitted(r) ==
  /\ pc[r] = "record"
  /\ clock' = clock + 1
  /\ pc' = [pc EXCEPT ![r] = "load"]
  /\ UNCHANGED <<runs, scores, roads, index, calls, next, batch, begun, written>>

(* The caller keeps the batch it has flushed.                              *)
CommitBatchAndKeep(r) ==
  /\ pc[r] = "commit"
  /\ scores' = scores \cup RowsOf(r)
  /\ written' = [written EXCEPT ![r] = @ + Len(batch[r])]
  /\ begun' = [begun EXCEPT ![r] = 0]
  /\ pc' = [pc EXCEPT ![r] = "write"]
  /\ UNCHANGED <<runs, roads, clock, index, calls, next, batch>>

(* The flush after the loops is forgotten.                                 *)
FinishUnflushed(r) ==
  /\ pc[r] = "write"
  /\ Exhausted(r)
  /\ begun' = [begun EXCEPT ![r] = 0]
  /\ pc' = [pc EXCEPT ![r] = "done"]
  /\ UNCHANGED <<runs, scores, roads, clock, index, calls, next, batch, written>>

(* A call that raised does not stop the run.                               *)
StartRowsAnyway(r) ==
  /\ pc[r] = "propagate"
  /\ \A h \in 1..Hours : calls[r][h] # "pending"
  /\ pc' = [pc EXCEPT ![r] = "write"]
  /\ UNCHANGED <<runs, scores, roads, clock, index, calls, next, batch, begun, written>>

(* A run that wrote nothing waits for rows.                                *)
FinishIfRows(r) ==
  /\ pc[r] = "write"
  /\ Exhausted(r)
  /\ batch[r] = <<>>
  /\ written[r] # 0
  /\ begun' = [begun EXCEPT ![r] = 0]
  /\ pc' = [pc EXCEPT ![r] = "done"]
  /\ UNCHANGED <<runs, scores, roads, clock, index, calls, next, batch, written>>

-----------------------------------------------------------------------------
Init ==
  /\ runs = {}
  /\ scores = {}
  /\ roads = {}
  /\ clock = 0
  /\ pc = [r \in Run |-> "record"]
  /\ index = [r \in Run |-> <<>>]
  /\ calls = [r \in Run |-> [h \in 1..Hours |-> "none"]]
  /\ next = [r \in Run |-> <<1, 1>>]
  /\ batch = [r \in Run |-> <<>>]
  /\ begun = [r \in Run |-> 0]
  /\ written = [r \in Run |-> 0]

(* persist_road_segments: one transaction upserts the ways of a snapshot.  *)
Ingest(S) ==
  /\ roads' = roads \cup S
  /\ UNCHANGED <<runs, scores, clock, pc, index, calls, next, batch, begun, written>>

(* The scoring_runs row, committed up front in a transaction of its own.   *)
RecordRun(r) ==
  /\ pc[r] = "record"
  /\ runs' = runs \cup {r}
  /\ clock' = clock + 1
  /\ pc' = [pc EXCEPT ![r] = "load"]
  /\ UNCHANGED <<scores, roads, index, calls, next, batch, begun, written>>

(* load_scoring_segments: no ORDER BY.  Its SELECT opens the transaction   *)
(* that stays open through the scoring and takes the first batch.          *)
LoadSegments(r) ==
  /\ pc[r] = "load"
  /\ \E s \in SetToSeqs(roads) : index' = [index EXCEPT ![r] = s]
  /\ BeginIfNone(r)
  /\ pc' = [pc EXCEPT ![r] = IF r \in Streaming THEN "write" ELSE "score"]
  /\ UNCHANGED <<runs, scores, roads, calls, next, batch, written>>

(* _score_all, the input vectors, and pool.submit for every hour.          *)
ScoreAll(r) ==
  /\ pc[r] = "score"
  /\ calls' = [calls EXCEPT ![r] = [h \in 1..Hours |-> "pending"]]
  /\ pc' = [pc EXCEPT ![r] = "propagate"]
  /\ UNCHANGED <<runs, scores, roads, clock, index, next, batch, begun, written>>

(* _propagate_one: the pool starts the calls in their order and has at     *)
(* most Workers of them under way; they end in any order.                  *)
Propagate(r, h) ==
  /\ pc[r] = "propagate"
  /\ calls[r][h] = "pending"
  /\ Cardinality({g \in 1..(h - 1) : calls[r][g] = "pending"}) < Workers
  /\ \E o \in {"there", "raised"} : calls' = [calls EXCEPT ![r][h] = o]
  /\ UNCHANGED <<runs, scores, roads, clock, pc, index, next, batch, begun, written>>

(* as_completed is through: there is an uplift for every hour.             *)
StartRows(r) ==
  /\ pc[r] = "propagate"
  /\ Propagated(r)
  /\ pc' = [pc EXCEPT ![r] = "write"]
  /\ UNCHANGED <<runs, scores, roads, clock, index, calls, next, batch, begun, written>>

(* future.result() raises; leaving the `with` waits for the other calls.   *)
PropagationRaises(r) ==
  /\ pc[r] = "propagate"
  /\ \A h \in 1..Hours : calls[r][h] # "pending"
  /\ \E h \in 1..Hours : calls[r][h] = "raised"
  /\ begun' = [begun EXCEPT ![r] = 0]
  /\ pc' = [pc EXCEPT ![r] = "failed"]
  /\ UNCHANGED <<runs, scores, roads, clock, index, calls, next, batch, written>>

(* The innermost loop body: build the row, advance.                        *)
AppendRow(r) ==
  /\ pc[r] = "write"
  /\ ~Exhausted(r)
  /\ Len(batch[r]) < BatchSize
  /\ batch' = [batch EXCEPT ![r] = Append(@, CellAt(r, next[r]))]
  /\ next' = [next EXCEPT ![r] = Succ(r, @)]
  /\ UNCHANGED <<runs, scores, roads, clock, pc, index, calls, begun, written>>

(* _flush, its executemany: at _BATCH_FLUSH_SIZE rows, and after the loop  *)
(* if rows are left.                                                       *)
MustFlush(r) ==
  Len(batch[r]) >= BatchSize \/ (Exhausted(r) /\ batch[r] # <<>>)

InsertBatch(r) ==
  /\ pc[r] = "write"
  /\ MustFlush(r)
  /\ BeginIfNone(r)
  /\ pc' = [pc EXCEPT ![r] = "commit"]
  /\ UNCHANGED <<runs, scores, roads, index, calls, next, batch, written>>

(* _flush, its commit; the caller counts the rows and starts a new batch.  *)
CommitBatch(r) ==
  /\ pc[r] = "commit"
  /\ scores' = scores \cup RowsOf(r)
  /\ written' = [written EXCEPT ![r] = @ + Len(batch[r])]
  /\ batch' = [batch EXCEPT ![r] = <<>>]
  /\ begun' = [begun EXCEPT ![r] = 0]
  /\ pc' = [pc EXCEPT ![r] = "write"]
  /\ UNCHANGED <<runs, roads, clock, index, calls, next>>

(* The connection is closed and the summary returned.                      *)
Finish(r) ==
  /\ pc[r] = "write"
  /\ Exhausted(r)
  /\ batch[r] = <<>>
  /\ begun' = [begun EXCEPT ![r] = 0]
  /\ pc' = [pc EXCEPT ![r] = "done"]
  /\ UNCHANGED <<runs, scores, roads, clock, index, calls, next, batch, written>>

(* The process dies, or an exception (a scorer, the database) ends it: the *)
(* transaction is rolled back, the batch is lost.                          *)
Fail(r) ==
  /\ pc[r] \notin Ended
  /\ batch' = [batch EXCEPT ![r] = <<>>]
  /\ begun' = [begun EXCEPT ![r] = 0]
  /\ pc' = [pc EXCEPT ![r] = "failed"]
  /\ UNCHANGED <<runs, scores, roads, clock, index, calls, next, written>>

Step(r) ==
  \/ RecordRun(r) \/ LoadSegments(r)
  \/ ScoreAll(r) \/ (\E h \in 1..Hours : Propagate(r, h))
  \/ StartRows(r) \/ PropagationRaises(r)
  \/ AppendRow(r) \/ InsertBatch(r) \/ CommitBatch(r) \/ Finish(r)

Next ==
  \/ \E r \in Run : Step(r) \/ Fail(r)
  \/ \E S \in SUBSET Segment : Ingest(S)

Spec == Init /\ [][Next]_vars

(* A run's process is scheduled and the database answers; a call that      *)
(* would block for ever is the death of the run here.                      *)
FairSpec == Spec /\ \A r \in Run : WF_vars(Step(r))

-----------------------------------------------------------------------------
RowsOfRun(r) == {x \in scores : x.run = r}
Scored(r) == {x.cell : x \in RowsOfRun(r)}

Row == [run : Run, cell : Cell, seq : Nat, inserted_at : Nat]

TypeOK ==
  /\ runs \subseteq Run
  /\ scores \subseteq Row
  /\ roads \subseteq Segment
  /\ clock \in Nat
  /\ pc \in [Run -> Label]
  /\ index \in [Run -> Seq(Segment)]
  /\ calls \in [Run -> [1..Hours -> {"none", "pending", "there", "raised"}]]
  /\ next \in [Run -> Nat \X Nat]
  /\ batch \in [Run -> Seq(Cell)]
  /\ begun \in [Run -> Nat]
  /\ written \in [Run -> Nat]

(* A run never scores a segment twice for the same hour: the table has no  *)
(* unique constraint, so this rests on the loops, the index and the reset  *)
(* of the batch after each commit.                                         *)
OncePerCell ==
  \A x, y \in scores : x.run = y.run /\ x.cell = y.cell => x = y

(* What a run has committed, also one that died, is a prefix of its loop   *)
(* order: a Phase 4 run that has a row of an hour has all earlier hours of *)
(* every segment, a streaming run all earlier segments.  And a Phase 4 run *)
(* has rows only when the propagation of every hour came through, in       *)
(* whatever order the pool ended them: no row has an uplift of 0 because   *)
(* its hour is missing.                                                    *)
Before(p, q) == p[1] < q[1] \/ (p[1] = q[1] /\ p[2] < q[2])

CommittedPrefix ==
  \A r \in Run :
    /\ \A p, q \in Positions(r) :
         Before(p, q) /\ CellAt(r, q) \in Scored(r) => CellAt(r, p) \in Scored(r)
    /\ r \in Streaming \/ Scored(r) = {} \/ Propagated(r)

(* A run that returned its summary scored every segment it read for every  *)
(* hour, whatever ingestion and other runs did meanwhile, and the summary  *)
(* counts its rows: rows_written = segments x temporal samples.            *)
DoneIsComplete ==
  \A r \in Run : pc[r] = "done" =>
    /\ Scored(r) = Range(index[r]) \X (1..Hours)
    /\ written[r] = Cardinality(RowsOfRun(r))
    /\ written[r] = Len(index[r]) * Hours

(* scoring_runs and segment_scores are the append-only ledger that the API *)
(* is modelled over: a run is recorded before its scores and reads its     *)
(* segments once, no score changes or comes after the end of its run, and  *)
(* of a Phase 4 run all segments have an hour before one of them has the   *)
(* next, in every state that a commit of whatever run shows.               *)
Hourly == INSTANCE HourlyLedger WITH
  Sampled <- 1..Hours,
  recorded <- runs,
  ledger <- scores,
  closed <- {r \in Run : pc[r] \in Ended},
  loaded <- [r \in Run |-> Range(index[r])]

HourlySpec == Hourly!HourlySpec

(* Every run ends, with a summary or without.                              *)
EveryRunEnds == \A r \in Run : <>(pc[r] \in Ended)
=============================================================================
