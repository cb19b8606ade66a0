# StreetSense in TLA+

StreetSense forecasts, for every road segment of a city, when and where road
conditions are hard on driver-assistance perception.  This directory holds TLA+
models of the parts of it that are hard to test: processes that share a lock
file, database tables, an object store or a checkpoint file, that run at the
same time, and that can be killed between any two steps; requests of several
statements over tables that are being written; and a browser application whose
answers and map events come in any order.  The arithmetic in between, from a road
to what a client reads of its risk, is pure and is modelled by operators.

* `ScoringLock`, `ScoreLedger`, `HourlyLedger`, `ScoringRun`, `ImagerySupervisor`,
  `ImageryJob`, `ImageryPipeline`, `Catalog`, `Readers`, `Frontend`: the specifications.
* `RiskRows`, `ShownRisk`: the operators.
* `MC*.tla`, `*.cfg`: the instances that TLC checks.
* `*_proofs.tla`: theorems that TLAPS checks, for every value of the constants.
* `PROJECT.json`: which definition models which lines, the runs, the faulty
  variants each property is tested with, findings, hazards and theorems.

## 1. The system

### Components and how they interact

| Component | State it keeps | Operations | Interacts with | Hard about it | What makes it correct |
|---|---|---|---|---|---|
| Scoring lock, `scripts/run_scoring.py` | the lock file with a pid in it | acquire, reclaim a stale lock, run the CLI, release | cron, operators, `scoring.cli run` as a child, the process table | several invocations, kills, orphans, pid reuse | one run at a time; a dead holder's lock is reclaimed; nobody leaves a lock behind; not everybody stands aside |
| Scoring runs, `scoring/phase4_run.py`, `scoring/run.py` | `scoring_runs`, `segment_scores` | record the run, read segments, score, propagate, write batches | `road_segments` (ingestion), every reader | crash between batches, ingestion and other runs meanwhile, no unique key, a missing uplift reads as 0 | append-only; no score twice; finished runs are complete; partial ones are a prefix |
| Imagery supervisor, `scripts/run_imagery_supervisor.py` | the checkpoint file, attempts and status per city | start, `--reset`, launch and reap a job, retry, give up, save | `ingestion.cli imagery` as a child | kills at any step, a save that is not atomic, children that outlive it | retry budget; `done` is earned and final; exit code 0 is true |
| Imagery job, `ingestion/imagery/job.py` | `segment_imagery`, the object store, `data_sources` | stream references, look up, upload, insert in batches, stamp | Mapillary, MinIO, PostgreSQL, other jobs | failure between upload and insert, two jobs at once, stale knowledge | every row has its object; success means stored; reruns upload nothing |
| Mapillary provider, `ingestion/imagery/mapillary.py` | token bucket, HTTP client | query a waypoint, download, retry with backoff | Mapillary | 5xx and transport errors, rate limit | a query is answered, passed over or fails the job, in bounded time |
| OSM ingestion, `ingestion/persist.py`, `ingestion/osm/` | `road_segments`, `data_sources` | download or reuse the extract, upsert its ways in one transaction | scoring, imagery, other seeds | a cut-off download; two seeds that deadlock on `road_segments`; a way that two cities share; snapshot date shared by all cities | the provenance row names an extract that is all there |
| Incidents, `ingestion/incidents/` | `incidents`, `data_sources` | fetch pages of every layer, insert in batches, one commit per batch, stamp | historical scorer | partial failure, paging, freshness from the data itself | a job that succeeds has stored all that it was not kept from, whatever earlier ones left |
| City seeding, `ingestion/seed_cities.py` | `cities` | upsert from YAML; look up a slug | every other command | the commands start in any order | nothing is written for a city that is not there |
| Scoring CLI, `scoring/cli.py` | none | resolve provenance, build scorers, run | `data_sources`, `segment_imagery`, object store | six reads at six moments, the provenance first | the reads of a run that completes fit together |
| Scorers and composite, `scoring/*/` | none | pure floating-point functions | scoring runs | ties, empty inputs, clipping, what a row no longer tells apart | ranges; more roads never look simpler; a road has one glare; the composite is its parts |
| Confidence, delta and decomposition, `api/confidence.py`, `api/delta.py`, `api/schemas.py` | none | pure floating-point functions | API routes, frontend | five routes that show one row in five places; signals out of range | the parts add up; nothing is claimed that is not known; no answer is refused by its own model |
| Propagator runner and engine, `scoring/propagator/` | none | 24 calls over a thread pool, graph algorithms in C++ | scoring runs | one of 24 failing; numerics | results per hour, bounded uplift |
| HTTP API, `api/` | connection pool | list and page runs, deltas, segments, freshness | PostgreSQL, MinIO, frontend | several statements per request while runs write | a page and its total agree; answers that may be kept for ever; the map shows what the API says |
| Tile functions, migrations 0006-0019 | none | SQL per tile | pg_tileserv, map | one statement each | same snapping as the API |
| Frontend, `frontend/src/` | Redux slices, query cache, map sources, URL | switch city, scrub, select, compare runs | API, tile server | asynchronous answers, caches that never expire, load events | what is shown belongs to the city and the runs chosen |
| Deployment scripts, `scripts/bootstrap_deploy.py`, `deploy_smoke.py`, `infra/` | none | subprocesses and probes | hosts | none (sequential) | exit codes |
| Model tools, `tools/perception/` | artefacts | train, export, seed the model | object store | none | reproducible artefacts |

The processes know little of each other.  Cron and operators start
`run_scoring.py`, which starts `scoring.cli run`; an operator starts the imagery
supervisor, which starts `ingestion.cli imagery`, and by hand the other commands
of `ingestion.cli`.  Parents see only exit codes of children and survive or die
independently of them.  Everything else is shared state: the lock file, the
checkpoint file, the tables and the objects.  The browser sees the tables
through the API and the tile server only.

### Modules and how they compose

```
ScoringLock            the lock file, its processes
Catalog                cities, ways, incidents and provenance, and a run up to its scores

ScoreLedger                                  an append-only ledger
   ^ extends
HourlyLedger  <--implements--  ScoringRun    the same, hour by hour; the two run loops
              <--implements--  Readers       the same writers, beside API and tiles

RiskRows  <--extends--  ShownRisk            what a row says; what the API says of it

ImagerySupervisor  <--implements--  ImageryPipeline  --extends-->  ImageryJob
Frontend               the browser
```

`Catalog` ends where `ScoringRun` begins: the first models what a run reads and in
which order, the second what it writes.  `HourlyLedger` is what the two sides of the
score tables agree on: runs that read their segments once and, unless they
stream, finish an hour before they show the next.  That `ScoringRun` implements it
is a property of the run `store` and a theorem; that the writers of `Readers` do
nothing else is a theorem.  `RiskRows` and `ShownRisk` are about one row each, so
they meet the state machines only where `AppendRow` writes one and a route reads it.

## 2. The modules and the code

### ScoringLock

One element of `Wrapper` is one invocation of the wrapper.  `pc[w]` names its next
system call, and each call is one action, because they interleave with those of
other invocations:

| `_acquire_lock`, `run_scoring` | action |
|---|---|
| `os.open(O_CREAT \| O_EXCL)` succeeds / raises | `CreateLock` / `LockExists` |
| `lock.read_text()`, `int`, 0 if empty or missing | `ReadHolder` |
| `pid == 0 or not _pid_alive(pid)` true / false | `FindStale` / `FindHeld` (exit 75) |
| `lock.unlink()`, retry | `Reclaim` |
| `os.write(fd, pid)` | `WritePid` |
| `subprocess.run`, start / return | `SpawnScoring` / `Reap` |
| `_release_lock` in `finally` | `Release` |
| the child ends; a SIGKILL; other processes | `ScoringExits`; `Kill`; `ForeignStart`, `ForeignExit` |

`owner` is the invocation whose open created the file now at the path, so that a
write through a descriptor whose file was unlinked meanwhile reaches nothing.
On Windows `_pid_alive` is always true; the deployed system is Linux, and the
model is of Linux.

### ScoreLedger and ScoringRun

`ScoreLedger` is what readers of `scoring_runs` and `segment_scores` are promised: an
append-only ledger.  `ScoringRun` is the code: `execute_phase4_scoring_run`, whose
loops go hour by hour, and `ScoringRun.execute` (the runs in `Streaming`), whose
loops go segment by segment.

| code | action |
|---|---|
| the `scoring_runs` row, committed | `RecordRun` |
| the segments of the city, in whatever order they come | `LoadSegments` |
| `_score_all`, then `run_24_hourly` submits every hour | `ScoreAll` |
| a call of the pool returns / one raises and the pool waits for the rest | `Propagate` / `PropagationRaises` |
| all futures have their results | `StartRows` |
| the loop body | `AppendRow` |
| the two halves of `_flush` | `InsertBatch`, `CommitBatch` |
| the summary | `Finish` |
| an exception or a kill, with its roll-back | `Fail` |
| OSM ingestion adds segments at any moment | `Ingest` |

The model keeps of an hour's uplift whether it is there, because the loop takes a
missing one for 0 (`per_hour_uplift.get(h, {})`).  No step depends on other values;
what they are is the matter of `RiskRows`.

`HourlyLedger` lies between the two: `Load` reads any set of segments once, before the
first score, and `Commit` is any extension of the ledger after which every run that
does not stream has all of an hour's scores before it has one of a later hour.

### RiskRows and ShownRisk

A float of [0, 1] is a number of 0 .. `One`, where `One` is 900 grains of any size:
thirds, fifths, degrees of a right angle and the 900 days in which imagery loses
its credit are whole numbers of grains.  Composites count twelve-hundredths of
that, so that the weights 0.35, 0.3, 0.2, 0.15 and the mean of up to four values
are exact.  Rounding of doubles is the part of the code this leaves out.  `CosSquared`,
`Attenuation`, `Spatial` and `Recency` are constants: the proofs use of the first two
that they lie in [0, 1] and nothing of the others.

| code | operators |
|---|---|
| `build_topology_index`, `_junction_endpoint` | `Legs`, `JunctionEndpoint`: a city is a function from roads to lanes, class and, for each side, key and bearing |
| `junction/scorer.py` | `IntersectionDegree`, `MergeAngle`, `LaneCountChange`, `RoadClassTransition`, `JunctionComplexity` |
| `glare_from_geometry` | `AngleOfAxisAndSun`, `Glare` |
| `compute_raw_weight`, `raw_weight_sum`, `score` | `RawWeight`, `RawWeightSum`, `Historical` |
| `aggregate`, `_score_with_loaded_imagery` | `LaneMarkings`: a set of results, because the mean of the images is any number between the least and the greatest |
| the scorers of `scoring.cli run` | `Scored` |
| `_composite_local_inputs_per_hour`, `assemble`, the row template of Phase 4 / of streaming runs | `LocalInput`, `RiskRow` / `StreamedRow` |
| `freshness`, `coverage`, `assemble`, `_confidence_inputs` | `Freshness`, `Coverage`, `Assemble`, `ConfidenceOf` |
| `get_segment`, with a row / without | `SegmentDetail` / `UnscoredDetail` |
| `_summary_from_row`, `_score_row_to_entry`, `_row_to_snapshot` | `RunScoreEntry`, `Snapshot` |
| `compute_segment_delta` | `SegmentDelta` |
| the bounds of the pydantic models | `Accepted`, `SnapshotAccepted` |

The uplift is an argument, a natural number: that the engine returns none below 0
is its own promise.  A list entry of a segment without a row has no confidence and
is otherwise `ShownAsStub`.

### Catalog

What a run is computed from, and who writes it.  `SeedCities` is the transaction of
`seed-cities`; every other command looks its city up first (`Known`).  A seed
(`ingestion.cli seed`, one process per city) is

| code | action |
|---|---|
| `GeofabrikOSMSource.fetch`, size as announced / otherwise | `CacheHit` / `StartDownload`, `FinishDownload` |
| `CREATE UNIQUE INDEX IF NOT EXISTS` | `LockShare` |
| `OsmiumOSMSource.parse`, run by the first upsert that asks for a row | `Parse` |
| upserts, the `osm` row, commit | `Persist` |
| an error, a kill, the abort of a deadlock | `KillSeed` |

An extract is the number of its version; the number is also its date and stands
for its size.  The incident job is `StartJob` (reads the ids there are), `FetchPage`
(one answer of the FeatureServer and where the next request goes), `TakeRecord` (skip
or add to the batch, which is committed when full), `FlushRest`, `Bump` (the freshness
row), `KillJob`.  An answer is any of status 200 (`Answers`): a full page, fewer records
while there are more, or none at all, which is also how an error body of ArcGIS
reads.  `Withheld` is what such an answer leaves out of a layer the job takes for
finished; nothing in the code records it, so it is a history variable.  A run reads `ResolveDate`, `ResolveWindow`, `LoadTopology`,
`LoadIncidents`, `LoadSegments`, `LoadAdjacency`, each a statement of its own, and `Score`
either scores all or raises on a segment without topology.

### Readers

The writers are `RecordRun`, `LoadSegments`, `CommitScores` (any part of what is
`Unscored` of the hour that is open) and `EndRun`, and `IngestCity`, which upserts ways of a city, also such that
another city had.  The delta route is the four statements it sends, each an action
of `Serve(q)`: `CheckRuns`, `FetchMetadata`, `CountPairs`, `FetchPage`.  `Ask` takes
any two runs, any city and any page of `Pages`, and a client keeps its answer with
the total beside it.  `useDelta` asks for page 1 of 1000 and not again as long as the
answer is in its cache.  The routes that
send one statement each, and the tile functions, are operators on the tables
(`ListRuns`, `RunScores`, `DetailRows`, `Listed`, `TileRows`, `DeltaTile`): whatever one statement
sees is one state.

### Frontend

React applies what events changed and runs the effects of the commit: `Commit` is
one such commit and the conjunction of its effects in the order React runs them
(`MapEffect`, `QueryEffect`, `HydrateEffect`, `UrlEffect`, `ScrubberEffect`, `ClearEffect`, each
named after the hook or component it translates).  Effects that change the store
make another commit due, and no event comes before it.  Events are the user's
(`SelectCity`, `PopState`, `Scrub`, `EnterDeltaMode`, `ExitDeltaMode`, `ToggleMethodology`, `ClickMap`,
`ClickList`, `PickRun`, `SwapRuns`), the answers (`CitiesLoaded`, `TileSourceReady`, `Answer`), the
cache's (`CollectTileSource`) and MapLibre's (`MapLoad`, `MapMove`, `MapIdle`).  A segment is
represented by the city it is in; a run by its city and a number.

### ImagerySupervisor

`mem` is the `Checkpoint` object, `file` the file.  Every save is `Truncate` followed by
`WriteFile`, since `write_text` opens for writing, which empties the file, and then
writes.  A kill in between leaves it empty (`torn`): every status and attempt in it is
lost, and `Checkpoint.load` raises on it until somebody gives `--reset` (`StartReset`).
`reached` is a history of the cities that a file has had as done since then.  `BeginAttempt` counts and saves, `Launch` starts the
child, `ReapDone` and `ReapFailed` take its exit code, `GiveUp` follows the loop when the
attempts are used up.  Jobs are known by their city and exit only; `JobEnds` ends
them either way.

Assumed: one supervisor at a time (nothing in the code enforces it, two of them
would overwrite each other's checkpoint) and the same `--cities` at every start.

### ImageryJob

`jobs` is a sequence of all jobs ever started, each with its local variables, so
several can run at a time, of one city or of several.  `FetchWaypoint`/`SkipWaypoint`
are the two ways in which the provider goes on to the next waypoint; `SkipKnown`,
`Look`, `Upload`, `Buffer` are the loop body; `Flush` and `FlushRest` are the two calls of
`_flush`; `Stamp` is the update of `data_sources`; `Fail` can happen at every step and
stands for every exception and kill.  The images of one waypoint are taken in any
order.

### ImageryPipeline

Extends `ImageryJob` and takes the supervisor as an instance that sees of the jobs their
`Outcomes`, the city and how they exited: `Launch` is `LaunchChild` of the supervisor
and `Spawn` of the job in one step, `Supervise` and `Ingest` are the steps of one that
the other does not see.  It implements both (`SupervisorSpec`, and `JobsAreJobs` in
the proofs), so what is shown there of arbitrary jobs, and of jobs started by
anybody, holds of the composition.

## 3. What is checked

Every property is stated and explained in a comment where it is defined.

| Run | Instance | Shows |
|---|---|---|
| `lock` | 3 invocations, 3 pids | exclusion as long as nothing was reclaimed; no leaked lock; not all turned away; every invocation ends; a stale lock is reclaimed |
| `lock_overlap` | 2 invocations, 2 pids | two scoring processes at once |
| `store` | a Phase 4 and a streaming run, 2 segments, 3 hours, 2 workers, batches of 2 | no score twice, a committed prefix that had all its uplifts, complete when done, refinement of the hourly ledger, every run ends |
| `supervisor` | 2 cities, 2 retries, 3 starts | budget, earned `done`, true exit code, termination; a city once done is not launched again until a reset, and only a save that is cut off loses it |
| `supervisor_rerun` | 2 cities, 1 retry, 2 starts | a city that is never tried again after a kill |
| `jobs` | 2 jobs, 2 cities that share an image and a segment apart, batches of 2 | rows and objects agree, success means stored, one upload per image, termination |
| `pipeline` | 1 city, 1 waypoint with 2 images, 2 retries, 2 starts, batches of 1 | refinement of the supervisor; `done` means stored |
| `pipeline_retried` | the same, 1 retry, 1 start | images lost to a 5xx although the city is done |
| `catalog` | 2 cities, 2 extracts of one of them, 1 run, 4 records of 3 crashes in 2 layers, pages and batches of 2, answers from none to a full page | provenance names an extract that is whole; the reads of a completed run fit together; a crash that a successful job leaves out was kept from it by a short answer |
| `readers` | 2 runs of one city on two days, 2 segments of which one may move to another city, 3 hours, 1 client that asks for page 1 or 2 of 1 row | no run disappears within a request; totals are never ahead of pages; a kept delta holds rows that stay right, of two ended runs it is what the request returns for ever, and page 1 is the whole delta only if the total fits in it; tiles and API agree |
| `frontend` | 2 cities with 2 runs each, 1 hour the user may set | the URL names the city; the hour is never another city's noon; selections do not survive a switch; the map comes up |
| `map_stale` | the same | a map that keeps the tiles of the previous city |

The operators of `RiskRows` and `ShownRisk` have no state to explore.  Before the run
`readers` starts, TLC evaluates the assumptions of `MCReaders`, which compare them
with definitions of another kind on bounded inputs: turns with the least difference
modulo 360 over bearings 15 degrees apart, the junction score over all cities of two
roads, the indicator over signals inside and outside their range, the streamed mean
over every set of results, the sum of incidents on its boundary cases.

### Bounds and why they are enough

* Three invocations let one be in the acquire loop while two others create and
  reclaim; three pids let a pid come back.
* Three hours and batches of two give six rows (full batches), three (a full and a
  short one) and none, according to what ingestion did before the run read its
  segments; both loop nests cross batch boundaries inside an inner loop.
* Three starts let two kills leave their traces for a third supervisor; two
  attempts make the first and the last attempt different.
* Two jobs are the fewest that overlap; with batches of two and three images one
  batch is full and the last is not.
* In `pipeline`, `MaxJobs` is 5 and is never the reason why a job is not started: two
  starts with two retries and a reset give at most four.
* In `catalog` one way goes and another comes from the first extract to the
  second, so an old file and a new one differ and half of either is none.  Four
  records in two layers give a second page, a full batch, a rest, a record without
  a position and a crash that both layers have; each answer may hold anything from
  no record to a full page, with or without more to come.  The second city makes the shared
  `osm` row change hands and lets two seeds wait for each other.
* In `readers` pages are of one row, so of two rows the first page lacks one and
  the second is full, and of one row the second is empty.
  The hour of the delta is the middle one of three, so there is an hour before and
  one after it; two days let the nearest sample of an instant lie in the other
  run.  The shipped boxes do not overlap; the moving way is what `persist.py` does
  when two configured boxes do.
* In `frontend` two cities are the fewest that can be switched; their noons differ
  from each other and from the hour the user sets.  Two runs per city make pairs
  of one city, of two and of the same run.

`MaxStarts` and `MaxJobs` are the only bounds inside the specifications; both are
guards of the action that uses them up (`Begin`, `Spawn`).  The theorems hold for
every value of them.

### Fairness

Only processes that are alive are fair, and only in their own steps: weak fairness
of `Step(w)`, of a run's `Step(r)`, of the supervisor's `Work \/ Launch` and of each
job's `Proceed(j)` is the operating system's scheduler.  That a scoring child or a
job ends (`ScoringExits`, `JobEnds`) is assumed where they are abstract; for imagery
jobs `EveryJobEnds` shows it of the real ones, given that a call to Mapillary, MinIO
or PostgreSQL returns or raises.  The HTTP client has a timeout of 30 s and the
retries are bounded; psycopg and MinIO calls rely on TCP.  Kills, failures, starts
and other processes are never fair: none is needed for progress.

In `Frontend`, `Commit` is weakly fair: React flushes the updates it has scheduled.
`TileSourceReady(c)` is strongly fair: the promise needs no network and is resolved
by the event loop, which runs commits in between, so it is not enabled all the
time.  No user action, no answer of the network and no event of the map is fair.

Deadlock is checked in `catalog`, `readers` and `frontend`, where somebody can always
do something (a city can be ingested again, a user can always act).  The other
runs allow it: all their processes may end, and then nothing is left to do.

### Where code and documentation part

1. **Two scoring processes can run at once** (`lock_overlap`).  `_acquire_lock` creates
   an empty file and writes the pid later; an empty file counts as stale.  The
   unlink of a stale lock and the one in `_release_lock` hit whatever file is there
   by then.  A killed wrapper leaves its child running and the next invocation
   reclaims its lock.  The module says "preventing overlapping runs".  What is
   left is `ExclusiveUnlessReclaimed`.
2. **A kill can use up the last attempt** (`supervisor_rerun`).  Re-running the
   supervisor does not always "pick up unfinished cities".
3. **A lasting 5xx is not retried by the supervisor** (`pipeline_retried`): the
   provider passes over the waypoint, so the inner CLI does not fail.
4. **A city switch can leave the map behind** (`map_stale`).  The effect in
   `Map.tsx` that re-binds the tile source waits for `load` when the map is not
   `loaded()`, also when it is only fetching tiles after a pan; `load` fires once.

Seen while modelling, and stated as assumptions, left out of the properties or
shown by a theorem rather than by a run:

* `phase4_loaders.py:137` says the bearings kept for a junction point into it.  Those
  of the roads that start there point out of it.  Two roads drawn one after the
  other in a straight line therefore meet at 1 degree, the sharpest merge there is,
  and drawn towards each other at none (`StraightRoadIsSharp` of `MCReaders`): the
  score depends on how the map was drawn;
* `junction/scorer.py:146` says a difference of one lane scores 0.5; it scores a third;
* `historical/scorer.py:19` normalises by the greatest sum of the city; `scoring/cli.py`
  builds the scorer without `max_weight`, so what is stored is the clipped raw sum, and
  one recent fatal crash near its centre already makes a segment 1.  In a city without
  incidents every segment gets 0, real and with full confidence, where
  `phase4_loaders.py:278` says "honestly-null";
* a segment that no image shows has full confidence in its row, since a stub does not
  count (`LaneUncertaintyIsPerceptions`).  The list, the run's scores and the delta
  show that as 1 with the limiter "model", which `segments.py:365` calls
  conservative; the detail shows 0 with "coverage" (`UnseenHasNoConfidence`);
* the composite of a segment without a row is a hash of its own, not the weighted sum
  of the hashes beside it: `AnswersAddUp` holds of rows only;

* the `osm` row of `data_sources` is one for all cities, so the snapshot date of a run
  may be that of another city's extract; `CompletedRunIsConsistent` speaks of a date
  of the run's own city only.  The incident window is taken over all incidents;
* the docstring of `make_topology_loader` promises a fall-back for segments it does
  not know; the lookup raises a `KeyError`, and `Score` fails the run;
* `useDelta.ts:51` keeps an answer for ever because it "never changes once both rows
  exist"; that needs both runs to have ended, which nothing records
  (`KeptDeltaStaysRight` has it as a condition);
* `useDelta.ts:20` has "Cambridge sits comfortably under the cap" of 1000, and
  `tests/db/test_osm_real_counts.py:44` observed 36,601 segments there.  What the
  browser shows as the delta of two full runs is then its first 1000 rows
  (`KeptDeltaStaysRight`: page 1 is all of it if and only if the total fits);
* a kill within a save of the checkpoint loses every `done` at once, where
  `run_imagery_supervisor.py` promises that re-running skips the cities already
  done; the next start raises, and the one after `--reset` does them all again
  (`DoneStaysDone` has the cut-off save as its only other way out);
* `massdot_impact.py:231-243` takes an answer without features, an error body of
  status 200 too, and a page that is short in spite of `exceededTransferLimit` for
  the end of a layer.  The job goes on, succeeds and stamps the freshness row
  (`IncidentsAreComplete` names what was withheld);
* `list_run_scores` takes the latest hour of each segment, where its comment speaks
  of noon; while a run writes, two hours that follow each other can be mixed,
  never more (`MapAgreesWithApi`);
* the tile function cuts the delta's hour in the time zone of the session, the API
  in UTC; the same as long as the server runs in UTC, which the model assumes;
* a way that is no longer in an extract stays in `road_segments`;
* the docstring of `_TokenBucket` names 60 000 requests a minute as a ceiling.  A
  bucket that starts full and refills at that rate lets nearly twice as many
  through in its first minute.  One thread with a call at a time does not get near
  it;
* a thumbnail that keeps answering 5xx fails the job at every attempt, since only
  queries are passed over; the supervisor's retries cannot help it.

## 4. What is proved

TLAPS proves the following for every value of the constants that satisfies the
named assumption of its module.

| Module | Assumption | Theorems |
|---|---|---|
| `ScoringLock_proofs` | `LockAssumption` | `LockInvariant`, `TypeCorrect`, `LockNeverLeaks`, `ExclusionUnlessReclaimed`, `SomebodyRuns` |
| `ScoringRun_proofs` | `RunAssumption` | `RunInvariant`, `TypeCorrect`, `ScoredOnce`, `PrefixCommitted`, `DoneRunsAreComplete`, `RunsKeepHourlyLedger`, `RunsKeepLedger` |
| `ImagerySupervisor_proofs` | `SupervisorAssumption` | `SupervisorInvariant`, `TypeCorrect`, `BudgetHolds`, `DoneHasJob`, `ExitCodeIsTrue`, `DoneIsFinal` |
| `ImageryJob_proofs` | `ImageryAssumption` | `ImageryInvariant`, `TypeCorrect`, `RowsAreBacked`, `SuccessIsComplete`, `RerunsUploadNothing` |
| `ImageryPipeline_proofs` | `ImageryAssumption`, `PipelineAssumption` | `PipelineInvariant`, `JobsAreJobs`, `SupervisorIsSupervisor`, `DoneCitiesAreStored`, `ExitZeroMeansStored`, `SupervisedRowsAreBacked` |
| `Catalog_proofs` | `CatalogAssumption` | `CatalogInvariant`, `CatalogTypes`, `CatalogStampIsWhole`, `CatalogRunIsConsistent`, `CatalogIncidentsAreComplete` |
| `Readers_proofs` | `ReadersAssumption` | `ReadersInvariant`, `ReadersOrder`, `ReadersTypes`, `ReadersNeverDisappear`, `ReadersShortPageIsLast`, `ReadersKeptDeltaStaysRight`, `ReadersMapAgrees`, `ReadersKeepHourlyLedger` |
| `Readers_proofs` | `RiskRowsAssumption` | of rows: `JunctionInRange`, `JunctionGrows`, `GlareEitherWay`, `LaneUncertaintyIsPerceptions`; of answers: `IndicatorIsLeast`, `UnseenHasNoConfidence`, `DetailClaimsNoMore`, `ConfidenceFades`, `AnswersAreAccepted`, `AnswersAddUp`, `DeltaAddsUp` |
| `Frontend_proofs` | `FrontendAssumption` | `FrontendInvariant`, `FrontendTypes`, `FrontendUrlNamesCity`, `FrontendNeverForeignNoon`, `FrontendSelectionFollowsCity` |

Each module proves one invariant that is inductive and derives the rest from it; the
theorems about rows and answers have no behaviour and follow from the operators.

* **The lock.**  `ExclusiveUnlessReclaimed` only speaks of children, and says nothing of
  an invocation that has the lock and has not started its child.  The invariant
  adds that without a reclaim everything past the create, or killed past it,
  belongs to the one owner of the file, and that a child only runs for such an
  invocation.  `NoLeakedLock` is about invocations whose steps succeed: one whose
  `os.write` or `unlink` raises before the `try` is a `Kill` at that step.  `NotAllTurnedAway` needs that a pid once read belonged to an
  invocation that had got through.
* **Scoring runs.**  `OncePerCell` is not inductive: a second copy of a row is
  written by a step that looks innocent unless one knows that the batch holds only
  cells that are not in the table.  The invariant says that the committed rows, the
  batch and the positions still to come are the loop positions before, from and
  after fixed points, that the numbering `seq` is consecutive, that the index has
  no segment twice, and that a run that has begun its rows has every uplift.  The
  refinement of `HourlyLedger` follows step by step: `RecordRun` is `Record`,
  `LoadSegments` is `Load`, `CommitBatch` is `Commit`, `Finish` and `Fail` are `Close`,
  everything else stutters.  That a commit keeps the hours in order is the part that
  needs the invariant: the committed rows are a prefix of the loop positions.  That
  `HourlyLedger` only extends the ledger gives `RunsKeepLedger`.
* **The supervisor.**  `BudgetKept` speaks of launches, the code counts attempts in
  memory and in a file that lags behind.  The invariant orders the three
  (launches <= attempts in the file <= attempts in memory, the first two only while
  the file is not torn), and ties the exit code to what is saved for the cities
  before `turn`.  For `DoneIsFinal` it says that a city of `reached` is done in the file
  unless that is torn, and done in the memory of a supervisor that runs: a save that
  was cut off is either repeated from memory or leaves no supervisor behind.
* **Imagery jobs.**  `SuccessMeansStored` needs that what a job knows is in the
  table or in its own batch, and that every reference of the waypoints behind it
  is known, queued or at hand.  `UploadedOnce` needs that without an overlap a
  counted upload is in the store, and that the reference at hand of the one
  running job was looked up truthfully.
* **The pipeline.**  Of the jobs it keeps `ImageryInv`, since to them every step is one
  of theirs, a start, or none (`JobsAreJobs`).  Of the supervisor it takes what relates
  it to real jobs: the city at hand is one of the list and not done, the job it waits
  for is of that city, a city is marked done only when a job of its own exited with
  0, and as long as `overall_ok` holds every city passed so far is marked.
  `DoneCitiesAreStored` is `SuccessMeansStored` of that job; `ExitZeroMeansStored` says the
  same of an exit code 0 for every city of the command line.  `SupervisorIsSupervisor`
  maps each step to a step of the supervisor, a step of a job to the end of the job
  or to a stutter.
* **The catalog.**  `StampIsWhole` needs that a seed that is past the download has the
  file of exactly its version, and that what it has parsed is all of it; a cut-off
  file is never used, because no announced size matches it.
  `CompletedRunIsConsistent` rests on tables that only grow: what was read earlier
  is contained in what is read later, and `Score` closes the circle by demanding
  the converse of topology and segments.  `IncidentsAreComplete` counts along the
  layers: everything before the position the job has reached is in the table, in
  the batch or among what a short answer withheld.
* **Readers.**  Between the count and the page the pair of scores may only grow, and
  once both runs have ended it stands still.  Ranks within a finite set of numbers
  are a bijection onto 1 .. its cardinality, so a page is an interval of ranks: it is
  full or the last one, and the first is the whole pair if and only if the pair
  fits in it; `ReadersOrder` (the hours before are complete) gives the rest.  With it
  the writers are shown to implement `HourlyLedger`, as `ScoringRun` does
  (`ReadersKeepHourlyLedger`).
* **Rows and answers.**  A road that is added brings legs, angles and neighbours and
  takes none away; a greatest difference can only grow and a least angle only
  shrink, and the weights are positive (`JunctionGrows`).  A bearing turned by 180
  degrees exchanges a turn and its supplement (`GlareEitherWay`).  The indicator is
  well defined because the priority breaks every tie, and each of its three signals
  bounds it: the row's confidence bounds the detail (`DetailClaimsNoMore`), freshness
  falls with every day (`ConfidenceFades`).  A row's composite is at least its uplift,
  so the clamp of the local contribution never cuts and the parts add up
  (`AnswersAddUp`).  The least confidence of a row is that of the lane markings
  because the three other scorers always claim 1, which is what the detail route
  relies on to name the uncertainty of the images
  (`LaneUncertaintyIsPerceptions`); a fifth scorer with a confidence of its own would
  break it.
* **Frontend.**  The properties speak of settled states, the effects run in the
  unsettled ones.  The invariant says what each effect that is still due will
  find: once a commit has seen the slug the URL names it, the hour is the noon of
  the city it was last reset for or the user's, and with no commit due the
  queries that are kept are those the mounted components observe.

Only model-checked: everything about liveness (`EveryInvocationEnds`,
`StaleLockIsReclaimed`, `EveryRunEnds`, `SupervisorEnds`, `EveryJobEnds`, `MapComesUp`),
because TLAPS has no support for fairness here.  Every safety property and every
refinement that a passing run checks is also a theorem.  Of `RawWeightSum`, a fold
over a set, nothing is proved, since that takes an induction over the set: the
theorems take the sum as any natural number, and TLC evaluates examples.

## 5. What is not modelled, and what could follow

* **Mapillary provider**: retries, delays and the token bucket only decide when a
  query ends; `ImageryJob` takes every result it can end in.
* **Scoring CLI**: the model row, the imagery window and the ONNX session.  The
  imagery tables are in `ImageryJob`; nothing a run does depends on the window.
* **API**: a request without `t`, which takes the row inserted last and leaves ties
  open; presigned URLs and glare metadata of a segment.  The pool is opened before
  the first request and closed after the last.
* **Frontend**: deck.gl overlays, panel visibility, layer toggles, viewport.
* **Numbers**: the propagator engine in C++, the segmentation model, the sun's
  position, and the rounding of doubles everywhere.
* **SQL geometry** of the tile functions, evaluated by PostGIS in one statement.
* **Scripts and tools**: deployment, smoke tests, benchmarks and model training
  are sequential or offline.

What could follow: the provider's retries and token bucket in a module of their
own; a request without `t`; the API and the frontend's query cache in one module,
with answers that age; bounds of the propagator's uplift.
