-------------------------------- MODULE Catalog --------------------------------
(***************************************************************************)
(* The tables a scoring run is computed from and the processes that fill   *)
(* them: `ingestion.cli seed-cities`, `ingestion.cli seed` (one per city), *)
(* `ingestion.cli incidents`, and `scoring.cli run` up to the scores.      *)
(* Each is a process of its own that may be killed at any step; the        *)
(* database rolls back what it had not committed, the file system keeps    *)
(* what it had written.  All but the first start by looking up their city. *)
(*                                                                         *)
(* A seed downloads the extract of its city (or keeps the file it has),    *)
(* and writes ways and provenance in one transaction.  That transaction    *)
(* first takes the SHARE lock of CREATE UNIQUE INDEX on road_segments,     *)
(* parses the extract under it and only then needs the ROW EXCLUSIVE lock  *)
(* of its upserts: two seeds that parse at the same time wait for each     *)
(* other until PostgreSQL aborts one of them.                              *)
(*                                                                         *)
(* An extract is the number of its version, which is also its date and     *)
(* stands for its size: two versions never have the same size.  Boxes do   *)
(* not overlap, as in the shipped configuration, so a way belongs to one   *)
(* city.  The imagery tables have a module of their own (ImageryJob).      *)
(***************************************************************************)
EXTENDS Integers, Sequences, FiniteSets

CONSTANTS
  City,
  LastVersion, \* extracts of c are published as versions 1 .. LastVersion[c]
  Ways,        \* Ways[c][v]: the ways of extract v inside the box of c
  Run,         \* scoring runs
  CityOf,      \* CityOf[r]: the city of run r
  Covered,     \* the city that MassDOT covers
  Years,       \* the layers of the FeatureServer that are read: 1 .. Years
  Layer,       \* Layer[y]: the crashes of a layer, in the order it serves them
  Located,     \* the crashes that have a date and a position
  At,          \* At[k]: incident_at of crash k
  PageSize,    \* _PAGE_SIZE, the records asked for in one request
  BatchSize,   \* insert_batch_size
  None         \* NULL, no row, no file

Crash == UNION {{Layer[y][i] : i \in DOMAIN Layer[y]} : y \in 1..Years}
WaysIn(c) == UNION {Ways[c][v] : v \in 1..LastVersion[c]}
Way == UNION {WaysIn(c) : c \in City}

ASSUME CatalogAssumption ==
  /\ LastVersion \in [City -> Nat \ {0}]
  /\ DOMAIN Ways = City /\ \A c \in City : DOMAIN Ways[c] = 1..LastVersion[c]
  /\ \A c, d \in City : c # d => WaysIn(c) \cap WaysIn(d) = {}
  /\ CityOf \in [Run -> City] /\ Covered \in City
  /\ Years \in Nat /\ \A y \in 1..Years : Layer[y] \in Seq(Crash)
  /\ Located \subseteq Crash /\ At \in [Crash -> Nat] /\ IsFiniteSet(Crash)
  /\ \A S \in (SUBSET Crash) \ {{}} : \E k \in S : \A l \in S : At[l] <= At[k]
  /\ PageSize \in Nat \ {0} /\ BatchSize \in Nat \ {0}
  /\ None \notin City /\ None \notin Nat

VARIABLES
  upstream, \* upstream[c]: the version Geofabrik serves
  cache,    \* cache[c]: the file at local_cache_path, 0 when it is incomplete
  seed,     \* seed[c]: the seed process of city c
  roads,    \* roads[w]: the version way w was upserted from
  osm,      \* the 'osm' row of data_sources, one for all cities
  cities,   \* the rows of the table cities
  job,      \* the incident job
  stored,   \* incidents.provider_incident_id
  fresh,    \* last_ingested_at of the 'incidents' row of data_sources
  run       \* run[r]: the scoring process of run r

osmVars == <<upstream, cache, seed, roads, osm, cities>>
incidentVars == <<job, stored, fresh>>
vars == <<osmVars, incidentVars, run>>

-----------------------------------------------------------------------------
(* seed_cities: one transaction inserts or updates a row for every YAML    *)
(* file there is by then (S); a file that is invalid rolls all of it back. *)
(* Rows are never removed.                                                 *)
SeedCities(S) ==
  /\ cities' = cities \cup S
  /\ UNCHANGED <<upstream, cache, seed, roads, osm, incidentVars, run>>

(* get_city_id_by_slug: an UnknownCityError ends the process otherwise.    *)
Known(c) == c \in cities

-----------------------------------------------------------------------------
(* GeofabrikOSMSource.fetch.                                               *)
NoSeed == [pc |-> "idle", version |-> 0, ways |-> {}]

Seeding(c, s) == seed' = [seed EXCEPT ![c] = s]

Publish(c) ==
  /\ upstream[c] < LastVersion[c]
  /\ upstream' = [upstream EXCEPT ![c] = @ + 1]
  /\ UNCHANGED <<cache, seed, roads, osm, cities, incidentVars, run>>

(* A faulty CacheHit: any file will do.                                    *)
CacheExists(c) ==
  /\ Known(c)
  /\ seed[c].pc = "idle"
  /\ cache[c] # None
  /\ Seeding(c, [NoSeed EXCEPT !.pc = "fetched", !.version = upstream[c]])
  /\ UNCHANGED <<upstream, cache, roads, osm, cities, incidentVars, run>>

(* HEAD answers and the file has the size it names.                        *)
CacheHit(c) ==
  /\ Known(c)
  /\ seed[c].pc = "idle"
  /\ cache[c] = upstream[c]
  /\ Seeding(c, [NoSeed EXCEPT !.pc = "fetched", !.version = upstream[c]])
  /\ UNCHANGED <<upstream, cache, roads, osm, cities, incidentVars, run>>

(* HEAD fails or names another size: the file is opened for writing.       *)
StartDownload(c) ==
  /\ Known(c)
  /\ seed[c].pc = "idle"
  /\ cache' = [cache EXCEPT ![c] = 0]
  /\ Seeding(c, [NoSeed EXCEPT !.pc = "download", !.version = upstream[c]])
  /\ UNCHANGED <<upstream, roads, osm, cities, incidentVars, run>>

FinishDownload(c) ==
  /\ seed[c].pc = "download"
  /\ cache' = [cache EXCEPT ![c] = seed[c].version]
  /\ Seeding(c, [seed[c] EXCEPT !.pc = "fetched"])
  /\ UNCHANGED <<upstream, roads, osm, cities, incidentVars, run>>

-----------------------------------------------------------------------------
(* persist_road_segments.                                                  *)

(* CREATE UNIQUE INDEX IF NOT EXISTS: SHARE is granted next to SHARE, and  *)
(* queues behind a ROW EXCLUSIVE that waits.                               *)
LockShare(c) ==
  /\ seed[c].pc = "fetched"
  /\ \A d \in City : seed[d].pc # "parsed"
  /\ Seeding(c, [seed[c] EXCEPT !.pc = "locked"])
  /\ UNCHANGED <<upstream, cache, roads, osm, cities, incidentVars, run>>

(* What osmium finds in a file: all its ways, any of them when it ends     *)
(* early (or an error, which is KillSeed).                                 *)
Readable(c) ==
  IF cache[c] = 0 THEN SUBSET Ways[c][seed[c].version] ELSE {Ways[c][cache[c]]}

(* OsmiumOSMSource.parse is a generator: it runs when it is first asked.   *)
Parse(c) ==
  /\ seed[c].pc = "locked"
  /\ \E S \in Readable(c) :
       Seeding(c, [seed[c] EXCEPT !.pc = "parsed", !.ways = S])
  /\ UNCHANGED <<upstream, cache, roads, osm, cities, incidentVars, run>>

(* Upserts and the 'osm' row; nobody else holds the SHARE lock.            *)
Persist(c) ==
  /\ seed[c].pc = "parsed"
  /\ \A d \in City \ {c} : seed[d].pc \notin {"locked", "parsed"}
  /\ roads' = [w \in Way |-> IF w \in seed[c].ways THEN seed[c].version ELSE roads[w]]
  /\ osm' = [city |-> c, version |-> seed[c].version]
  /\ Seeding(c, NoSeed)
  /\ UNCHANGED <<upstream, cache, cities, incidentVars, run>>

(* A download error, the death of the process, or the abort of one of two  *)
(* seeds that wait for each other.                                         *)
KillSeed(c) ==
  /\ seed[c].pc # "idle"
  /\ Seeding(c, NoSeed)
  /\ UNCHANGED <<upstream, cache, roads, osm, cities, incidentVars, run>>

-----------------------------------------------------------------------------
(* ingest_incidents, fed by MassDOTImpactProvider.fetch_for_bbox.          *)
NoJob == [pc |-> "idle", year |-> 1, offset |-> 0, todo |-> <<>>,
          batch |-> {}, existing |-> {}, withheld |-> {}]

StartJob ==
  /\ Known(Covered)
  /\ job.pc \in {"idle", "done"}
  /\ job' = [NoJob EXCEPT !.pc = "run", !.existing = stored]
  /\ UNCHANGED <<osmVars, stored, fresh, run>>

(* A faulty Wanted: records without a position are taken too.              *)
WantedAnyway(k) == k \notin job.existing

(* _marshal_feature, and the test against existing.                        *)
Wanted(k) == k \in Located \ job.existing

(* The answers of the server with status 200: as many of the records from  *)
(* o on as it was asked for, or as it cares to give (its own record limit; *)
(* none at all in the body of an error), and exceededTransferLimit.        *)
RestOf(y, o) == SubSeq(Layer[y], o + 1, Len(Layer[y]))

Answers(y, o) ==
  {[features |-> SubSeq(RestOf(y, o), 1, n), exceeded |-> n < Len(RestOf(y, o))] :
     n \in {m \in 0..PageSize : m <= Len(RestOf(y, o))}}

(* The records still wanted that an answer which is no full page keeps     *)
(* from the job: none, if it is the end of the layer.  The code has no     *)
(* variable for them.                                                      *)
Withheld(y, o, answer) ==
  LET n == Len(answer.features)
      rest == RestOf(y, o)
  IN {k \in Crash :
        n < PageSize /\ Wanted(k) /\ \E i \in (n + 1)..Len(rest) : rest[i] = k}

(* A faulty NextRequest: the first page is taken for the last.             *)
NextLayer(y, o, answer) == <<y + 1, 0>>

(* _fetch_year: where the next request goes.  Anything but a full page     *)
(* that announces more is taken for the end of the layer.                  *)
NextRequest(y, o, answer) ==
  IF answer.exceeded /\ Len(answer.features) >= PageSize
  THEN <<y, o + Len(answer.features)>>
  ELSE <<y + 1, 0>>

FetchPage ==
  /\ job.pc = "run" /\ job.todo = <<>> /\ job.year <= Years
  /\ \E answer \in Answers(job.year, job.offset) :
       job' = [job EXCEPT !.todo = answer.features,
                 !.year = NextRequest(job.year, job.offset, answer)[1],
                 !.offset = NextRequest(job.year, job.offset, answer)[2],
                 !.withheld = @ \cup Withheld(job.year, job.offset, answer)]
  /\ UNCHANGED <<osmVars, stored, fresh, run>>

(* A record is skipped, or joins the batch; a full batch is committed.     *)
TakeRecord ==
  /\ job.pc = "run" /\ job.todo # <<>>
  /\ LET k == Head(job.todo)
         taken == IF Wanted(k) THEN {k} ELSE {}
         b == job.batch \cup taken
         full == Cardinality(b) >= BatchSize
     IN /\ stored' = IF full THEN stored \cup b ELSE stored
        /\ job' = [job EXCEPT !.todo = Tail(@), !.batch = IF full THEN {} ELSE b,
                              !.existing = @ \cup taken]
  /\ UNCHANGED <<osmVars, fresh, run>>

FlushRest ==
  /\ job.pc = "run" /\ job.todo = <<>> /\ job.year > Years
  /\ stored' = stored \cup job.batch
  /\ job' = [job EXCEPT !.pc = "bump", !.batch = {}]
  /\ UNCHANGED <<osmVars, fresh, run>>

(* max(incident_at) of the provider, or what was there.                    *)
MaxAt(S) == CHOOSE t \in {At[k] : k \in S} : \A k \in S : At[k] <= t
SpanEnd(S) == IF S = {} THEN None ELSE MaxAt(S)

Bump ==
  /\ job.pc = "bump"
  /\ fresh' = IF stored = {} THEN fresh ELSE MaxAt(stored)
  /\ job' = [NoJob EXCEPT !.pc = "done", !.withheld = job.withheld]
  /\ UNCHANGED <<osmVars, stored, run>>

(* An HTTP error, a database error or the death of the process.            *)
KillJob ==
  /\ job.pc \in {"run", "bump"}
  /\ job' = NoJob
  /\ UNCHANGED <<osmVars, stored, fresh, run>>

-----------------------------------------------------------------------------
(* scoring.cli cmd_run: what it reads, in the order it reads it.  Each is  *)
(* a statement of its own; the row of scoring_runs is committed before the *)
(* segments are read.                                                      *)
NoRun == [pc |-> "idle", date |-> None, window |-> None, topology |-> {},
          incidents |-> {}, segments |-> {}, edges |-> {}]

Present(c) == {w \in WaysIn(c) : roads[w] # 0}

Running(r, x) ==
  /\ run' = [run EXCEPT ![r] = x]
  /\ UNCHANGED <<osmVars, incidentVars>>

(* _resolve_osm_snapshot_date: a RuntimeError without the row.             *)
ResolveDate(r) ==
  /\ Known(CityOf[r])
  /\ run[r].pc = "idle" /\ osm # None
  /\ Running(r, [run[r] EXCEPT !.pc = "window", !.date = osm])

ResolveWindow(r) ==
  /\ run[r].pc = "window"
  /\ Running(r, [run[r] EXCEPT !.pc = "topology", !.window = SpanEnd(stored)])

LoadTopology(r) ==
  /\ run[r].pc = "topology"
  /\ Running(r, [run[r] EXCEPT !.pc = "incidents", !.topology = Present(CityOf[r])])

LoadIncidents(r) ==
  /\ run[r].pc = "incidents"
  /\ Running(r, [run[r] EXCEPT !.pc = "segments",
                   !.incidents = IF CityOf[r] = Covered THEN stored ELSE {}])

LoadSegments(r) ==
  /\ run[r].pc = "segments"
  /\ Running(r, [run[r] EXCEPT !.pc = "edges", !.segments = Present(CityOf[r])])

LoadAdjacency(r) ==
  /\ run[r].pc = "edges"
  /\ Running(r, [run[r] EXCEPT !.pc = "score", !.edges = Present(CityOf[r])])

(* A faulty Score: default values for a segment without topology.          *)
ScoreWithDefault(r) ==
  /\ run[r].pc = "score"
  /\ Running(r, [run[r] EXCEPT !.pc = "scored"])

(* _score_all comes before the first row; the topology loader raises a     *)
(* KeyError for a segment it does not know.                                *)
Score(r) ==
  /\ run[r].pc = "score"
  /\ Running(r, [run[r] EXCEPT !.pc =
       IF run[r].segments \subseteq run[r].topology THEN "scored" ELSE "failed"])

-----------------------------------------------------------------------------
Init ==
  /\ upstream = [c \in City |-> 1]
  /\ cache = [c \in City |-> None]
  /\ seed = [c \in City |-> NoSeed]
  /\ roads = [w \in Way |-> 0]
  /\ osm = None
  /\ cities = {}
  /\ job = NoJob
  /\ stored = {} /\ fresh = None
  /\ run = [r \in Run |-> NoRun]

Seed(c) ==
  \/ CacheHit(c) \/ StartDownload(c) \/ FinishDownload(c)
  \/ LockShare(c) \/ Parse(c) \/ Persist(c) \/ KillSeed(c)

IngestIncidents == StartJob \/ FetchPage \/ TakeRecord \/ FlushRest \/ Bump \/ KillJob

ScoringCli(r) ==
  \/ ResolveDate(r) \/ ResolveWindow(r) \/ LoadTopology(r) \/ LoadIncidents(r)
  \/ LoadSegments(r) \/ LoadAdjacency(r) \/ Score(r)

Next ==
  \/ \E S \in SUBSET City : SeedCities(S)
  \/ \E c \in City : Publish(c) \/ Seed(c)
  \/ IngestIncidents
  \/ \E r \in Run : ScoringCli(r)

Spec == Init /\ [][Next]_vars

-----------------------------------------------------------------------------
Stamp == UNION {[city : {c}, version : 1..LastVersion[c]] : c \in City}

SeedState ==
  [pc : {"idle", "download", "fetched", "locked", "parsed"},
   version : Nat, ways : SUBSET Way]

JobState ==
  [pc : {"idle", "run", "bump", "done"}, year : 1..(Years + 1), offset : Nat,
   todo : Seq(Crash), batch : SUBSET Located, existing : SUBSET Located,
   withheld : SUBSET Crash]

RunState ==
  [pc : {"idle", "window", "topology", "incidents", "segments", "edges",
         "score", "scored", "failed"},
   date : Stamp \cup {None}, window : Nat \cup {None}, topology : SUBSET Way,
   incidents : SUBSET Located, segments : SUBSET Way, edges : SUBSET Way]

TypeOK ==
  /\ upstream \in [City -> Nat] /\ \A c \in City : upstream[c] \in 1..LastVersion[c]
  /\ cache \in [City -> Nat \cup {None}]
  /\ seed \in [City -> SeedState]
  /\ roads \in [Way -> Nat]
  /\ osm \in Stamp \cup {None}
  /\ cities \subseteq City
  /\ job \in JobState
  /\ stored \subseteq Located
  /\ fresh \in Nat \cup {None}
  /\ run \in [Run -> RunState]

(* "... so the freshness endpoint never reports a successful ingestion     *)
(* whose data was not actually persisted" (persist.py): every way of the   *)
(* extract the 'osm' row names is in road_segments as of that extract,     *)
(* whatever downloads were cut off, processes killed, extracts published   *)
(* meanwhile and seeds of other cities aborted.                            *)
StampIsWhole ==
  osm # None => \A w \in Ways[osm.city][osm.version] : roads[w] = osm.version

(* The reads of a completed run fit together although the tables were      *)
(* written to between them: every segment it scored had its topology and   *)
(* was there when the edges were read; if the date it carries is that of   *)
(* its own city's extract, it scored all of that extract; and the          *)
(* incidents it used reach to the end of the window it reports.            *)
CompletedRunIsConsistent ==
  \A r \in Run : run[r].pc = "scored" =>
    /\ run[r].segments = run[r].topology
    /\ run[r].segments \subseteq run[r].edges
    /\ run[r].date.city = CityOf[r] =>
         Ways[CityOf[r]][run[r].date.version] \subseteq run[r].segments
    /\ CityOf[r] = Covered /\ run[r].window # None =>
         \E k \in run[r].incidents : At[k] >= run[r].window

(* A job succeeds with whatever the server gave: an error body with status *)
(* 200, or a page that is not full, ends a layer without an error.  But no *)
(* record is lost on this side: a crash with a position that is not in the *)
(* table after a job was kept from that very job, whatever earlier jobs    *)
(* left when they were given too little or were cut off between two        *)
(* batches or pages; and the freshness is the latest crash in the table.   *)
IncidentsAreComplete ==
  job.pc = "done" => Located \subseteq stored \cup job.withheld /\ fresh = SpanEnd(stored)
=============================================================================
