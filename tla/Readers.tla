------------------------------- MODULE Readers -------------------------------
(***************************************************************************)
(* What the HTTP API and the tile functions read while scoring runs write. *)
(*                                                                         *)
(* The writers are the runs of HourlyLedger, which Phase 4 runs implement: *)
(* a run reads the segments its city has at that moment and scores them    *)
(* hour by hour; a commit shows any number of rows, of one hour or of      *)
(* several.  OSM ingestion upserts the ways of one city at a time; a way   *)
(* that two configured cities share moves to the city ingested last, its   *)
(* scores stay where they are.                                             *)
(*                                                                         *)
(* GET /runs/{a}/delta/{b} is four statements of one connection in READ    *)
(* COMMITTED: each sees what is committed when it starts.  It answers with *)
(* the total and with the one page it was asked for, and the client keeps  *)
(* the answer.  useDelta is such a client: it asks once, for the first     *)
(* page, and with a staleTime of Infinity not again as long as the answer  *)
(* is in its cache, whatever the total says of further pages.              *)
(*                                                                         *)
(* The detail route, the list route and the tile functions are one         *)
(* statement each, so they are operators on the tables.  Time is counted   *)
(* in quarters of an hour.  Among rows of one segment and time the tile    *)
(* prefers the latest inserted_at and the detail route leaves the choice   *)
(* open; the operators return all of them.  A request without t, which     *)
(* takes the row inserted last, is not modelled.                           *)
(***************************************************************************)
EXTENDS ScoreLedger, Integers, FiniteSets

CONSTANTS
  City,        \* the cities that are seeded
  CityOf,      \* CityOf[r]: the city run r was started for
  DayOf,       \* DayOf[r]: its reference day, counted from 0
  Segment,     \* road_segments.id, in the order ORDER BY gives them
  WaysOf,      \* WaysOf[c]: the ways inside the box of city c
  Hours,       \* the temporal samples of a run: hours 0 .. Hours - 1
  TargetHour,  \* _DEFAULT_HOUR
  PageSize,    \* page_size
  Pages,       \* the pages that clients ask for; useDelta asks for page 1
  Client,      \* clients of the delta route
  NoCity,      \* the city of a segment that was never ingested
  NoRun        \* the runs of a client that has not asked yet

ASSUME ReadersAssumption ==
  /\ CityOf \in [Run -> City]
  /\ DayOf \in [Run -> Nat]
  /\ Segment \subseteq Nat /\ IsFiniteSet(Segment)
  /\ WaysOf \in [City -> SUBSET Segment]
  /\ Hours \in Nat /\ TargetHour \in 0..(Hours - 1)
  /\ PageSize \in Nat \ {0} /\ Pages \subseteq Nat \ {0}
  /\ NoCity \notin City /\ NoRun \notin Run

VARIABLES
  roads,   \* roads[s]: road_segments.city_id, NoCity before s is ingested
  started, \* the runs that have read their segments
  loaded,  \* loaded[r]: the segments r has read
  req      \* req[q]: the delta that client q asks for

vars == <<recorded, ledger, closed, roads, started, loaded, req>>

-----------------------------------------------------------------------------
(* A faulty Sampled: an inclusive range.                                   *)
SampledInclusive == 0..Hours

(* The writers.  default_24_hourly_samples:                                *)
Sampled == 0..(Hours - 1)

Hourly == INSTANCE HourlyLedger WITH Streaming <- {}

Row(r, s, h) == [run |-> r, cell |-> <<s, h>>]

ScoredAt(r, h) == {s \in Segment : Row(r, s, h) \in ledger}

IngestCity(c, S) ==
  /\ roads' = [s \in Segment |-> IF s \in S THEN c ELSE roads[s]]
  /\ UNCHANGED <<lvars, started, loaded, req>>

RecordRun(r) == Record(r) /\ UNCHANGED <<roads, started, loaded, req>>

LoadSegments(r) ==
  /\ r \in recorded \ (closed \cup started)
  /\ started' = started \cup {r}
  /\ loaded' = [loaded EXCEPT ![r] = {s \in Segment : roads[s] = CityOf[r]}]
  /\ UNCHANGED <<lvars, roads, req>>

Unscored(r) == {k \in loaded[r] \X Sampled : Row(r, k[1], k[2]) \notin ledger}

(* A flush of the cells in S.                                              *)
CommitScores(r, S) ==
  /\ ledger' = ledger \cup {Row(r, k[1], k[2]) : k \in S}
  /\ Hourly!Commit(r)
  /\ UNCHANGED <<roads, started, req>>

EndRun(r) == Close(r) /\ UNCHANGED <<roads, started, loaded, req>>

-----------------------------------------------------------------------------
(* What the statements of the API return.                                  *)
ListRuns(c) == {r \in recorded : CityOf[r] = c}

(* RUNS_EXIST_SQL, for both runs; _SELECT_RUN_METADATA_SQL repeats the     *)
(* condition.                                                              *)
RunsExist(c, a, b) == {a, b} \subseteq ListRuns(c)

(* A faulty PairAtHour: by the city the segments are in now.               *)
PairInCityNow(c, a, b) ==
  {s \in ScoredAt(a, TargetHour) \cap ScoredAt(b, TargetHour) : roads[s] = c}

(* PAIR_COUNT_AT_HOUR_SQL and FETCH_PAIR_AT_HOUR_SQL: the segments that    *)
(* both runs scored, by the city the scores were written for.              *)
PairAtHour(c, a, b) ==
  IF RunsExist(c, a, b) THEN ScoredAt(a, TargetHour) \cap ScoredAt(b, TargetHour) ELSE {}

(* list_run_scores: of each segment the row with the latest timestamp; a   *)
(* 404 unless get_run finds the run.                                       *)
RunFound(c, r) == r \in ListRuns(c)
LatestRows(r) ==
  {x \in ledger : x.run = r /\ ~\E y \in ledger :
     y.run = r /\ y.cell[1] = x.cell[1] /\ y.cell[2] > x.cell[2]}
RunScores(c, r) == IF RunFound(c, r) THEN LatestRows(r) ELSE {}

(* ORDER BY segment_id LIMIT page_size OFFSET (page - 1) * page_size.      *)
Rank(S, s) == Cardinality({u \in S : u <= s})

(* A faulty PageOf: OFFSET page * page_size.                               *)
PageShifted(c, a, b, p) ==
  LET S == PairAtHour(c, a, b)
  IN {s \in S : p * PageSize < Rank(S, s) /\ Rank(S, s) <= (p + 1) * PageSize}

PageOf(c, a, b, p) ==
  LET S == PairAtHour(c, a, b)
  IN {s \in S : (p - 1) * PageSize < Rank(S, s) /\ Rank(S, s) <= p * PageSize}

(* segment_scores of one segment, and the timestamp of a row.              *)
ScoresOf(s) == {x \in ledger : x.cell[1] = s}
Time(x) == 4 * (Hours * DayOf[x.run] + x.cell[2])

Instants == 0..(4 * Hours * Cardinality({DayOf[r] : r \in Run}))

Distance(x, t) == IF Time(x) < t THEN t - Time(x) ELSE Time(x) - t

(* _SELECT_SNAPPED_SCORE_SQL: the rows nearest to t.                       *)
Nearest(s, t) ==
  {x \in ScoresOf(s) : \A y \in ScoresOf(s) : Distance(x, t) <= Distance(y, t)}

(* get_segment: a segment of another city is a 404; one without a row is   *)
(* shown with stub_risk.                                                   *)
DetailFound(c, s) == roads[s] = c
DetailRows(c, s, t) == IF DetailFound(c, s) THEN Nearest(s, t) ELSE {}

(* list_segments, and those it fills in with stub_risk.                    *)
Listed(c) == {s \in Segment : roads[s] = c}
ListedAsStub(c) == {s \in Listed(c) : ScoresOf(s) = {}}

(* A faulty Snapped: the hour is cut off instead of rounded.               *)
Truncated(t) == 4 * (t \div 4)

(* road_segments_tile_t_rows: t is rounded to the hour, 30 minutes up.     *)
Snapped(t) == IF t % 4 >= 2 THEN 4 * (t \div 4) + 4 ELSE 4 * (t \div 4)

TileRows(c, s, t) ==
  IF roads[s] = c THEN {x \in ScoresOf(s) : Time(x) = Snapped(t)} ELSE {}

(* road_segments_tile_delta_rows: by the city the segments are in now.     *)
DeltaTile(c, a, b) ==
  {s \in ScoredAt(a, TargetHour) \cap ScoredAt(b, TargetHour) : roads[s] = c}

-----------------------------------------------------------------------------
(* The delta route.  A request is a record; got is the page that the       *)
(* client was given, and final tells whether both runs had ended when it   *)
(* asked.                                                                  *)
Label == {"idle", "runs", "metadata", "count", "page", "answered", "not_found", "error"}

Idle ==
  [pc |-> "idle", city |-> NoCity, a |-> NoRun, b |-> NoRun, page |-> 1,
   total |-> 0, got |-> {}, final |-> FALSE]

Tables == <<recorded, ledger, closed, roads, started, loaded>>

(* A faulty CheckRuns: a run of another city passes for existing.          *)
CheckAnyCity(q) ==
  /\ req[q].pc = "runs"
  /\ req' = [req EXCEPT ![q].pc =
       IF {req[q].a, req[q].b} \subseteq recorded THEN "metadata" ELSE "not_found"]
  /\ UNCHANGED Tables

-----------------------------------------------------------------------------
(* A client asks for a page of two different runs (equal ones are refused  *)
(* with a 422 before anything is read, and useDelta does not ask for       *)
(* them).                                                                  *)
Ask(q, c, a, b, p) ==
  /\ req[q].pc = "idle"
  /\ a # b
  /\ req' = [req EXCEPT ![q] =
       [Idle EXCEPT !.pc = "runs", !.city = c, !.a = a, !.b = b, !.page = p,
                    !.final = {a, b} \subseteq closed]]
  /\ UNCHANGED Tables

(* runs_exist, and the 404.                                                *)
CheckRuns(q) ==
  /\ req[q].pc = "runs"
  /\ req' = [req EXCEPT ![q].pc =
       IF RunsExist(req[q].city, req[q].a, req[q].b) THEN "metadata" ELSE "not_found"]
  /\ UNCHANGED Tables

(* _fetch_run_metadata for both runs: a RuntimeError when one is missing.  *)
FetchMetadata(q) ==
  /\ req[q].pc = "metadata"
  /\ req' = [req EXCEPT ![q].pc =
       IF {req[q].a, req[q].b} \subseteq ListRuns(req[q].city) THEN "count" ELSE "error"]
  /\ UNCHANGED Tables

(* count_pair_at_hour.                                                     *)
CountPairs(q) ==
  /\ req[q].pc = "count"
  /\ req' = [req EXCEPT ![q].pc = "page",
       ![q].total = Cardinality(PairAtHour(req[q].city, req[q].a, req[q].b))]
  /\ UNCHANGED Tables

(* fetch_pair_at_hour and the response, which the client keeps.            *)
FetchPage(q) ==
  /\ req[q].pc = "page"
  /\ req' = [req EXCEPT ![q].pc = "answered",
       ![q].got = PageOf(req[q].city, req[q].a, req[q].b, req[q].page)]
  /\ UNCHANGED Tables

-----------------------------------------------------------------------------
Init ==
  /\ LedgerInit
  /\ roads = [s \in Segment |-> NoCity]
  /\ started = {}
  /\ loaded = [r \in Run |-> {}]
  /\ req = [q \in Client |-> Idle]

Write(r) ==
  \/ RecordRun(r) \/ LoadSegments(r) \/ EndRun(r)
  \/ \E S \in SUBSET Unscored(r) : CommitScores(r, S)

Serve(q) == CheckRuns(q) \/ FetchMetadata(q) \/ CountPairs(q) \/ FetchPage(q)

Next ==
  \/ \E c \in City : \E S \in SUBSET WaysOf[c] : IngestCity(c, S)
  \/ \E r \in Run : Write(r)
  \/ \E q \in Client : \E c \in City : \E a, b \in Run : \E p \in Pages : Ask(q, c, a, b, p)
  \/ \E q \in Client : Serve(q)

Spec == Init /\ [][Next]_vars

-----------------------------------------------------------------------------
(* The writers here are the hour-by-hour ledger, whatever ingestion and    *)
(* the clients do meanwhile.                                               *)
HourlySpec == Hourly!HourlySpec

Request ==
  [pc : Label, city : City \cup {NoCity}, a : Run \cup {NoRun}, b : Run \cup {NoRun},
   page : Nat, total : Nat, got : SUBSET Segment, final : BOOLEAN]

ScoreRow == [run : Run, cell : Segment \X (0..(Hours - 1))]

TypeOK ==
  /\ recorded \subseteq Run
  /\ ledger \subseteq ScoreRow
  /\ closed \subseteq Run
  /\ roads \in [Segment -> City \cup {NoCity}]
  /\ started \subseteq Run
  /\ loaded \in [Run -> SUBSET Segment]
  /\ req \in [Client -> Request]

(* A run that runs_exist has seen is there for _fetch_run_metadata: the    *)
(* RuntimeError "disappeared between runs_exist and fetch" is not reached, *)
(* whatever the writers do between the two statements.                     *)
NeverDisappears == \A q \in Client : req[q].pc # "error"

(* The total is never ahead of the rows: a page that is not full is the    *)
(* end of what total announced, also while the runs are still writing, so  *)
(* a client that pages until it has total rows would never be left waiting *)
(* for rows that do not come.  It rests on count_pair_at_hour running      *)
(* before fetch_pair_at_hour and on rows that are never removed.           *)
ShortPageIsLast ==
  \A q \in Client :
    req[q].pc = "answered" /\ Cardinality(req[q].got) < PageSize =>
      req[q].total <= (req[q].page - 1) * PageSize + Cardinality(req[q].got)

(* "the answer never changes once both rows exist" (useDelta.ts), as far   *)
(* as it is so.  Whatever is written or ingested after an answer was kept, *)
(* none of its rows ever stops to be one, though a way may have moved to   *)
(* another city.  Only of two runs that had ended when it was asked for is *)
(* the answer what the same request would return for ever, total included; *)
(* and a first page, all that useDelta asks for, is then the whole delta   *)
(* if and only if the total fits on it.                                    *)
KeptDeltaStaysRight ==
  \A q \in Client :
    req[q].pc = "answered" =>
      LET x == req[q]
          pair == PairAtHour(x.city, x.a, x.b)
      IN /\ x.got \subseteq pair /\ x.total <= Cardinality(pair)
         /\ x.final =>
              /\ x.got = PageOf(x.city, x.a, x.b, x.page)
              /\ x.total = Cardinality(pair)
              /\ x.page = 1 => (x.got = pair <=> x.total <= PageSize)

(* What the map shows is what the API says of it.  For every instant, the  *)
(* row a tile paints a segment with is one the detail panel may show for   *)
(* that instant; a segment is listed with stub values only if no tile ever *)
(* paints it; the delta tile of two runs of a city paints the segments of  *)
(* the delta list except those that have moved to another city; and the    *)
(* score list of a run, which takes the latest hour of each segment, never *)
(* mixes hours that are more than one apart, also while the run writes.    *)
MapAgreesWithApi ==
  /\ \A c \in City, s \in Segment, t \in Instants :
       TileRows(c, s, t) # {} =>
         /\ DetailFound(c, s)
         /\ TileRows(c, s, t) \subseteq DetailRows(c, s, t)
         /\ s \notin ListedAsStub(c)
  /\ \A c \in City : \A a, b \in ListRuns(c) :
       DeltaTile(c, a, b) = {s \in PairAtHour(c, a, b) : DetailFound(c, s)}
  /\ \A c \in City, r \in Run : \A x, y \in RunScores(c, r) :
       x.cell[2] <= y.cell[2] + 1
=============================================================================
