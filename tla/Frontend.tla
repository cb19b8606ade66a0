------------------------------- MODULE Frontend -------------------------------
(***************************************************************************)
(* The browser application: the Redux slices, the query cache, the effects *)
(* that tie them to the active city, and the MapLibre instance.            *)
(*                                                                         *)
(* A user event or an answer changes the store or the cache; a commit then *)
(* renders the new state and runs its effects, children before App.        *)
(* Effects may change the store again, which makes another commit due;     *)
(* React flushes the effects of these updates before the next event, so    *)
(* an event finds no commit due.                                           *)
(*                                                                         *)
(* A segment is represented by the city it is in, a run by its city and a  *)
(* number.  The query cache is exact for the tile source, whose absence    *)
(* takes the whole map away; of the other queries only those a mounted     *)
(* component observes are kept, and whether a newly observed one is still  *)
(* cached is left open.  Layout, colours and the active layer are not      *)
(* modelled.                                                               *)
(***************************************************************************)
EXTENDS Integers, FiniteSets

CONSTANTS
  City,       \* the slugs a URL may name
  Registered, \* those in GET /api/cities
  Default,    \* DEFAULT_CITY_SLUG
  Noon,       \* Noon[c]: utcHourOfLocalNoon of c's timezone
  FirstHour,  \* the hour the scrubber starts with
  UserHours,  \* the hours the user may set
  RunNumber,  \* the runs of each city
  None        \* null

ASSUME FrontendAssumption ==
  /\ Registered \subseteq City /\ Default \in City /\ None \notin City
  /\ Noon \in [City -> 0..23]
  /\ FirstHour \in 0..23 /\ UserHours \subseteq 0..23

VARIABLES
  slug,         \* activeCity.slug
  url,          \* ?city= in the address bar, None when it is missing
  previous,     \* the slug of the last commit (previousSlug), None at first
  applied,      \* lastAppliedSlug of useScrubberCityReset
  hour,         \* scrubber.hourOfDay
  cities,       \* useCities has data
  mode,         \* delta.mode
  methodology,  \* showMethodology
  selected,     \* selectedSegment.segmentId
  runs,         \* <<delta.runA, delta.runB>>
  dirty,        \* a commit is due
  building,     \* the cities whose tile source is being built
  tiles,        \* the cities whose tile source is cached
  loading,      \* the observed queries that are being fetched
  data,         \* the observed queries that have data
  map           \* the MapLibre instance

store == <<slug, url, hour, mode, methodology, selected, runs>>
vars == <<store, previous, applied, cities, dirty, building, tiles, loading, data, map>>

-----------------------------------------------------------------------------
RunOf(c) == {c} \X RunNumber
Run == City \X RunNumber

NoRuns == <<None, None>>

(* A faulty Hydrate: no fallback for a URL without a city.                 *)
HydrateRaw(u) == u

(* hydrateActiveCityFromUrl.                                               *)
Hydrate(u) == IF u = None THEN Default ELSE u

(* DeltaView and MapView return a placeholder while the tile source of the *)
(* active city is not there.                                               *)
MapShown == ~methodology /\ slug \in tiles

(* Query keys, and those the mounted components observe: the panel in both *)
(* views, the run picker, list and histogram in the delta view.            *)
DetailKey(c, s) == <<"segmentDetail", c, s>>
RunsKey(c) == <<"runs", c, None>>
DeltaKey(c, ab) == <<"delta", c, ab>>

PairPicked == runs[1] # None /\ runs[2] # None /\ runs[1] # runs[2]

Observed ==
  IF ~MapShown THEN {}
  ELSE (IF selected = None THEN {} ELSE {DetailKey(slug, selected)})
       \cup (IF mode = "delta" THEN {RunsKey(slug)} ELSE {})
       \cup (IF mode = "delta" /\ PairPicked THEN {DeltaKey(slug, runs)} ELSE {})

Key ==
  {DetailKey(c, s) : c \in City, s \in City} \cup {RunsKey(c) : c \in City}
    \cup {DeltaKey(c, ab) : c \in City, ab \in Run \X Run}

(* What the API knows: a segment or a run of another city is a 404.        *)
Answerable(k) ==
  \/ \E c \in Registered : k \in {DetailKey(c, c), RunsKey(c)}
  \/ \E c \in Registered : \E ab \in RunOf(c) \X RunOf(c) : k = DeltaKey(c, ab)

-----------------------------------------------------------------------------
(* The effects of a commit.                                                *)

(* The map: mount-once instance, torn down with its view; the effect that  *)
(* swaps the tile source.  MapLibre fires "load" once, when everything     *)
(* first requested has arrived; loaded() is also false later while tiles   *)
(* are on their way.  pending is the last of the swaps that wait for the   *)
(* load event, which run in the order they were asked for.                 *)
NoMap == [view |-> None, shown |-> None, wanted |-> None, pending |-> None,
          loadFired |-> FALSE, busy |-> FALSE]

NewMap == [view |-> mode, shown |-> slug, wanted |-> slug, pending |-> None,
           loadFired |-> FALSE, busy |-> TRUE]

SwapSource ==
  IF map.loadFired /\ ~map.busy
  THEN [map EXCEPT !.wanted = slug, !.shown = slug, !.busy = TRUE]
  ELSE IF map.loadFired
       THEN [map EXCEPT !.wanted = slug]
       ELSE [map EXCEPT !.wanted = slug, !.pending = slug]

MapEffect ==
  map' = IF ~MapShown THEN NoMap
         ELSE IF map.view # mode THEN NewMap
         ELSE IF map.wanted # slug THEN SwapSource
         ELSE map

(* Each observer fetches a key it did not observe before, unless the cache *)
(* still has it (as long as the answer may exist at all).                  *)
Observe ==
  \E hit \in SUBSET {k \in Observed \ (loading \cup data) : Answerable(k)} :
    /\ data' = (data \cap Observed) \cup hit
    /\ loading' = Observed \ data'

(* A faulty QueryEffect: only the first city gets a tile source.           *)
FetchOnceEffect ==
  /\ Observe
  /\ building' = IF previous = None THEN building \cup {slug} ELSE building

QueryEffect ==
  /\ Observe
  /\ building' = IF methodology \/ slug \in tiles THEN building ELSE building \cup {slug}

(* Faulty effects, each a slip this code could have: nothing uses them,    *)
(* they show which slip each property rules out.                           *)
WriteOnceEffect == url' = IF previous = None THEN slug ELSE url
LateResetEffect ==
  IF cities /\ slug \in Registered /\ applied = None
  THEN applied' = slug /\ hour' = Noon[slug]
  ELSE UNCHANGED <<applied, hour>>
ClearSegmentOnlyEffect ==
  /\ runs' = runs
  /\ selected' = IF previous \notin {None, slug} THEN None ELSE selected

(* useActiveCityUrlSync.  On mount the URL is read; the writer of the same *)
(* commit still has the slug from before.                                  *)
HydrateEffect == slug' = IF previous = None THEN Hydrate(url) ELSE slug
UrlEffect == url' = IF previous # slug THEN slug ELSE url

(* useScrubberCityReset.                                                   *)
ScrubberEffect ==
  IF cities /\ slug \in Registered /\ applied # slug
  THEN applied' = slug /\ hour' = Noon[slug]
  ELSE UNCHANGED <<applied, hour>>

(* useClearSelectionOnCitySwitch.                                          *)
ClearEffect ==
  IF previous \notin {None, slug}
  THEN selected' = None /\ runs' = NoRuns
  ELSE UNCHANGED <<selected, runs>>

Commit ==
  /\ dirty
  /\ MapEffect
  /\ QueryEffect
  /\ HydrateEffect
  /\ UrlEffect
  /\ ScrubberEffect
  /\ ClearEffect
  /\ previous' = slug
  /\ dirty' = (<<slug, hour, selected, runs>>' # <<slug, hour, selected, runs>>)
  /\ UNCHANGED <<cities, mode, methodology, tiles>>

-----------------------------------------------------------------------------
(* Events of the user.                                                     *)
Machinery == <<previous, applied, cities, building, tiles, loading, data, map>>

Dispatch ==
  /\ ~dirty
  /\ dirty' = TRUE
  /\ UNCHANGED Machinery

(* CitySelector, once the cities have loaded.                              *)
SelectCity(c) ==
  /\ cities /\ c \in Registered \ {slug}
  /\ slug' = c
  /\ Dispatch
  /\ UNCHANGED <<url, hour, mode, methodology, selected, runs>>

(* The browser's back and forward buttons.                                 *)
PopState(u) ==
  /\ u # url
  /\ url' = u
  /\ slug' = Hydrate(u)
  /\ Dispatch
  /\ UNCHANGED <<hour, mode, methodology, selected, runs>>

(* Scrubber: part of the map view.                                         *)
Scrub(h) ==
  /\ MapShown /\ mode = "single" /\ h # hour
  /\ hour' = h
  /\ Dispatch
  /\ UNCHANGED <<slug, url, mode, methodology, selected, runs>>

(* ModeToggle; leaving the delta mode clears its runs.                     *)
EnterDeltaMode ==
  /\ mode = "single"
  /\ mode' = "delta"
  /\ Dispatch
  /\ UNCHANGED <<slug, url, hour, methodology, selected, runs>>

ExitDeltaMode ==
  /\ mode = "delta"
  /\ mode' = "single"
  /\ runs' = NoRuns
  /\ Dispatch
  /\ UNCHANGED <<slug, url, hour, methodology, selected>>

ToggleMethodology ==
  /\ methodology' = ~methodology
  /\ Dispatch
  /\ UNCHANGED <<slug, url, hour, mode, selected, runs>>

(* A click on a rendered segment, and on a row of LargestChangesList.      *)
OpenSegment(s) ==
  /\ s # selected
  /\ selected' = s
  /\ Dispatch
  /\ UNCHANGED <<slug, url, hour, mode, methodology, runs>>

ClickMap == map # NoMap /\ map.loadFired /\ OpenSegment(map.shown)

ClickList(c) == mode = "delta" /\ DeltaKey(c, runs) \in data /\ OpenSegment(c)

(* RunPicker offers the runs of its list, or none.                         *)
PickRun(i, r) ==
  /\ mode = "delta" /\ MapShown
  /\ r = None \/ \E c \in City : RunsKey(c) \in data /\ r \in RunOf(c)
  /\ r # runs[i]
  /\ runs' = [runs EXCEPT ![i] = r]
  /\ Dispatch
  /\ UNCHANGED <<slug, url, hour, mode, methodology, selected>>

SwapRuns ==
  /\ mode = "delta" /\ MapShown
  /\ runs[1] # runs[2]
  /\ runs' = <<runs[2], runs[1]>>
  /\ Dispatch
  /\ UNCHANGED <<slug, url, hour, mode, methodology, selected>>

User ==
  \/ \E c \in City : SelectCity(c) \/ ClickList(c)
  \/ \E u \in City \cup {None} : PopState(u)
  \/ \E h \in UserHours : Scrub(h)
  \/ EnterDeltaMode \/ ExitDeltaMode \/ ToggleMethodology \/ ClickMap \/ SwapRuns
  \/ \E i \in {1, 2} : \E r \in Run \cup {None} : PickRun(i, r)

-----------------------------------------------------------------------------
(* Answers and events of the map.                                          *)
CitiesLoaded ==
  /\ ~dirty /\ ~cities
  /\ cities' = TRUE
  /\ dirty' = TRUE
  /\ UNCHANGED <<store, previous, applied, building, tiles, loading, data, map>>

(* useTileSourceConfig: the promise that builds the URL resolves.          *)
TileSourceReady(c) ==
  /\ ~dirty /\ c \in building
  /\ building' = building \ {c}
  /\ tiles' = tiles \cup {c}
  /\ dirty' = (c = slug)
  /\ UNCHANGED <<store, previous, applied, cities, loading, data, map>>

(* A cached tile source that nobody observes is dropped after gcTime.      *)
CollectTileSource(c) ==
  /\ ~dirty /\ c \in tiles /\ (methodology \/ c # slug)
  /\ tiles' = tiles \ {c}
  /\ UNCHANGED <<store, previous, applied, cities, dirty, building, loading, data, map>>

(* An answer, or an error after the one retry.                             *)
Answer(k) ==
  /\ ~dirty /\ k \in loading
  /\ loading' = loading \ {k}
  /\ \/ Answerable(k) /\ data' = data \cup {k}
     \/ UNCHANGED data
  /\ UNCHANGED <<store, previous, applied, cities, dirty, building, tiles, map>>

(* The load event, with the swaps that waited for it.                      *)
MapLoad ==
  /\ ~dirty /\ map # NoMap /\ ~map.loadFired
  /\ map' = IF map.pending = None
            THEN [map EXCEPT !.loadFired = TRUE, !.busy = FALSE]
            ELSE [map EXCEPT !.loadFired = TRUE, !.shown = map.pending, !.pending = None]
  /\ UNCHANGED <<store, previous, applied, cities, dirty, building, tiles, loading, data>>

(* The user moves the map and tiles are requested; the tiles arrive.       *)
MapMove ==
  /\ ~dirty /\ map.loadFired /\ ~map.busy
  /\ map' = [map EXCEPT !.busy = TRUE]
  /\ UNCHANGED <<store, previous, applied, cities, dirty, building, tiles, loading, data>>

MapIdle ==
  /\ ~dirty /\ map.loadFired /\ map.busy
  /\ map' = [map EXCEPT !.busy = FALSE]
  /\ UNCHANGED <<store, previous, applied, cities, dirty, building, tiles, loading, data>>

-----------------------------------------------------------------------------
Init ==
  /\ slug = Default
  /\ url \in City \cup {None}
  /\ previous = None /\ applied = None
  /\ hour = FirstHour
  /\ cities = FALSE
  /\ mode = "single" /\ methodology = FALSE
  /\ selected = None /\ runs = NoRuns
  /\ dirty = TRUE
  /\ building = {} /\ tiles = {} /\ loading = {} /\ data = {}
  /\ map = NoMap

Next ==
  \/ Commit
  \/ User
  \/ CitiesLoaded
  \/ \E c \in City : TileSourceReady(c) \/ CollectTileSource(c)
  \/ \E k \in Key : Answer(k)
  \/ MapLoad \/ MapMove \/ MapIdle

Spec == Init /\ [][Next]_vars

(* React commits what is due, and a promise that needs no network is       *)
(* resolved by the event loop between other events, however many there are. *)
FairSpec ==
  /\ Spec
  /\ WF_vars(Commit)
  /\ \A c \in City : SF_vars(TileSourceReady(c))

-----------------------------------------------------------------------------
Maps == [view : {"single", "delta", None}, shown : City \cup {None},
         wanted : City \cup {None}, pending : City \cup {None},
         loadFired : BOOLEAN, busy : BOOLEAN]

TypeOK ==
  /\ slug \in City
  /\ url \in City \cup {None}
  /\ previous \in City \cup {None} /\ applied \in Registered \cup {None}
  /\ hour \in 0..23
  /\ cities \in BOOLEAN /\ dirty \in BOOLEAN /\ methodology \in BOOLEAN
  /\ mode \in {"single", "delta"}
  /\ selected \in City \cup {None}
  /\ runs \in (Run \cup {None}) \X (Run \cup {None})
  /\ building \subseteq City /\ tiles \subseteq City
  /\ loading \subseteq Key /\ data \subseteq Key
  /\ map \in Maps

Settled == ~dirty /\ previous # None

(* Between events the address bar names the active city, whichever of the  *)
(* selector, the URL of the first visit and the browser's history spoke    *)
(* last, although the writer runs in the very commit whose hydration it    *)
(* overwrites.                                                             *)
UrlNamesCity == Settled => Hydrate(url) = slug

(* Between events the scrubber stands at the noon of the active city or at *)
(* an hour the user chose, never at another city's noon, in whatever order *)
(* the cities load, the user scrubs and the city changes.                  *)
NeverForeignNoon ==
  Settled /\ cities /\ slug \in Registered => hour \in {Noon[slug]} \cup UserHours

(* A selection of another city never survives a switch: when a commit      *)
(* settles, segment and runs are of the active city unless a foreign one   *)
(* was there without a switch; and apart from a switch the one step that   *)
(* selects a foreign segment is a click on a map that still shows another  *)
(* city: no run list, run picker or list of changes offers one, however    *)
(* late its answer arrives.                                                *)
Foreign ==
  \/ selected \notin {None, slug}
  \/ \E i \in {1, 2} : runs[i] \notin RunOf(slug) \cup {None}

SelectionFollowsCity ==
  [][/\ (Settled /\ Foreign)' => Foreign /\ slug = previous
     /\ Foreign' => Foreign \/ slug' # slug \/ map.shown # slug]_vars

(* "Loading tile source" goes away: unless the user moves on to another    *)
(* city or to the methodology, the map of the active city comes (back) up, *)
(* however often the user has switched and the cache has dropped a source. *)
MapComesUp ==
  \A c \in City :
    slug = c /\ ~methodology ~> map # NoMap \/ slug # c \/ methodology

(* "... or its road_segments_stub layer continues to render the previous   *)
(* city's tiles" (Map.tsx): once all is idle the map shows the active      *)
(* city.                                                                   *)
MapFollowsCity ==
  Settled /\ map.loadFired /\ ~map.busy => map.shown = slug
=============================================================================
