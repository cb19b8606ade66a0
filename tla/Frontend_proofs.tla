---------------------------- MODULE Frontend_proofs ----------------------------
(***************************************************************************)
(* The URL, the scrubber and the selection follow the active city, for     *)
(* every set of cities, runs and hours and every URL.                      *)
(*                                                                         *)
(* UrlInv: the writer of the URL is behind by one commit only while a      *)
(* commit is due.  HourInv ties the hour to the city it was last reset     *)
(* for, which need not be the active one.  FirstInv: nothing is selected   *)
(* before the first commit.  QueryInv: between events only what the        *)
(* mounted components observe is in flight or kept, so every list on the   *)
(* screen is one of the active city.                                       *)
(***************************************************************************)
EXTENDS Frontend, TLAPS

UrlInv ==
  /\ ~dirty => previous = slug
  /\ previous = slug => Hydrate(url) = slug

HourInv ==
  /\ applied # None => hour \in {Noon[applied]} \cup UserHours
  /\ ~dirty /\ cities /\ slug \in Registered => applied = slug

FirstInv == previous = None => dirty /\ selected = None /\ runs = NoRuns

QueryInv == ~dirty => loading \cup data \subseteq Observed

FrontendInv == TypeOK /\ UrlInv /\ HourInv /\ FirstInv /\ QueryInv

-----------------------------------------------------------------------------
(* What is observed has a key.                                             *)
LEMMA ObservedKeys ==
  ASSUME TypeOK
  PROVE  Observed \subseteq Key
<1>1. slug \in City /\ (selected # None => selected \in City)
  BY DEF TypeOK
<1>2. PairPicked => runs \in Run \X Run
  <2>1. runs = <<runs[1], runs[2]>> /\ runs[1] \in Run \cup {None} /\ runs[2] \in Run \cup {None}
    BY DEF TypeOK
  <2> QED
    BY <2>1 DEF PairPicked
<1>3. selected # None => DetailKey(slug, selected) \in Key
  BY <1>1 DEF Key
<1>4. RunsKey(slug) \in Key
  BY <1>1 DEF Key
<1>5. PairPicked => DeltaKey(slug, runs) \in Key
  BY <1>1, <1>2 DEF Key
<1> QED
  BY <1>3, <1>4, <1>5 DEF Observed

(* A list that is there is one of the active city.                         *)
LEMMA ObservedRuns ==
  ASSUME NEW c \in City
  PROVE  /\ RunsKey(c) \in Observed => c = slug
         /\ \A ab : DeltaKey(c, ab) \in Observed => c = slug
<1>1. \A x, y : x \in {y} <=> x = y
  OBVIOUS
<1> QED
  BY <1>1 DEF Observed, DetailKey, RunsKey, DeltaKey

LEMMA FrontendInit == Init => FrontendInv
<1> SUFFICES ASSUME Init PROVE FrontendInv
  OBVIOUS
<1>1. NoRuns \in (Run \cup {None}) \X (Run \cup {None})
  BY DEF NoRuns
<1>2. NoMap \in Maps
  BY DEF NoMap, Maps
<1>3. TypeOK
  BY <1>1, <1>2, FrontendAssumption DEF Init, TypeOK
<1> QED
  BY <1>3, FrontendAssumption DEF Init, FrontendInv, UrlInv, HourInv, FirstInv, QueryInv

(* The parts of a commit.                                                  *)
LEMMA CommitFacts ==
  ASSUME FrontendInv, Commit
  PROVE  /\ slug' = (IF previous = None THEN Hydrate(url) ELSE slug)
         /\ url' = (IF previous # slug THEN slug ELSE url)
         /\ slug' \in City /\ url' \in City \cup {None} /\ previous' = slug
         /\ loading' \cup data' \subseteq Observed
         /\ UNCHANGED <<cities, mode, methodology, tiles>>
         /\ ~dirty' => UNCHANGED <<slug, hour, selected, runs>>
         /\ dirty' \in BOOLEAN
         /\ selected' \in City \cup {None}
         /\ runs' \in (Run \cup {None}) \X (Run \cup {None})
<1>1. TypeOK
  BY DEF FrontendInv
<1>2. loading' \cup data' \subseteq Observed
  BY DEF Commit, QueryEffect, Observe
<1>3. slug' \in City /\ url' \in City \cup {None}
  BY <1>1, FrontendAssumption DEF Commit, HydrateEffect, UrlEffect, Hydrate, TypeOK
<1>4. dirty' = (<<slug, hour, selected, runs>>' # <<slug, hour, selected, runs>>)
  BY DEF Commit
<1>5. selected' \in City \cup {None} /\ runs' \in (Run \cup {None}) \X (Run \cup {None})
  BY <1>1 DEF Commit, ClearEffect, TypeOK, NoRuns
<1> QED
  BY <1>2, <1>3, <1>4, <1>5 DEF Commit, HydrateEffect, UrlEffect

LEMMA CommitKeeps ==
  ASSUME FrontendInv, Commit
  PROVE  FrontendInv'
<1>1. TypeOK /\ UrlInv /\ HourInv /\ FirstInv /\ slug # None /\ dirty
  BY FrontendAssumption DEF FrontendInv, TypeOK, Commit
<1>2. map' \in Maps
  <2>1. map \in Maps /\ slug \in City /\ mode \in {"single", "delta"}
    BY <1>1 DEF TypeOK
  <2>2. NoMap \in Maps /\ NewMap \in Maps /\ SwapSource \in Maps
    BY <2>1 DEF NoMap, NewMap, SwapSource, Maps
  <2> QED
    BY <2>1, <2>2 DEF Commit, MapEffect
<1>3. /\ hour' \in 0..23 /\ applied' \in Registered \cup {None}
      /\ applied' # None => hour' \in {Noon[applied']} \cup UserHours
      /\ cities /\ slug \in Registered => applied' = slug
      /\ ~cities => applied' = applied
  BY <1>1, FrontendAssumption DEF Commit, ScrubberEffect, TypeOK, HourInv
<1>4. loading' \subseteq Key /\ data' \subseteq Key /\ building' \subseteq City
  <2>1. loading' \subseteq Key /\ data' \subseteq Key
    BY <1>1, CommitFacts, ObservedKeys
  <2>2. building' \subseteq City
    BY <1>1 DEF Commit, QueryEffect, TypeOK
  <2> QED
    BY <2>1, <2>2
<1>5. TypeOK'
  BY <1>1, <1>2, <1>3, <1>4, CommitFacts DEF TypeOK
<1>6. UrlInv'
  <2>1. ~dirty' => previous' = slug'
    BY CommitFacts
  <2>2. ASSUME previous' = slug' PROVE Hydrate(url') = slug'
    BY <1>1, <2>2, CommitFacts DEF UrlInv, Hydrate
  <2> QED
    BY <2>1, <2>2 DEF UrlInv, Hydrate
<1>7. HourInv'
  BY <1>3, CommitFacts DEF HourInv
<1>8. FirstInv'
  BY <1>1, CommitFacts DEF FirstInv
<1>9. QueryInv'
  <2>1. ASSUME ~dirty' PROVE Observed' = Observed
    BY <2>1, CommitFacts DEF Observed, MapShown, PairPicked
  <2> QED
    BY <2>1, CommitFacts DEF QueryInv
<1> QED
  BY <1>5, <1>6, <1>7, <1>8, <1>9 DEF FrontendInv

(* An event of the user leaves a commit due, and no run of another city    *)
(* can be picked.                                                          *)
LEMMA UserFacts ==
  ASSUME FrontendInv, User
  PROVE  /\ ~dirty /\ dirty' /\ UNCHANGED Machinery
         /\ slug' \in City /\ url' \in City \cup {None}
         /\ hour' \in {hour} \cup UserHours
         /\ methodology' \in BOOLEAN /\ mode' \in {"single", "delta"}
         /\ \/ UNCHANGED <<slug, url>>
            \/ Hydrate(url') = slug'
            \/ slug' # slug /\ url' = url
         /\ selected' \in City \cup {None}
         /\ runs' \in (Run \cup {None}) \X (Run \cup {None})
         /\ Foreign' => Foreign \/ slug' # slug \/ map.shown # slug
<1>1. TypeOK /\ ~dirty /\ data \subseteq Observed
  BY DEF FrontendInv, QueryInv, User, SelectCity, ClickList, PopState, Scrub, EnterDeltaMode,
     ExitDeltaMode, ToggleMethodology, ClickMap, SwapRuns, PickRun, OpenSegment, Dispatch
<1>2. /\ slug \in City /\ url \in City \cup {None} /\ methodology \in BOOLEAN
      /\ mode \in {"single", "delta"} /\ selected \in City \cup {None} /\ map \in Maps
      /\ runs \in (Run \cup {None}) \X (Run \cup {None})
      /\ runs = <<runs[1], runs[2]>>
      /\ runs[1] \in Run \cup {None} /\ runs[2] \in Run \cup {None}
  BY <1>1 DEF TypeOK
<1>3. CASE \E c \in City : SelectCity(c)
  BY <1>2, <1>3 DEF SelectCity, Dispatch
<1>4. CASE \E u \in City \cup {None} : PopState(u)
  <2>1. PICK u \in City \cup {None} : PopState(u)
    BY <1>4
  <2>2. Foreign' => Foreign \/ slug' # slug
    BY <2>1 DEF PopState, Foreign
  <2>3. slug' \in City /\ Hydrate(url') = slug'
    BY <2>1, FrontendAssumption DEF PopState, Hydrate
  <2>4. /\ ~dirty /\ dirty' /\ UNCHANGED Machinery /\ url' \in City \cup {None}
        /\ UNCHANGED <<hour, mode, methodology, selected, runs>>
    BY <2>1 DEF PopState, Dispatch
  <2> QED
    BY <1>2, <2>2, <2>3, <2>4
<1>5. CASE EnterDeltaMode \/ ToggleMethodology \/ \E h \in UserHours : Scrub(h)
  BY <1>2, <1>5 DEF EnterDeltaMode, ToggleMethodology, Scrub, Dispatch, Foreign
<1>6. CASE ExitDeltaMode
  <2>1. NoRuns \in (Run \cup {None}) \X (Run \cup {None}) /\ NoRuns[1] = None /\ NoRuns[2] = None
    BY DEF NoRuns
  <2> QED
    BY <1>2, <1>6, <2>1 DEF ExitDeltaMode, Dispatch, Foreign
<1>7. CASE \E c \in City : ClickList(c)
  <2>1. PICK c \in City : ClickList(c)
    BY <1>7
  <2>2. c = slug
    BY <1>1, <2>1, ObservedRuns DEF ClickList
  <2> QED
    BY <1>2, <2>1, <2>2 DEF ClickList, OpenSegment, Dispatch, Foreign
<1>8. CASE ClickMap
  <2>1. map.shown \in City \cup {None} /\ selected' = map.shown
        /\ UNCHANGED <<slug, url, hour, mode, methodology, runs>>
    BY <1>2, <1>8 DEF ClickMap, OpenSegment, Maps
  <2> QED
    BY <1>2, <1>8, <2>1 DEF ClickMap, OpenSegment, Dispatch, Foreign
<1>9. CASE SwapRuns
  <2>1. runs' = <<runs[2], runs[1]>> /\ runs'[1] = runs[2] /\ runs'[2] = runs[1]
    BY <1>9 DEF SwapRuns
  <2> QED
    BY <1>2, <1>9, <2>1 DEF SwapRuns, Dispatch, Foreign
<1>10. CASE \E i \in {1, 2} : \E r \in Run \cup {None} : PickRun(i, r)
  <2>1. PICK i \in {1, 2}, r \in Run \cup {None} : PickRun(i, r)
    BY <1>10
  <2>2. r \in RunOf(slug) \cup {None}
    BY <1>1, <2>1, ObservedRuns DEF PickRun
  <2>3. runs' = [runs EXCEPT ![i] = r]
    BY <2>1 DEF PickRun
  <2>4. CASE i = 1
    <3>1. runs' = <<r, runs[2]>> /\ runs'[1] = r /\ runs'[2] = runs[2]
      BY <1>2, <2>3, <2>4
    <3> QED
      BY <1>2, <2>1, <2>2, <3>1 DEF PickRun, Dispatch, Foreign
  <2>5. CASE i = 2
    <3>1. runs' = <<runs[1], r>> /\ runs'[1] = runs[1] /\ runs'[2] = r
      BY <1>2, <2>3, <2>5
    <3> QED
      BY <1>2, <2>1, <2>2, <3>1 DEF PickRun, Dispatch, Foreign
  <2> QED
    BY <2>4, <2>5
<1> QED
  BY <1>3, <1>4, <1>5, <1>6, <1>7, <1>8, <1>9, <1>10 DEF User

LEMMA UserKeeps ==
  ASSUME FrontendInv, User
  PROVE  FrontendInv'
<1>1. TypeOK /\ UrlInv /\ HourInv /\ FirstInv
  BY DEF FrontendInv
<1>2. /\ ~dirty /\ dirty' = TRUE
      /\ UNCHANGED <<previous, applied, cities, building, tiles, loading, data, map>>
  BY UserFacts DEF Machinery, User, SelectCity, ClickList, PopState, Scrub, EnterDeltaMode,
     ExitDeltaMode, ToggleMethodology, ClickMap, SwapRuns, PickRun, OpenSegment, Dispatch
<1>3. hour' \in 0..23
  BY <1>1, UserFacts, FrontendAssumption DEF TypeOK
<1>4. TypeOK'
  BY <1>1, <1>2, <1>3, UserFacts DEF TypeOK
<1>5. UrlInv'
  BY <1>1, <1>2, UserFacts DEF UrlInv, Hydrate
<1>6. HourInv'
  BY <1>1, <1>2, UserFacts DEF HourInv
<1>7. FirstInv' /\ QueryInv'
  BY <1>1, <1>2 DEF FirstInv, QueryInv
<1> QED
  BY <1>4, <1>5, <1>6, <1>7 DEF FrontendInv

(* An answer or an event of the map: no more than this changes.            *)
Arrival ==
  \/ CitiesLoaded
  \/ \E c \in City : TileSourceReady(c) \/ CollectTileSource(c)
  \/ \E k \in Key : Answer(k)
  \/ MapLoad \/ MapMove \/ MapIdle

Quiet ==
  /\ ~dirty /\ UNCHANGED <<store, previous, applied>>
  /\ dirty' \in BOOLEAN /\ cities' \in BOOLEAN /\ map' \in Maps
  /\ building' \subseteq City /\ tiles' \subseteq City
  /\ loading' \cup data' \subseteq loading \cup data
  /\ ~dirty' => cities' = cities /\ (MapShown' <=> MapShown)

LEMMA ArrivalIsQuiet ==
  ASSUME FrontendInv, Arrival
  PROVE  Quiet
<1>1. /\ map \in Maps /\ building \subseteq City /\ tiles \subseteq City
      /\ cities \in BOOLEAN /\ dirty \in BOOLEAN
  BY DEF FrontendInv, TypeOK
<1>2. CASE CitiesLoaded
  BY <1>1, <1>2 DEF CitiesLoaded, Quiet
<1>3. ASSUME NEW c \in City, TileSourceReady(c) PROVE Quiet
  <2>1. ~dirty' => (slug' \in tiles' <=> slug \in tiles)
    BY <1>3 DEF TileSourceReady, store
  <2> QED
    BY <1>1, <1>3, <2>1 DEF TileSourceReady, Quiet, store, MapShown
<1>4. ASSUME NEW c \in City, CollectTileSource(c) PROVE Quiet
  <2>1. MapShown' <=> MapShown
    BY <1>4 DEF CollectTileSource, store, MapShown
  <2> QED
    BY <1>1, <1>4, <2>1 DEF CollectTileSource, Quiet, store
<1>5. ASSUME NEW k \in Key, Answer(k) PROVE Quiet
  <2>1. loading' \cup data' \subseteq loading \cup data
    BY <1>5 DEF Answer
  <2> QED
    BY <1>1, <1>5, <2>1 DEF Answer, Quiet, store, MapShown
<1>6. CASE MapLoad \/ MapMove \/ MapIdle
  <2>1. map' \in Maps
    BY <1>1, <1>6 DEF MapLoad, MapMove, MapIdle, Maps
  <2> QED
    BY <1>1, <1>6, <2>1 DEF MapLoad, MapMove, MapIdle, Quiet, store, MapShown
<1> QED
  BY <1>2, <1>3, <1>4, <1>5, <1>6 DEF Arrival

LEMMA ArrivalKeeps ==
  ASSUME FrontendInv, Arrival
  PROVE  FrontendInv'
<1>1. TypeOK /\ UrlInv /\ HourInv /\ FirstInv /\ QueryInv /\ Quiet
  BY ArrivalIsQuiet DEF FrontendInv
<1>2. TypeOK'
  BY <1>1 DEF TypeOK, Quiet, store
<1>3. UrlInv' /\ HourInv' /\ FirstInv'
  BY <1>1 DEF UrlInv, HourInv, FirstInv, Quiet, store, Hydrate
<1>4. QueryInv'
  <2>1. ~dirty' => Observed' = Observed
    BY <1>1 DEF Quiet, store, Observed, PairPicked
  <2> QED
    BY <1>1, <2>1 DEF Quiet, QueryInv
<1> QED
  BY <1>2, <1>3, <1>4 DEF FrontendInv

(* The invariant of the application.                                       *)
THEOREM FrontendInvariant == Spec => []FrontendInv
<1>1. Init => FrontendInv
  BY FrontendInit
<1>2. FrontendInv /\ [Next]_vars => FrontendInv'
  <2> SUFFICES ASSUME FrontendInv, [Next]_vars PROVE FrontendInv'
    OBVIOUS
  <2>1. CASE UNCHANGED vars
    <3>1. UNCHANGED <<slug, url, previous, applied, hour, cities, mode, methodology, selected,
                      runs, dirty, building, tiles, loading, data, map>>
      BY <2>1 DEF vars, store
    <3>2. TypeOK' /\ UrlInv' /\ HourInv'
      BY <3>1 DEF FrontendInv, TypeOK, UrlInv, HourInv, Hydrate
    <3>3. FirstInv' /\ QueryInv'
      BY <3>1 DEF FrontendInv, FirstInv, QueryInv, Observed, MapShown, PairPicked
    <3> QED
      BY <3>2, <3>3 DEF FrontendInv
  <2>2. CASE Next
    BY <2>2, CommitKeeps, UserKeeps, ArrivalKeeps DEF Next, Arrival
  <2> QED
    BY <2>1, <2>2
<1> QED
  BY <1>1, <1>2, PTL DEF Spec

(* The store, the cache and the map keep their types.                      *)
THEOREM FrontendTypes == Spec => []TypeOK
<1>1. FrontendInv => TypeOK
  BY DEF FrontendInv
<1> QED
  BY <1>1, FrontendInvariant, PTL

(* Between events the address bar names the active city.                   *)
THEOREM FrontendUrlNamesCity == Spec => []UrlNamesCity
<1>1. FrontendInv => UrlNamesCity
  BY DEF FrontendInv, UrlInv, UrlNamesCity, Settled
<1> QED
  BY <1>1, FrontendInvariant, PTL

(* The scrubber never stands at another city's noon.                       *)
THEOREM FrontendNeverForeignNoon == Spec => []NeverForeignNoon
<1>1. FrontendInv => NeverForeignNoon
  BY FrontendAssumption DEF FrontendInv, TypeOK, HourInv, NeverForeignNoon, Settled
<1> QED
  BY <1>1, FrontendInvariant, PTL

(* The selection follows the active city.                                  *)
THEOREM FrontendSelectionFollowsCity == Spec => SelectionFollowsCity
<1> DEFINE A == /\ (Settled /\ Foreign)' => Foreign /\ slug = previous
                /\ Foreign' => Foreign \/ slug' # slug \/ map.shown # slug
<1>1. ASSUME FrontendInv, [Next]_vars PROVE [A]_vars
  <2>1. CASE UNCHANGED vars
    BY <2>1
  <2>2. CASE Commit
    <3>1. NoRuns[1] = None /\ NoRuns[2] = None
      BY DEF NoRuns
    <3>2. CASE previous = None
      <4>1. ~Foreign' \/ dirty'
        BY <1>1, <2>2, <3>1, <3>2, CommitFacts DEF FrontendInv, FirstInv, Foreign
      <4>2. Foreign' => slug' # slug
        BY <1>1, <2>2, <3>1, <3>2 DEF Commit, ClearEffect, FrontendInv, FirstInv, Foreign
      <4> QED
        BY <4>1, <4>2 DEF Settled
    <3>3. CASE previous \notin {None, slug}
      BY <2>2, <3>1, <3>3 DEF Commit, ClearEffect, Foreign
    <3>4. CASE previous = slug
      <4>1. UNCHANGED <<slug, selected, runs>>
        BY <1>1, <2>2, <3>4, FrontendAssumption
           DEF FrontendInv, TypeOK, Commit, ClearEffect, HydrateEffect
      <4> QED
        BY <3>4, <4>1 DEF Foreign
    <3> QED
      BY <3>2, <3>3, <3>4
  <2>3. CASE User
    BY <1>1, <2>3, UserFacts DEF Settled
  <2>4. CASE Arrival
    <3>1. UNCHANGED <<slug, selected, runs>> /\ slug = previous
      BY <1>1, <2>4, ArrivalIsQuiet DEF Quiet, store, FrontendInv, UrlInv
    <3> QED
      BY <3>1 DEF Foreign
  <2> QED
    BY <1>1, <2>1, <2>2, <2>3, <2>4 DEF Next, Arrival
<1> QED
  BY <1>1, FrontendInvariant, PTL DEF Spec, SelectionFollowsCity
=============================================================================
