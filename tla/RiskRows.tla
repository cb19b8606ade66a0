------------------------------ MODULE RiskRows ------------------------------
(***************************************************************************)
(* What a row of segment_scores says: the four sub-scores of a segment at  *)
(* an hour, its composite and its scalar confidence.                       *)
(*                                                                         *)
(* The scorers are pure functions, so they are operators.  A float of      *)
(* [0, 1] is a number of 0 .. One; composites, which add weighted          *)
(* sub-scores, count Parts of it, so that the weights and the mean of one  *)
(* to four values are whole numbers.  Angles are whole degrees.  What the  *)
(* code takes from trigonometry and exponentials is a constant, what the   *)
(* segmentation model says of an image and what the propagator returns are *)
(* arguments.                                                              *)
(***************************************************************************)
EXTENDS Integers, FiniteSets, FiniteSetsExt

CONSTANTS
  Grain,        \* One is 900 grains: thirds, fifths, degrees and days divide it
  CosSquared,   \* CosSquared[a]: the squared cosine of an angle
  Attenuation,  \* Attenuation[e]: 1 - sin of the sun's elevation
  Spatial(_),   \* the Gaussian of a distance
  Recency(_)    \* the decay of an age

One   == 900 * Grain
Parts == 1200

ASSUME RiskRowsAssumption ==
  /\ Grain \in Nat \ {0}
  /\ CosSquared \in [0..90 -> 0..One]
  /\ Attenuation \in [0..90 -> 0..One]

Abs(n)        == IF n < 0 THEN -n ELSE n
Larger(a, b)  == IF a < b THEN b ELSE a
Smaller(a, b) == IF a < b THEN a ELSE b

(* _SUB_SCORE_REGISTRY: the scorers that have columns.                     *)
Name == {"glare", "lane_marking", "junction_complexity", "historical"}

(* What a scorer returns and pydantic accepts.                             *)
SubScoreResult == [value : 0..One, confidence : 0..One, is_stub : BOOLEAN]
Result(v, c)   == [value |-> v, confidence |-> c, is_stub |-> FALSE]

-----------------------------------------------------------------------------
(* Junction complexity.  A road has lanes, a class, and at each of its two *)
(* sides the key of a junction and a bearing: R[i] is road i of a city.    *)
Side == {"start", "end"}

Legs(R, key) == {leg \in (DOMAIN R) \X Side : R[leg[1]].at[leg[2]] = key}

(* Between two compass directions, on either side: 0 .. 180.               *)
Turn(a, b) ==
  LET diff == Abs(a - b) % 360 IN IF diff > 180 THEN 360 - diff ELSE diff

AngleBetweenBearings(a, b) == Larger(1, Turn(a, b))

(* A leg of the road itself, as a loop has one, counts but is no neighbor. *)
LegsAt(R, i, side)    == Legs(R, R[i].at[side])
OtherLegs(R, i, side) == {leg \in LegsAt(R, i, side) : leg[1] # i}
AngleTo(R, i, side, leg) ==
  AngleBetweenBearings(R[i].bearing[side], R[leg[1]].bearing[leg[2]])

JunctionEndpoint(R, i, side) ==
  [leg_count |-> Cardinality(LegsAt(R, i, side)),
   min_angle |-> Min({90} \cup {AngleTo(R, i, side, leg) : leg \in OtherLegs(R, i, side)}),
   neighbors |-> {leg[1] : leg \in OtherLegs(R, i, side)}]

RoadClassRank(class) ==
  CASE class = "service" -> 1
    [] class \in {"tertiary", "tertiary_link"} -> 3
    [] class \in {"secondary", "secondary_link"} -> 4
    [] class \in {"primary", "primary_link"} -> 5
    [] class \in {"trunk", "trunk_link"} -> 6
    [] class \in {"motorway", "motorway_link"} -> 7
    [] OTHER -> 2

(* min(1, max(D) / 3), in thirds; 0 when D is empty or has nothing above 0. *)
Thirds(D) == Cardinality({k \in 1..3 : \E d \in D : k <= d})

Neighbors(R, i) == UNION {JunctionEndpoint(R, i, side).neighbors : side \in Side}

IntersectionDegree(R, i) == Thirds({JunctionEndpoint(R, i, side).leg_count - 2 : side \in Side})
MergeAngle(R, i) ==
  Larger(0, Smaller(90, 90 - Min({JunctionEndpoint(R, i, side).min_angle : side \in Side})))
LaneCountChange(R, i) == Thirds({Abs(R[i].lanes - R[j].lanes) : j \in Neighbors(R, i)})
RoadClassTransition(R, i) ==
  Thirds({Abs(RoadClassRank(R[i].class) - RoadClassRank(R[j].class)) : j \in Neighbors(R, i)})

(* compute_score: the weights 0.3, 0.3, 0.2 and 0.2, in grains.            *)
Weighted(degree, angle, lanes, class) == 90 * degree + 3 * angle + 60 * lanes + 60 * class

JunctionComplexity(R, i) ==
  Grain * Weighted(IntersectionDegree(R, i), MergeAngle(R, i),
                   LaneCountChange(R, i), RoadClassTransition(R, i))

-----------------------------------------------------------------------------
(* Glare, of a road that heads for h while the sun is at an azimuth and an *)
(* elevation.                                                              *)
AngleOfAxisAndSun(h, azimuth) == Smaller(Turn(h, azimuth), 180 - Turn(h, azimuth))

Glare(h, azimuth, elevation) ==
  IF elevation < 0
  THEN 0
  ELSE (CosSquared[AngleOfAxisAndSun(h, azimuth)] * Attenuation[elevation]) \div One

-----------------------------------------------------------------------------
(* Historical correlation, of incidents with an id, a distance, a day and  *)
(* a severity.  The runs give the scorer no max_weight, so the raw sum is  *)
(* clipped and never divided.                                              *)
SeverityWeight(severity) ==
  CASE severity = "fatal" -> 3 [] severity = "injury" -> 2 [] OTHER -> 1

RawWeight(incident, run_at) ==
  (Spatial(incident.distance) * Recency(Larger(0, run_at - incident.at))
     * SeverityWeight(incident.severity)) \div One

RawWeightSum(incidents, radius, run_at) ==
  MapThenSumSet(LAMBDA n : RawWeight(n, run_at), {n \in incidents : n.distance <= radius})

Historical(raw) == Smaller(One, raw)

-----------------------------------------------------------------------------
(* Lane markings, of what the model says of the images of a segment, of    *)
(* each a value and an uncertainty.  Without an image the result is a stub; with images their  *)
(* mean is some number between the least and the greatest.                 *)
Values(images)        == {n.value : n \in images}
Uncertainties(images) == {n.uncertainty : n \in images}

LaneMarkings(images) ==
  IF images = {}
  THEN {[value |-> 0, confidence |-> 0, is_stub |-> TRUE]}
  ELSE {Result(v, One - Max(Uncertainties(images))) :
          v \in Min(Values(images))..Max(Values(images))}

(* What the scoring CLI's four scorers may say of a segment at an hour.    *)
Scored(glare, images, junction, raw) ==
  {[n \in Name |-> CASE n = "glare" -> Result(glare, One)
                     [] n = "lane_marking" -> lane
                     [] n = "junction_complexity" -> Result(junction, One)
                     [] n = "historical" -> Result(Historical(raw), One)] :
     lane \in LaneMarkings(images)}

-----------------------------------------------------------------------------
(* Rows, of the results that there are: of the names without a result the  *)
(* row has a stub.                                                         *)
SubScoreOf(results, n) == IF n \in DOMAIN results THEN results[n].value ELSE 0
IsStub(results, n)     == n \in DOMAIN results => results[n].is_stub
Real(results)          == {n \in Name : ~IsStub(results, n)}

(* local_aggregate with DEFAULT_COMPOSITE_WEIGHTS 0.35, 0.3, 0.2, 0.15.    *)
LocalAggregate(sub) ==
  420 * sub["glare"] + 360 * sub["lane_marking"]
    + 240 * sub["junction_complexity"] + 180 * sub["historical"]

SubScoreColumns(results) == [n \in Name |-> SubScoreOf(results, n)]

(* _composite_local_inputs_per_hour: what the propagator gets.             *)
LocalInput(results) == LocalAggregate(SubScoreColumns(results))

AsRow(composite, uplift, results) ==
  [composite_risk     |-> composite,
   propagation_uplift |-> uplift,
   sub_score          |-> SubScoreColumns(results),
   is_stub            |-> [n \in Name |-> IsStub(results, n)],
   confidence         |-> IF Real(results) = {} THEN 0
                          ELSE Min({results[n].confidence : n \in Real(results)})]

(* A row of a Phase 4 run.                                                 *)
RiskRow(results, uplift) == AsRow(LocalInput(results) + uplift, uplift, results)

(* A row of a streaming run: the composite is the mean of the real values. *)
StreamedRow(results) ==
  LET real(n) == IF n \in Real(results) THEN results[n].value ELSE 0
      sum     == real("glare") + real("lane_marking") + real("junction_complexity")
                   + real("historical")
  IN  AsRow(IF Real(results) = {} THEN 0
           ELSE (Parts \div Cardinality(Real(results))) * sum, 0, results)
=============================================================================
