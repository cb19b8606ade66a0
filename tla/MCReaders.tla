------------------------------ MODULE MCReaders ------------------------------
(* Two runs of one city on two days, a second city whose box overlaps the   *)
(* first, and pages of one row.  What the rows say and what the answers say *)
(* of them has no state: those operators are checked on bounded inputs by   *)
(* the assumptions below, each against a definition of another kind.        *)
EXTENDS Readers, ShownRisk

CONSTANTS run1, run2, here, there

MCCityOf == [r \in Run |-> here]
MCDayOf == [r \in Run |-> IF r = run1 THEN 0 ELSE 1]
MCWaysOf == [c \in City |-> IF c = here THEN Segment ELSE {2}]

(* One is 900.  Falling straight lines stand for the cosine and the rest.   *)
MCCosSquared == [a \in 0..90 |-> 10 * (90 - a)]
MCAttenuation == MCCosSquared
MCSpatial(distance) == Larger(0, 900 - distance)
MCRecency(age) == Larger(0, 900 - age)

Bearing == {15 * k : k \in 0..23} \cup {1, 359}

(* A turn is the least difference of two bearings, whole turns set aside.   *)
ASSUME TurnIsLeast ==
  \A a, b \in Bearing : Turn(a, b) = Min({Abs(a - b + 360 * k) : k \in -1..1})

(* The sun shines along the road or against it, whichever is nearer, and    *)
(* nothing is scored at night or when the sun stands across the road.       *)
ASSUME GlareIsAlongTheRoad ==
  \A h, azimuth \in Bearing :
    /\ AngleOfAxisAndSun(h, azimuth)
         = Min({Turn(h, azimuth), Turn((h + 180) % 360, azimuth)})
    /\ Glare(h, azimuth, -1) = 0
    /\ Turn(h, azimuth) = 90 => Glare(h, azimuth, 0) = 0

Road == [lanes : {1, 3}, class : {"service", "motorway"}, at : [Side -> {"p", "q"}],
         bearing : {[start |-> 0, end |-> 90], [start |-> 90, end |-> 90],
                    [start |-> 270, end |-> 0]}]

(* A road on its own, a loop too, is no junction; with a second one its     *)
(* score is in range, and above 0 only where the two meet.                  *)
ASSUME SecondRoadCounts ==
  \A R \in [1..2 -> Road] :
    /\ JunctionComplexity(R, 1) \in 0..One
    /\ JunctionComplexity([i \in {1} |-> R[1]], 1) = 0
    /\ JunctionComplexity(R, 1) > 0 => Neighbors(R, 1) = {2}

(* Two roads drawn one after the other in a straight line meet at the       *)
(* sharpest angle there is; drawn towards each other they meet at none.     *)
Straight(start, end, heading) ==
  [i \in 1..2 |->
     [lanes |-> 1, class |-> "service",
      at      |-> IF i = 1 THEN [start |-> "o", end |-> "p"] ELSE [start |-> start, end |-> end],
      bearing |-> LET h == IF i = 1 THEN 90 ELSE heading IN [start |-> h, end |-> h]]]

ASSUME StraightRoadIsSharp ==
  /\ MergeAngle(Straight("p", "q", 90), 1) = 89
  /\ MergeAngle(Straight("q", "p", 270), 1) = 0

(* The indicator is the least of the three signals; of equal ones the first *)
(* in the order freshness, coverage, model is named.                        *)
ASSUME IndicatorIsFirstLeast ==
  \A f, c, m \in {-1, 0, 450, 900, 901} :
    LET x     == Candidates(f, c, m)
        least == Min({x[l] : l \in Limiter})
    IN  Assemble(f, c, m) =
          [value |-> least,
           limiter |-> IF x["freshness"] = least THEN "freshness"
                       ELSE IF x["coverage"] = least THEN "coverage" ELSE "model"]

(* The composite of a streamed row, times the number of real sub-scores, is *)
(* their sum; a row without any is empty and has no confidence.             *)
ASSUME StreamedRowIsMean ==
  \A N \in SUBSET Name :
    \A results \in [N -> [value : {0, 900}, confidence : {450, 900}, is_stub : BOOLEAN]] :
      LET row  == StreamedRow(results)
          real == {n \in N : ~results[n].is_stub}
      IN  /\ row.composite_risk * Cardinality(real)
               = Parts * One * Cardinality({n \in real : results[n].value = One})
          /\ real = {} => row.composite_risk = 0 /\ row.confidence = 0
          /\ row.confidence <= 450 <=>
               real = {} \/ \E n \in real : results[n].confidence = 450

(* An incident counts once, only inside the radius, the less the farther    *)
(* and the older it is, and the sum is clipped at One.                      *)
ASSUME IncidentsAddUp ==
  LET at(id, d, day) == [id |-> id, distance |-> d, at |-> day, severity |-> "fatal"]
      raw(incidents) == RawWeightSum(incidents, 100, 10)
  IN  /\ raw({at(1, 0, 10)}) = 3 * One /\ raw({at(1, 0, 10), at(2, 0, 10)}) = 6 * One
      /\ raw({at(1, 101, 10)}) = 0 /\ raw({at(1, 100, 10)}) \in 1..(3 * One - 1)
      /\ raw({at(1, 0, 9)}) < raw({at(1, 0, 10)}) /\ raw({at(1, 0, 11)}) = raw({at(1, 0, 10)})
      /\ Historical(raw({at(1, 0, 10)})) = One
=============================================================================
