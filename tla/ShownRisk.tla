------------------------------ MODULE ShownRisk ------------------------------
(***************************************************************************)
(* What the HTTP API says of a row of segment_scores: the decomposition of *)
(* the composite, the sub-scores and the confidence, of one segment (the   *)
(* detail route), of a city or a run (the list routes) and of two runs     *)
(* (the delta route).  All are pure functions of a row, of the imagery of  *)
(* the segment and of the day of the request.                              *)
(***************************************************************************)
EXTENDS RiskRows

(* What stub_risk makes of a segment that was never scored: five hashes.   *)
StubRisk == [Name \cup {"composite"} -> 0..One]

-----------------------------------------------------------------------------
(* The indicator: the least of three signals, and the one it is, the first *)
(* by priority when several are.                                           *)
Limiter == {"freshness", "coverage", "model"}
Priority == [freshness |-> 1, coverage |-> 2, model |-> 3]

Clamp(x) == Larger(0, Smaller(One, x))

(* Full credit for 180 days, none from day 1080.                           *)
Freshness(age_days) ==
  IF age_days <= 180 THEN One
  ELSE IF age_days >= 1080 THEN 0
  ELSE One - (age_days - 180) * Grain

(* Of a target of five samples.                                            *)
Coverage(samples) == Smaller(One, 180 * Grain * samples)

Candidates(freshness, coverage, model_uncertainty) ==
  [freshness |-> Clamp(freshness), coverage |-> Clamp(coverage),
   model |-> One - Clamp(model_uncertainty)]

IsLimiter(candidates, l) ==
  \A k \in Limiter \ {l} :
    \/ candidates[l] < candidates[k]
    \/ candidates[l] = candidates[k] /\ Priority[l] < Priority[k]

Assemble(freshness, coverage, model_uncertainty) ==
  LET candidates == Candidates(freshness, coverage, model_uncertainty)
      limiter    == CHOOSE l \in Limiter : IsLimiter(candidates, l)
  IN  [value |-> candidates[limiter], limiter |-> limiter]

(* imagery is the set of a segment's stored images, each with the day it   *)
(* was captured.                                                           *)
ConfidenceOf(imagery, model_uncertainty, today) ==
  IF imagery = {}
  THEN Assemble(One, 0, One)
  ELSE Assemble(Freshness(today - Max({n.captured : n \in imagery})),
                Coverage(Cardinality(imagery)), model_uncertainty)

ModelUncertainty(row) == Larger(0, One - row.confidence)

(* What the list routes ship: the row's scalar, said to be the model's.    *)
ScalarConfidence(row) == [value |-> row.confidence, limiter |-> "model"]

-----------------------------------------------------------------------------
(* The part of the answers that the routes share.                          *)
SubScoreShown(value, is_stub, confidence) ==
  [value |-> value, is_stub |-> is_stub, confidence |-> confidence]

Shown(row, confidence) ==
  [composite_risk     |-> row.composite_risk,
   local_contribution |-> Larger(0, row.composite_risk - row.propagation_uplift),
   propagation_uplift |-> row.propagation_uplift,
   sub_scores         |-> [n \in Name |-> SubScoreShown(row.sub_score[n], row.is_stub[n],
                             IF n \in {"lane_marking", "glare"} THEN row.confidence ELSE 0)],
   confidence         |-> confidence]

(* Of a segment that was never scored, with composites in Parts too.       *)
ShownAsStub(stub, confidence) ==
  [composite_risk     |-> Parts * stub["composite"],
   local_contribution |-> Parts * stub["composite"],
   propagation_uplift |-> 0,
   sub_scores         |-> [n \in Name |-> SubScoreShown(stub[n], TRUE, 0)],
   confidence         |-> confidence]

(* get_segment, of a segment with a row and of one without                 *)
SegmentDetail(row, imagery, today) ==
  Shown(row, ConfidenceOf(imagery, ModelUncertainty(row), today))

UnscoredDetail(stub, imagery, today) ==
  ShownAsStub(stub, ConfidenceOf(imagery, One, today))

(* metadata.model_uncertainty of the lane markings, unless they are a stub *)
LaneUncertainty(row) == ModelUncertainty(row)

(* _summary_from_row, of a segment that has a row, and _score_row_to_entry *)
RunScoreEntry(row) == Shown(row, ScalarConfidence(row))

(* _row_to_snapshot and compute_segment_delta                              *)
Snapshot(row) == Shown(row, ScalarConfidence(row))

SegmentDelta(a, b) ==
  LET score_a == Snapshot(a)
      score_b == Snapshot(b)
  IN  [composite_delta          |-> score_b.composite_risk - score_a.composite_risk,
       local_contribution_delta |-> score_b.local_contribution - score_a.local_contribution,
       propagation_uplift_delta |-> score_b.propagation_uplift - score_a.propagation_uplift,
       sub_score_deltas         |-> [n \in Name |-> score_b.sub_scores[n].value
                                                      - score_a.sub_scores[n].value],
       confidence_a             |-> score_a.confidence,
       confidence_b             |-> score_b.confidence]

-----------------------------------------------------------------------------
(* What the response models accept; anything else is an error of the       *)
(* server.                                                                 *)
ConfidenceIndicator == [value : 0..One, limiter : Limiter]
SubScore == [value : 0..One, confidence : 0..One, is_stub : BOOLEAN]

Accepted(shown) ==
  /\ shown.sub_scores \in [Name -> SubScore]
  /\ shown.confidence \in ConfidenceIndicator

SnapshotAccepted(shown) ==
  /\ Accepted(shown)
  /\ {shown.composite_risk, shown.local_contribution, shown.propagation_uplift} \subseteq Nat
=============================================================================
