---------------------------- MODULE HourlyLedger ----------------------------
(***************************************************************************)
(* The ledger as Phase 4 runs write it: a run reads the segments of its    *)
(* city once, before its first score, and scores them sample by sample.    *)
(* A commit may show any number of new scores, of one sample or of         *)
(* several, as long as every sample is whole before the next one is begun. *)
(* Streaming runs score what they have read in another order.              *)
(* ScoringRun implements it, and Readers relies on it.                     *)
(***************************************************************************)
EXTENDS ScoreLedger, Integers

CONSTANTS
  Segment,  \* the road segments
  Sampled,  \* the temporal samples, numbered in their order
  Streaming \* the runs that do not go sample by sample

VARIABLE
  loaded    \* loaded[r]: the segments r has read

hvars == <<lvars, loaded>>

HourlyInit ==
  /\ LedgerInit
  /\ loaded = [r \in Run |-> {}]

IsScored(r, s, h) == \E x \in ledger : x.run = r /\ x.cell = <<s, h>>

(* Only what was read is scored, and by all but streaming runs in order.   *)
InOrder ==
  \A x \in ledger :
    /\ x.cell[1] \in loaded[x.run] /\ x.cell[2] \in Sampled
    /\ x.run \in Streaming \/
         \A g \in Sampled : g < x.cell[2] => \A s \in loaded[x.run] : IsScored(x.run, s, g)

Load(r) ==
  /\ r \in recorded \ closed
  /\ \A x \in ledger : x.run # r
  /\ \E S \in SUBSET Segment : loaded' = [loaded EXCEPT ![r] = S]
  /\ UNCHANGED lvars

Commit(r) ==
  /\ Extend(r)
  /\ UNCHANGED loaded
  /\ InOrder'

HourlyNext ==
  \E r \in Run :
    \/ (Record(r) \/ Close(r)) /\ UNCHANGED loaded
    \/ Load(r)
    \/ Commit(r)

HourlySpec == HourlyInit /\ [][HourlyNext]_hvars
=============================================================================
