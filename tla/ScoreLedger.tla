----------------------------- MODULE ScoreLedger -----------------------------
(***************************************************************************)
(* What scoring_runs and segment_scores promise to everything that reads   *)
(* them: an append-only ledger.  A run is recorded before any of its       *)
(* scores, scores arrive in groups that become visible together, a run     *)
(* scores a cell (a road segment at a temporal sample) at most once, no    *)
(* score is ever changed or removed, and none arrives after the run ended. *)
(* A score is a record whose fields include run and cell.                  *)
(***************************************************************************)
CONSTANT Run

VARIABLES
  recorded,  \* the runs in scoring_runs
  ledger,    \* the rows of segment_scores
  closed     \* the runs whose process has ended

lvars == <<recorded, ledger, closed>>

LedgerInit ==
  /\ recorded = {}
  /\ ledger = {}
  /\ closed = {}

Record(r) ==
  /\ r \notin recorded \cup closed
  /\ recorded' = recorded \cup {r}
  /\ UNCHANGED <<ledger, closed>>

(* The ledger grows by rows of r, each for a cell r had not scored.        *)
Extend(r) ==
  /\ r \in recorded \ closed
  /\ ledger \subseteq ledger'
  /\ \A x \in ledger' \ ledger :
       /\ x.run = r
       /\ \A y \in ledger' : y.run = r /\ y.cell = x.cell => y = x
  /\ UNCHANGED <<recorded, closed>>

(* The process of a run ends; it may never have recorded the run.          *)
Close(r) ==
  /\ r \notin closed
  /\ closed' = closed \cup {r}
  /\ UNCHANGED <<recorded, ledger>>

LedgerNext == \E r \in Run : Record(r) \/ Extend(r) \/ Close(r)

LedgerSpec == LedgerInit /\ [][LedgerNext]_lvars
=============================================================================
