--------------------------- MODULE ScoringRun_proofs ---------------------------
(***************************************************************************)
(* Scoring runs, proved for every set of runs and segments, number of      *)
(* hours and batch size.                                                   *)
(*                                                                         *)
(* The table has no unique constraint, so that a cell is scored once and   *)
(* none is left out rests on the loops.  LoopInv says how: a segment is at *)
(* one place of the index (IndexOnce), so different positions are          *)
(* different cells (CellsDiffer); the cells the loops are past are exactly *)
(* the committed ones and the ones in the batch (Collected), which are     *)
(* disjoint (BatchOnce).  A commit moves the batch to the table and an     *)
(* advance adds one cell that neither holds; a failure drops the batch,    *)
(* which leaves the committed prefix (PrefixOf).  No row is built before   *)
(* the uplift of every hour is there (Uplifted).  CountOK relates the      *)
(* counters: rows built = (outer - 1) * inner bound + (inner - 1).         *)
(***************************************************************************)
EXTENDS ScoringRun, FiniteSetTheorems, TLAPS

(* The order in which the segments are read has each of them once.         *)
LEMMA OrderOfSegments ==
  ASSUME NEW S, IsFiniteSet(S), NEW s \in SetToSeqs(S)
  PROVE  /\ s \in Seq(S)
         /\ Len(s) = Cardinality(S)
         /\ \A i, j \in 1..Len(s) : s[i] = s[j] => i = j
<1>1. Cardinality(S) \in Nat
  BY FS_CardinalityType
<1>2. s \in [1..Cardinality(S) -> S]
  BY DEF SetToSeqs
<1>3. s \in Seq(S) /\ Len(s) = Cardinality(S)
  BY <1>1, <1>2
<1> QED
  BY <1>2, <1>3 DEF SetToSeqs

(* What the loops build a row for is a segment at a temporal sample.       *)
LEMMA CellType ==
  ASSUME TypeOK, NEW r \in Run, NEW p \in Positions(r)
  PROVE  CellAt(r, p) \in Cell
BY RunAssumption DEF TypeOK, CellAt, Positions, Outer, Inner, Cell

LEMMA RowType ==
  ASSUME TypeOK, NEW r \in Run
  PROVE  RowsOf(r) \subseteq Row
<1> SUFFICES ASSUME NEW k \in 1..Len(batch[r])
             PROVE  [run |-> r, cell |-> batch[r][k], seq |-> written[r] + k,
                     inserted_at |-> begun[r]] \in Row
  BY DEF RowsOf
<1>1. batch[r] \in Seq(Cell) /\ written[r] \in Nat /\ begun[r] \in Nat
  BY DEF TypeOK
<1>2. batch[r][k] \in Cell /\ written[r] + k \in Nat
  BY <1>1
<1> QED
  BY <1>1, <1>2 DEF Row

(* The types are kept by every step.                                       *)
LEMMA TypeStep == TypeOK /\ [Next]_vars => TypeOK'
<1> SUFFICES ASSUME TypeOK, [Next]_vars PROVE TypeOK'
  OBVIOUS
<1>0. /\ {"record", "load", "score", "propagate", "write", "commit", "done", "failed"}
           \subseteq Label
      /\ <<>> \in Seq(Cell)
      /\ clock + 1 \in Nat
  BY DEF Label, Ended, TypeOK
<1>1. ASSUME NEW r \in Run, RecordRun(r) PROVE TypeOK'
  BY <1>0, <1>1 DEF RecordRun, TypeOK
<1>2. ASSUME NEW r \in Run, LoadSegments(r) PROVE TypeOK'
  <2>1. PICK s \in SetToSeqs(roads) : index' = [index EXCEPT ![r] = s]
    BY <1>2 DEF LoadSegments
  <2>2. IsFiniteSet(roads)
    BY FS_Subset, RunAssumption DEF TypeOK
  <2>3. s \in Seq(Segment)
    BY <2>2, OrderOfSegments DEF TypeOK
  <2> QED
    BY <1>0, <1>2, <2>1, <2>3 DEF LoadSegments, BeginIfNone, TypeOK
<1>3. ASSUME NEW r \in Run, AppendRow(r) PROVE TypeOK'
  <2>1. CellAt(r, next[r]) \in Cell
    BY <1>3, CellType DEF AppendRow, Exhausted
  <2>2. Succ(r, next[r]) \in Nat \X Nat
    BY DEF Succ, TypeOK
  <2>3. Append(batch[r], CellAt(r, next[r])) \in Seq(Cell)
    BY <2>1 DEF TypeOK
  <2> QED
    BY <1>3, <2>2, <2>3 DEF AppendRow, TypeOK
<1>4. ASSUME NEW r \in Run, InsertBatch(r) PROVE TypeOK'
  BY <1>0, <1>4 DEF InsertBatch, BeginIfNone, TypeOK
<1>5. ASSUME NEW r \in Run, CommitBatch(r) PROVE TypeOK'
  <2>1. written[r] + Len(batch[r]) \in Nat
    BY DEF TypeOK
  <2> QED
    BY <1>0, <1>5, <2>1, RowType DEF CommitBatch, TypeOK
<1>6. ASSUME NEW r \in Run, Finish(r) PROVE TypeOK'
  BY <1>0, <1>6 DEF Finish, TypeOK
<1>7. ASSUME NEW r \in Run, Fail(r) PROVE TypeOK'
  BY <1>0, <1>7 DEF Fail, TypeOK
<1>8. ASSUME NEW S \in SUBSET Segment, Ingest(S) PROVE TypeOK'
  BY <1>8 DEF Ingest, TypeOK
<1>9. CASE UNCHANGED vars
  BY <1>9 DEF vars, TypeOK
<1>10. ASSUME NEW r \in Run, ScoreAll(r) PROVE TypeOK'
  BY <1>0, <1>10 DEF ScoreAll, TypeOK
<1>11. ASSUME NEW r \in Run, NEW h \in 1..Hours, Propagate(r, h) PROVE TypeOK'
  BY <1>11 DEF Propagate, TypeOK
<1>12. ASSUME NEW r \in Run, StartRows(r) PROVE TypeOK'
  BY <1>0, <1>12 DEF StartRows, TypeOK
<1>13. ASSUME NEW r \in Run, PropagationRaises(r) PROVE TypeOK'
  BY <1>0, <1>13 DEF PropagationRaises, TypeOK
<1> QED
  BY <1>1, <1>2, <1>3, <1>4, <1>5, <1>6, <1>7, <1>8, <1>9, <1>10, <1>11, <1>12,
     <1>13 DEF Next, Step

-----------------------------------------------------------------------------
(* What holds of each run separately.                                      *)

IndexOnce(r) ==
  \A i, j \in 1..Len(index[r]) : index[r][i] = index[r][j] => i = j

Untouched(r) ==
  /\ pc[r] \in {"record", "load"} => index[r] = <<>>
  /\ pc[r] \in {"record", "load", "score", "propagate"} =>
       /\ next[r] = <<1, 1>> /\ batch[r] = <<>>
       /\ written[r] = 0 /\ RowsOfRun(r) = {}

InLoops(r) == Exhausted(r) => index[r] = <<>> \/ next[r] = <<Outer(r) + 1, 1>>

(* The cells the loops are past, and those whose rows are in memory.       *)
Passed(r) == {CellAt(r, p) : p \in {q \in Positions(r) : Before(q, next[r])}}
Pending(r) == Range(batch[r])

Collected(r) ==
  /\ Scored(r) \cup Pending(r) \subseteq Passed(r)
  /\ pc[r] # "failed" => Passed(r) \subseteq Scored(r) \cup Pending(r)

BatchOnce(r) ==
  /\ \A i, j \in 1..Len(batch[r]) : batch[r][i] = batch[r][j] => i = j
  /\ Scored(r) \cap Pending(r) = {}

PrefixOf(r) ==
  \A p, q \in Positions(r) :
    Before(p, q) /\ CellAt(r, q) \in Scored(r) => CellAt(r, p) \in Scored(r)

Recorded(r) ==
  /\ pc[r] = "record" => r \notin runs
  /\ pc[r] \in {"load", "score", "propagate", "write", "commit", "done"} => r \in runs

(* The rows of a Phase 4 run come after the uplift of every hour.          *)
Uplifted(r) ==
  pc[r] \in {"write", "commit", "done"} \/ Scored(r) # {} =>
    r \in Streaming \/ Propagated(r)

LoopInv(r) ==
  /\ IndexOnce(r)
  /\ Untouched(r)
  /\ InLoops(r)
  /\ Collected(r)
  /\ BatchOnce(r)
  /\ PrefixOf(r)
  /\ Recorded(r)
  /\ Uplifted(r)

(* Different positions are different cells, as a segment is read once.     *)
LEMMA CellsDiffer ==
  ASSUME TypeOK, NEW r \in Run, IndexOnce(r),
         NEW p \in Positions(r), NEW q \in Positions(r), CellAt(r, p) = CellAt(r, q)
  PROVE  p = q
<1>1. p = <<p[1], p[2]>> /\ q = <<q[1], q[2]>>
  BY DEF Positions
<1>2. CASE r \in Streaming
  BY <1>1, <1>2 DEF CellAt, Positions, Outer, Inner, IndexOnce
<1>3. CASE r \notin Streaming
  BY <1>1, <1>3 DEF CellAt, Positions, Outer, Inner, IndexOnce
<1> QED
  BY <1>2, <1>3

(* Succ is the next position: what lies before it is what lay before, and  *)
(* the position itself.                                                    *)
LEMMA SuccIsNext ==
  ASSUME TypeOK, NEW r \in Run, NEW n \in Positions(r), NEW p \in Positions(r)
  PROVE  Before(p, Succ(r, n)) <=> Before(p, n) \/ p = n
<1>1. /\ p = <<p[1], p[2]>> /\ n = <<n[1], n[2]>>
      /\ p[1] \in Nat /\ p[2] \in 1..Inner(r) /\ n[1] \in Nat /\ n[2] \in 1..Inner(r)
  BY RunAssumption DEF Positions, Outer, Inner, TypeOK
<1>2. Inner(r) \in Nat
  BY RunAssumption DEF Inner, TypeOK
<1> QED
  BY <1>1, <1>2 DEF Before, Succ

LEMMA SuccInLoops ==
  ASSUME TypeOK, NEW r \in Run, NEW n \in Positions(r)
  PROVE  Succ(r, n) \in Positions(r) \/ Succ(r, n) = <<Outer(r) + 1, 1>>
<1>1. Inner(r) \in Nat /\ Outer(r) \in Nat
  BY RunAssumption DEF Inner, Outer, TypeOK
<1> QED
  BY <1>1 DEF Succ, Positions

LEMMA RangeOfAppend ==
  ASSUME NEW S, NEW s \in Seq(S), NEW e \in S
  PROVE  Range(Append(s, e)) = Range(s) \cup {e}
<1>1. DOMAIN Append(s, e) = 1..(Len(s) + 1) /\ DOMAIN s = 1..Len(s)
  OBVIOUS
<1>2. \A i \in 1..Len(s) : Append(s, e)[i] = s[i]
  OBVIOUS
<1>3. Append(s, e)[Len(s) + 1] = e /\ Len(s) \in Nat
  OBVIOUS
<1>4. \A x : x \in Range(Append(s, e)) <=> x \in Range(s) \cup {e}
  BY <1>1, <1>2, <1>3 DEF Range
<1> QED
  BY <1>4

(* A run that a step does not touch keeps its invariant.                   *)
LEMMA OtherRun ==
  ASSUME NEW u \in Run, LoopInv(u),
         pc'[u] = pc[u], index'[u] = index[u], next'[u] = next[u],
         batch'[u] = batch[u], written'[u] = written[u], calls'[u] = calls[u],
         RowsOfRun(u)' = RowsOfRun(u), u \in runs' <=> u \in runs
  PROVE  LoopInv(u)'
<1>1. Outer(u)' = Outer(u) /\ Inner(u)' = Inner(u) /\ Scored(u)' = Scored(u)
  BY DEF Outer, Inner, Scored
<1>2. Positions(u)' = Positions(u) /\ \A p : CellAt(u, p)' = CellAt(u, p)
  BY <1>1 DEF Positions, CellAt
<1>3. Passed(u)' = Passed(u) /\ Pending(u)' = Pending(u)
  BY <1>2 DEF Passed, Pending
<1> QED
  BY <1>1, <1>2, <1>3 DEF LoopInv, IndexOnce, Untouched, InLoops, Exhausted,
     Collected, BatchOnce, PrefixOf, Recorded, Uplifted, Propagated

(* The invariant of all runs, and of the table they share.                 *)
RunInv ==
  /\ TypeOK
  /\ \A r \in Run : LoopInv(r)
  /\ OncePerCell

(* The steps of r leave the rows of the other runs alone.                  *)
LEMMA OthersKeep ==
  ASSUME RunInv, NEW r \in Run, Step(r) \/ Fail(r), NEW u \in Run \ {r}
  PROVE  LoopInv(u)'
<1> USE DEF RunInv, TypeOK
<1>1. RowsOfRun(u)' = RowsOfRun(u)
  <2>1. CASE scores' = scores
    BY <2>1 DEF RowsOfRun
  <2>2. CASE scores' = scores \cup RowsOf(r)
    BY <2>2 DEF RowsOfRun, RowsOf
  <2> QED
    BY <2>1, <2>2 DEF Step, RecordRun, LoadSegments, ScoreAll, Propagate, StartRows,
       PropagationRaises, AppendRow, InsertBatch, CommitBatch, Finish, Fail
<1>2. /\ pc'[u] = pc[u] /\ index'[u] = index[u] /\ next'[u] = next[u]
      /\ batch'[u] = batch[u] /\ written'[u] = written[u] /\ calls'[u] = calls[u]
      /\ u \in runs' <=> u \in runs
  BY DEF Step, RecordRun, LoadSegments, ScoreAll, Propagate, StartRows,
     PropagationRaises, AppendRow, InsertBatch, CommitBatch, Finish, Fail
<1> QED
  BY <1>1, <1>2, OtherRun

LEMMA RecordRunKeeps ==
  ASSUME RunInv, NEW r \in Run, RecordRun(r)
  PROVE  LoopInv(r)'
<1>1. /\ index'[r] = index[r] /\ next'[r] = next[r] /\ batch'[r] = batch[r]
      /\ written'[r] = written[r] /\ RowsOfRun(r)' = RowsOfRun(r)
      /\ pc[r] = "record" /\ pc'[r] = "load" /\ r \in runs'
  BY DEF RecordRun, RunInv, TypeOK, RowsOfRun
<1>2. Outer(r)' = Outer(r) /\ Inner(r)' = Inner(r) /\ Scored(r)' = Scored(r)
  BY <1>1 DEF Outer, Inner, Scored
<1>3. Positions(r)' = Positions(r) /\ \A p : CellAt(r, p)' = CellAt(r, p)
  BY <1>1, <1>2 DEF Positions, CellAt
<1>4. Passed(r)' = Passed(r) /\ Pending(r)' = Pending(r)
  BY <1>1, <1>3 DEF Passed, Pending
<1>5. Uplifted(r)'
  BY <1>1, <1>2 DEF RunInv, LoopInv, Untouched, Uplifted, Scored
<1> QED
  BY <1>1, <1>2, <1>3, <1>4, <1>5 DEF RunInv, LoopInv, IndexOnce, Untouched, InLoops,
     Exhausted, Collected, BatchOnce, PrefixOf, Recorded

LEMMA LoadSegmentsKeeps ==
  ASSUME RunInv, NEW r \in Run, LoadSegments(r)
  PROVE  LoopInv(r)'
<1>1. PICK s \in SetToSeqs(roads) : index' = [index EXCEPT ![r] = s]
  BY DEF LoadSegments
<1>2. /\ s \in Seq(roads) /\ \A i, j \in 1..Len(s) : s[i] = s[j] => i = j
  BY OrderOfSegments, FS_Subset, RunAssumption DEF RunInv, TypeOK
<1>3. /\ index'[r] = s /\ next'[r] = <<1, 1>> /\ batch'[r] = <<>>
      /\ RowsOfRun(r)' = {} /\ r \in runs' /\ written'[r] = 0
      /\ pc'[r] = IF r \in Streaming THEN "write" ELSE "score"
  BY <1>1 DEF LoadSegments, RunInv, TypeOK, LoopInv, Untouched, Recorded, RowsOfRun
<1>4. Scored(r)' = {} /\ Pending(r)' = {}
  BY <1>3 DEF Scored, Pending, Range
<1>5. Outer(r)' \in Nat /\ Inner(r)' \in Nat
      /\ (s # <<>> => Outer(r)' >= 1 /\ Inner(r)' >= 1)
  BY <1>2, <1>3, RunAssumption DEF Outer, Inner
<1>6. InLoops(r)'
  BY <1>3, <1>5 DEF InLoops, Exhausted, Positions
<1>7. \A q \in Positions(r)' : q[1] >= 1 /\ q[2] >= 1 /\ q[1] \in Nat /\ q[2] \in Nat
  BY <1>5 DEF Positions
<1>8. \A q \in Positions(r)' : ~Before(q, next[r])'
  BY <1>3, <1>7 DEF Before
<1>9. Passed(r)' = {}
  BY <1>8 DEF Passed
<1>10. IndexOnce(r)'
  BY <1>2, <1>3 DEF IndexOnce
<1>11. BatchOnce(r)'
  BY <1>3, <1>4 DEF BatchOnce
<1>12. Uplifted(r)'
  BY <1>3, <1>4 DEF Uplifted
<1> QED
  BY <1>3, <1>4, <1>6, <1>9, <1>10, <1>11, <1>12 DEF LoopInv, Untouched, Collected,
     PrefixOf, Recorded

(* Scoring and propagating leave the loops where they start.               *)
LEMMA PropagationKeeps ==
  ASSUME RunInv, NEW r \in Run,
         \/ ScoreAll(r) \/ \E h \in 1..Hours : Propagate(r, h)
         \/ StartRows(r) \/ PropagationRaises(r)
  PROVE  LoopInv(r)'
<1>1. /\ index' = index /\ next' = next /\ batch' = batch /\ runs' = runs
      /\ written' = written /\ scores' = scores /\ pc[r] \in {"score", "propagate"}
      /\ \/ pc'[r] \in {"propagate", "failed"}
         \/ pc'[r] = "write" /\ calls' = calls /\ Propagated(r)
  BY DEF ScoreAll, Propagate, StartRows, PropagationRaises, RunInv, TypeOK
<1>2. Outer(r)' = Outer(r) /\ Inner(r)' = Inner(r) /\ RowsOfRun(r)' = RowsOfRun(r)
  BY <1>1 DEF Outer, Inner, RowsOfRun
<1>3. Positions(r)' = Positions(r) /\ \A p : CellAt(r, p)' = CellAt(r, p)
  BY <1>1, <1>2 DEF Positions, CellAt
<1>4. Passed(r)' = Passed(r) /\ Pending(r)' = Pending(r) /\ Scored(r)' = Scored(r)
  BY <1>1, <1>2, <1>3 DEF Passed, Pending, Scored
<1>5. Scored(r) = {}
  BY <1>1 DEF RunInv, LoopInv, Untouched, Scored
<1>6. Uplifted(r)'
  BY <1>1, <1>4, <1>5 DEF Uplifted, Propagated
<1> QED
  BY <1>1, <1>2, <1>3, <1>4, <1>6 DEF RunInv, LoopInv, IndexOnce, Untouched, InLoops,
     Exhausted, Collected, BatchOnce, PrefixOf, Recorded

LEMMA AppendRowKeeps ==
  ASSUME RunInv, NEW r \in Run, AppendRow(r)
  PROVE  LoopInv(r)'
<1> DEFINE n == next[r]
           c == CellAt(r, n)
<1>1. /\ index' = index /\ pc' = pc /\ runs' = runs /\ scores' = scores
      /\ next'[r] = Succ(r, n) /\ batch'[r] = Append(batch[r], c)
      /\ pc[r] = "write" /\ n \in Positions(r)
  BY DEF AppendRow, RunInv, TypeOK, Exhausted
<1>2. Outer(r)' = Outer(r) /\ Inner(r)' = Inner(r) /\ Scored(r)' = Scored(r)
  BY <1>1 DEF Outer, Inner, Scored, RowsOfRun
<1>3. Positions(r)' = Positions(r) /\ \A p : CellAt(r, p)' = CellAt(r, p)
  BY <1>1, <1>2 DEF Positions, CellAt
<1>4. batch[r] \in Seq(Cell) /\ c \in Cell
  BY <1>1, CellType DEF RunInv, TypeOK
<1>5. Pending(r)' = Pending(r) \cup {c}
  BY <1>1, <1>4, RangeOfAppend DEF Pending
<1>6. Passed(r)' = Passed(r) \cup {c}
  <2>1. Passed(r)' = {CellAt(r, p) : p \in {q \in Positions(r) : Before(q, Succ(r, n))}}
    BY <1>1, <1>3 DEF Passed, Before
  <2>2. \A q \in Positions(r) : Before(q, Succ(r, n)) <=> Before(q, n) \/ q = n
    BY <1>1, SuccIsNext DEF RunInv
  <2> QED
    BY <1>1, <2>1, <2>2 DEF Passed
<1>7. c \notin Passed(r)
  <2> SUFFICES ASSUME NEW p \in Positions(r), Before(p, n), CellAt(r, p) = c
               PROVE  FALSE
    BY DEF Passed
  <2>1. p = n
    BY <1>1, CellsDiffer DEF RunInv, LoopInv
  <2> QED
    BY <1>1, <2>1 DEF Before, RunInv, TypeOK
<1>8. Collected(r)'
  BY <1>1, <1>2, <1>5, <1>6 DEF RunInv, LoopInv, Collected
<1>9. c \notin Scored(r) \cup Pending(r)
  BY <1>7 DEF RunInv, LoopInv, Collected
<1>10. BatchOnce(r)'
  <2>1. \A i \in 1..Len(batch[r]) : batch[r][i] # c
    BY <1>4, <1>9 DEF Pending, Range
  <2>2. \A i, j \in 1..Len(batch'[r]) : batch'[r][i] = batch'[r][j] => i = j
    BY <1>1, <1>4, <2>1 DEF RunInv, LoopInv, BatchOnce
  <2> QED
    BY <1>2, <1>5, <1>9, <2>2 DEF RunInv, LoopInv, BatchOnce
<1>11. InLoops(r)'
  BY <1>1, <1>2, <1>3, SuccInLoops DEF InLoops, Exhausted, RunInv
<1>12. PrefixOf(r)'
  BY <1>2, <1>3 DEF PrefixOf, RunInv, LoopInv, Before
<1>13. Uplifted(r)'
  BY <1>1, <1>2 DEF AppendRow, RunInv, LoopInv, Uplifted, Propagated
<1> QED
  BY <1>1, <1>8, <1>10, <1>11, <1>12, <1>13 DEF RunInv, LoopInv, IndexOnce, Untouched,
     Recorded

LEMMA CommitBatchKeeps ==
  ASSUME RunInv, NEW r \in Run, CommitBatch(r)
  PROVE  LoopInv(r)'
<1>1. /\ index' = index /\ next' = next /\ runs' = runs
      /\ batch'[r] = <<>> /\ pc[r] = "commit" /\ pc'[r] = "write"
      /\ scores' = scores \cup RowsOf(r)
  BY DEF CommitBatch, RunInv, TypeOK
<1>2. Outer(r)' = Outer(r) /\ Inner(r)' = Inner(r)
  BY <1>1 DEF Outer, Inner
<1>3. Positions(r)' = Positions(r) /\ \A p : CellAt(r, p)' = CellAt(r, p)
  BY <1>1, <1>2 DEF Positions, CellAt
<1>4. Passed(r)' = Passed(r) /\ Pending(r)' = {}
  BY <1>1, <1>3 DEF Passed, Pending, Range, Before
<1>5. Scored(r)' = Scored(r) \cup Pending(r)
  <2>1. RowsOfRun(r)' = RowsOfRun(r) \cup RowsOf(r)
    BY <1>1 DEF RowsOfRun, RowsOf
  <2>2. {x.cell : x \in RowsOf(r)} = Pending(r)
    <3>1. DOMAIN batch[r] = 1..Len(batch[r])
      BY DEF RunInv, TypeOK
    <3>2. Pending(r) = {batch[r][k] : k \in 1..Len(batch[r])}
      BY <3>1 DEF Pending, Range
    <3>3. ASSUME NEW x \in RowsOf(r) PROVE x.cell \in Pending(r)
      BY <3>2 DEF RowsOf
    <3>4. ASSUME NEW k \in 1..Len(batch[r])
          PROVE  \E x \in RowsOf(r) : x.cell = batch[r][k]
      <4> DEFINE row == [run |-> r, cell |-> batch[r][k], seq |-> written[r] + k,
                         inserted_at |-> begun[r]]
      <4>1. row \in RowsOf(r)
        BY DEF RowsOf
      <4>2. row.cell = batch[r][k]
        OBVIOUS
      <4> QED
        BY <4>1, <4>2
    <3> QED
      BY <3>2, <3>3, <3>4
  <2> QED
    BY <2>1, <2>2 DEF Scored
<1>6. Passed(r) = Scored(r)'
  BY <1>1, <1>5 DEF RunInv, LoopInv, Collected
<1>7. PrefixOf(r)'
  <2> SUFFICES ASSUME NEW p \in Positions(r), NEW q \in Positions(r),
                      Before(p, q), CellAt(r, q) \in Passed(r)
               PROVE  CellAt(r, p) \in Passed(r)
    BY <1>3, <1>6 DEF PrefixOf, Before
  <2>1. PICK m \in Positions(r) : Before(m, next[r]) /\ CellAt(r, q) = CellAt(r, m)
    BY DEF Passed
  <2>2. m = q
    BY <2>1, CellsDiffer DEF RunInv, LoopInv
  <2>3. /\ p[1] \in Nat /\ q[1] \in Nat /\ p[2] \in Nat /\ q[2] \in Nat
        /\ next[r][1] \in Nat /\ next[r][2] \in Nat
    BY RunAssumption DEF Positions, Outer, Inner, RunInv, TypeOK
  <2>4. Before(p, next[r])
    BY <2>1, <2>2, <2>3 DEF Before
  <2> QED
    BY <2>4 DEF Passed
<1>8. Uplifted(r)'
  BY <1>1 DEF CommitBatch, RunInv, LoopInv, Uplifted, Propagated
<1> QED
  BY <1>1, <1>2, <1>3, <1>4, <1>6, <1>7, <1>8 DEF RunInv, LoopInv, IndexOnce, Untouched,
     InLoops, Exhausted, Collected, BatchOnce, Recorded

(* InsertBatch, Finish and Fail move no row; Fail drops the batch.         *)
LEMMA QuietStepsKeep ==
  ASSUME RunInv, NEW r \in Run, InsertBatch(r) \/ Finish(r) \/ Fail(r)
  PROVE  LoopInv(r)'
<1>1. /\ index' = index /\ next' = next /\ runs' = runs /\ scores' = scores
      /\ \/ batch' = batch /\ pc[r] = "write" /\ pc'[r] \in {"commit", "done"}
         \/ batch'[r] = <<>> /\ pc'[r] = "failed"
  BY DEF InsertBatch, Finish, Fail, RunInv, TypeOK
<1>2. Outer(r)' = Outer(r) /\ Inner(r)' = Inner(r) /\ Scored(r)' = Scored(r)
  BY <1>1 DEF Outer, Inner, Scored, RowsOfRun
<1>3. Positions(r)' = Positions(r) /\ \A p : CellAt(r, p)' = CellAt(r, p)
  BY <1>1, <1>2 DEF Positions, CellAt
<1>4. Passed(r)' = Passed(r) /\ (Pending(r)' = Pending(r) \/ Pending(r)' = {})
  BY <1>1, <1>3 DEF Passed, Pending, Range, Before
<1>5. Uplifted(r)'
  BY <1>1, <1>2 DEF InsertBatch, Finish, Fail, RunInv, LoopInv, Uplifted, Propagated
<1>6. CASE batch' = batch /\ pc[r] = "write" /\ pc'[r] \in {"commit", "done"}
  <2>1. Pending(r)' = Pending(r)
    BY <1>6 DEF Pending
  <2> QED
    BY <1>1, <1>2, <1>3, <1>4, <1>5, <1>6, <2>1 DEF RunInv, LoopInv, IndexOnce, Untouched,
       InLoops, Exhausted, Collected, BatchOnce, PrefixOf, Recorded, Before
<1>7. CASE batch'[r] = <<>> /\ pc'[r] = "failed"
  <2>1. Pending(r)' = {}
    BY <1>7 DEF Pending, Range
  <2> QED
    BY <1>1, <1>2, <1>3, <1>4, <1>5, <1>7, <2>1 DEF RunInv, LoopInv, IndexOnce, Untouched,
       InLoops, Exhausted, Collected, BatchOnce, PrefixOf, Recorded, Before
<1> QED
  BY <1>1, <1>6, <1>7

(* The batch in memory repeats no committed row.                           *)
LEMMA NewRowsAreNew ==
  ASSUME RunInv, NEW r \in Run, NEW x \in RowsOf(r), NEW y \in scores
  PROVE  ~(x.run = y.run /\ x.cell = y.cell)
<1> SUFFICES ASSUME x.run = y.run, x.cell = y.cell PROVE FALSE
  OBVIOUS
<1>1. PICK k \in 1..Len(batch[r]) : x.cell = batch[r][k] /\ x.run = r
  BY DEF RowsOf
<1>2. x.cell \in Pending(r)
  BY <1>1 DEF Pending, Range, RunInv, TypeOK
<1>3. x.cell \in Scored(r)
  BY <1>1 DEF Scored, RowsOfRun
<1> QED
  BY <1>2, <1>3 DEF RunInv, LoopInv, BatchOnce

(* No committed row is repeated by a later batch or within one.            *)
LEMMA OnceStep ==
  ASSUME RunInv, [Next]_vars
  PROVE  OncePerCell'
<1>1. CASE scores' = scores
  BY <1>1 DEF RunInv, OncePerCell
<1>2. ASSUME NEW r \in Run, CommitBatch(r) PROVE OncePerCell'
  <2>1. scores' = scores \cup RowsOf(r)
    BY <1>2 DEF CommitBatch
  <2>2. \A x \in RowsOf(r) : \A y \in scores : ~(x.run = y.run /\ x.cell = y.cell)
    BY NewRowsAreNew
  <2>3. \A x, y \in RowsOf(r) : x.cell = y.cell => x = y
    BY DEF RowsOf, RunInv, LoopInv, BatchOnce
  <2> QED
    BY <2>1, <2>2, <2>3 DEF OncePerCell, RunInv
<1> QED
  BY <1>1, <1>2 DEF Next, Step, vars, RecordRun, LoadSegments, ScoreAll, Propagate,
     StartRows, PropagationRaises, AppendRow, InsertBatch, Finish, Fail, Ingest

LEMMA RunInit == Init => RunInv
<1> SUFFICES ASSUME Init PROVE RunInv
  OBVIOUS
<1> USE DEF Init
<1>1. TypeOK
  BY DEF TypeOK, Label
<1>2. ASSUME NEW r \in Run PROVE LoopInv(r)
  <2>1. RowsOfRun(r) = {} /\ Scored(r) = {} /\ Pending(r) = {}
    BY DEF RowsOfRun, Scored, Pending, Range
  <2>2. \A q \in Positions(r) : ~Before(q, next[r])
    BY RunAssumption DEF Positions, Outer, Inner, Before
  <2>3. Passed(r) = {}
    BY <2>2 DEF Passed
  <2> QED
    BY <2>1, <2>3 DEF LoopInv, IndexOnce, Untouched, InLoops, Collected, BatchOnce,
       PrefixOf, Recorded, Uplifted
<1> QED
  BY <1>1, <1>2 DEF RunInv, OncePerCell

LEMMA RunStep == RunInv /\ [Next]_vars => RunInv'
<1> SUFFICES ASSUME RunInv, [Next]_vars PROVE RunInv'
  OBVIOUS
<1>1. TypeOK'
  BY TypeStep DEF RunInv
<1>2. OncePerCell'
  BY OnceStep
<1>3. ASSUME NEW r \in Run, Step(r) \/ Fail(r), NEW u \in Run PROVE LoopInv(u)'
  <2>1. CASE u = r
    BY <1>3, <2>1, RecordRunKeeps, LoadSegmentsKeeps, PropagationKeeps,
       AppendRowKeeps, CommitBatchKeeps, QuietStepsKeep DEF Step
  <2> QED
    BY <1>3, <2>1, OthersKeep
<1>4. ASSUME UNCHANGED <<runs, scores, pc, index, calls, next, batch, begun, written>>,
             NEW u \in Run
      PROVE  LoopInv(u)'
  BY <1>4, OtherRun DEF RunInv, RowsOfRun
<1> QED
  BY <1>1, <1>2, <1>3, <1>4 DEF RunInv, Next, vars, Ingest

THEOREM RunInvariant == Spec => []RunInv
BY RunInit, RunStep, PTL DEF Spec

(* The tables and the state of every run keep their types.                 *)
THEOREM TypeCorrect == Spec => []TypeOK
BY RunInvariant, PTL DEF RunInv

(* No run ever scores a segment twice for an hour.                         *)
THEOREM ScoredOnce == Spec => []OncePerCell
BY RunInvariant, PTL DEF RunInv

(* What any run has committed is a prefix of its loop order.               *)
THEOREM PrefixCommitted == Spec => []CommittedPrefix
<1>1. RunInv => CommittedPrefix
  BY DEF RunInv, LoopInv, PrefixOf, Uplifted, CommittedPrefix
<1> QED
  BY RunInvariant, <1>1, PTL

-----------------------------------------------------------------------------
(* The counters: rows_written is the number of committed rows, and the     *)
(* loops' position tells how many rows have been built.                    *)
CountOK(r) ==
  /\ IsFiniteSet(RowsOfRun(r)) /\ written[r] = Cardinality(RowsOfRun(r))
  /\ next[r][1] >= 1 /\ next[r][2] >= 1
  /\ pc[r] # "failed" =>
       written[r] + Len(batch[r]) = (next[r][1] - 1) * Inner(r) + (next[r][2] - 1)
  /\ pc[r] = "done" => Exhausted(r) /\ batch[r] = <<>>

CountInv == RunInv /\ \A r \in Run : CountOK(r)

LEMMA UpToHasSize ==
  ASSUME NEW n \in Nat
  PROVE  IsFiniteSet(1..n) /\ Cardinality(1..n) = n
<1>1. IsFiniteSet(1..n) /\ Cardinality(1..n) = IF 1 > n THEN 0 ELSE n - 1 + 1
  BY FS_Interval
<1> QED
  BY <1>1

LEMMA DisjointUnion ==
  ASSUME NEW S, IsFiniteSet(S), NEW T, IsFiniteSet(T), S \cap T = {}
  PROVE  IsFiniteSet(S \cup T)
         /\ Cardinality(S \cup T) = Cardinality(S) + Cardinality(T)
<1>1. Cardinality(S) \in Nat /\ Cardinality(T) \in Nat
  BY FS_CardinalityType
<1>2. Cardinality(S \cap T) = 0
  BY FS_EmptySet
<1>3. IsFiniteSet(S \cup T)
      /\ Cardinality(S \cup T) = Cardinality(S) + Cardinality(T) - Cardinality(S \cap T)
  BY FS_Union
<1> QED
  BY <1>1, <1>2, <1>3

(* A flush adds as many rows as the batch has.                             *)
LEMMA FlushCounts ==
  ASSUME RunInv, NEW r \in Run
  PROVE  IsFiniteSet(RowsOf(r)) /\ Cardinality(RowsOf(r)) = Len(batch[r])
<1> DEFINE n == Len(batch[r])
           row(k) == [run |-> r, cell |-> batch[r][k], seq |-> written[r] + k,
                      inserted_at |-> begun[r]]
           M == [k \in 1..n |-> row(k)]
<1>1. n \in Nat /\ written[r] \in Nat
  BY DEF RunInv, TypeOK
<1>2. RowsOf(r) = {row(k) : k \in 1..n}
  BY DEF RowsOf
<1>3. \A i, j \in 1..n : row(i) = row(j) => i = j
  <2> SUFFICES ASSUME NEW i \in 1..n, NEW j \in 1..n, row(i) = row(j) PROVE i = j
    OBVIOUS
  <2>1. row(i).seq = written[r] + i /\ row(j).seq = written[r] + j
    OBVIOUS
  <2> QED
    BY <1>1, <2>1
<1> HIDE DEF row
<1>4. M \in Bijection(1..n, RowsOf(r))
  BY <1>2, <1>3 DEF Bijection, Injection, Surjection, IsInjective
<1>5. ExistsBijection(1..n, RowsOf(r))
  BY <1>4 DEF ExistsBijection
<1>6. IsFiniteSet(1..n) /\ Cardinality(1..n) = n
  BY <1>1, UpToHasSize
<1> QED
  BY <1>5, <1>6, FS_Bijection

(* One more row built is one position further.                             *)
LEMMA SuccCounts ==
  ASSUME NEW a \in Nat, NEW b \in Nat, NEW i \in Nat, b = i
  PROVE  (a - 1) * i + (b - 1) + 1 = (a + 1 - 1) * i + (1 - 1)
OBVIOUS

LEMMA CountStep == CountInv /\ [Next]_vars => CountInv'
<1> SUFFICES ASSUME CountInv, [Next]_vars PROVE \A u \in Run : CountOK(u)'
  BY RunStep DEF CountInv
<1> USE DEF CountInv
<1>1. ASSUME NEW u \in Run, pc'[u] = pc[u], index'[u] = index[u], next'[u] = next[u],
             batch'[u] = batch[u], written'[u] = written[u],
             RowsOfRun(u)' = RowsOfRun(u)
      PROVE  CountOK(u)'
  BY <1>1 DEF CountOK, Inner, Outer, Exhausted, Positions
<1>2. ASSUME NEW r \in Run, Step(r) \/ Fail(r), NEW u \in Run \ {r}
      PROVE  CountOK(u)'
  <2>1. RowsOfRun(u)' = RowsOfRun(u)
    <3>1. CASE scores' = scores
      BY <3>1 DEF RowsOfRun
    <3>2. CASE scores' = scores \cup RowsOf(r)
      BY <3>2 DEF RowsOfRun, RowsOf
    <3> QED
      BY <1>2, <3>1, <3>2 DEF Step, RecordRun, LoadSegments, ScoreAll, Propagate,
         StartRows, PropagationRaises, AppendRow, InsertBatch, CommitBatch, Finish, Fail
  <2> QED
    BY <1>1, <1>2, <2>1 DEF Step, RecordRun, LoadSegments, ScoreAll, Propagate,
       StartRows, PropagationRaises, AppendRow, InsertBatch, CommitBatch, Finish, Fail,
       RunInv, TypeOK
<1>3. ASSUME NEW r \in Run, RecordRun(r) PROVE CountOK(r)'
  BY <1>3 DEF RecordRun, CountOK, RunInv, TypeOK, RowsOfRun, Inner
<1>4. ASSUME NEW r \in Run, LoadSegments(r) PROVE CountOK(r)'
  <2>1. /\ next'[r] = <<1, 1>> /\ batch'[r] = <<>> /\ written'[r] = 0
        /\ written[r] = 0 /\ RowsOfRun(r)' = RowsOfRun(r)
        /\ pc'[r] \in {"write", "score"}
    BY <1>4 DEF LoadSegments, RunInv, TypeOK, LoopInv, Untouched, RowsOfRun
  <2>2. (Inner(r))' \in Nat
    BY RunStep, RunAssumption DEF Inner, RunInv, TypeOK
  <2> QED
    BY <2>1, <2>2 DEF CountOK
<1>5. ASSUME NEW r \in Run, AppendRow(r) PROVE CountOK(r)'
  <2>1. /\ next'[r] = Succ(r, next[r]) /\ next[r] \in Positions(r)
        /\ batch'[r] = Append(batch[r], CellAt(r, next[r]))
        /\ written'[r] = written[r] /\ pc'[r] = pc[r] /\ pc[r] = "write"
        /\ RowsOfRun(r)' = RowsOfRun(r) /\ Inner(r)' = Inner(r)
    BY <1>5 DEF AppendRow, Exhausted, RunInv, TypeOK, RowsOfRun, Inner
  <2>2. /\ Inner(r) \in Nat /\ next[r][1] \in Nat /\ next[r][2] \in 1..Inner(r)
        /\ next[r][1] >= 1
    BY <2>1, RunAssumption DEF Positions, Inner, Outer, RunInv, TypeOK
  <2>3. Len(batch'[r]) = Len(batch[r]) + 1 /\ Len(batch[r]) \in Nat /\ written[r] \in Nat
    BY <2>1, CellType DEF RunInv, TypeOK
  <2>4. (next'[r][1] - 1) * Inner(r) + (next'[r][2] - 1)
          = (next[r][1] - 1) * Inner(r) + (next[r][2] - 1) + 1
    <3>1. CASE next[r][2] < Inner(r)
      <4>1. next'[r][1] = next[r][1] /\ next'[r][2] = next[r][2] + 1
        BY <2>1, <3>1 DEF Succ
      <4> QED
        BY <2>2, <4>1
    <3>2. CASE ~(next[r][2] < Inner(r))
      <4>1. next'[r][1] = next[r][1] + 1 /\ next'[r][2] = 1 /\ next[r][2] = Inner(r)
        BY <2>1, <2>2, <3>2 DEF Succ
      <4> QED
        BY <2>2, <4>1, SuccCounts
    <3> QED
      BY <3>1, <3>2
  <2>5. next'[r][1] >= 1 /\ next'[r][2] >= 1
    BY <2>1, <2>2 DEF Succ
  <2>6. written'[r] + Len(batch'[r]) = written[r] + Len(batch[r]) + 1
    BY <2>1, <2>3
  <2>7. written[r] + Len(batch[r]) = (next[r][1] - 1) * Inner(r) + (next[r][2] - 1)
    BY <2>1 DEF CountOK
  <2> QED
    BY <2>1, <2>4, <2>5, <2>6, <2>7 DEF CountOK
<1>6. ASSUME NEW r \in Run, CommitBatch(r) PROVE CountOK(r)'
  <2>1. /\ next'[r] = next[r] /\ batch'[r] = <<>> /\ pc[r] = "commit" /\ pc'[r] = "write"
        /\ written'[r] = written[r] + Len(batch[r])
        /\ Inner(r)' = Inner(r)
    BY <1>6 DEF CommitBatch, RunInv, TypeOK, Inner
  <2>2. RowsOfRun(r)' = RowsOfRun(r) \cup RowsOf(r)
    BY <1>6 DEF CommitBatch, RowsOfRun, RowsOf
  <2>3. RowsOfRun(r) \cap RowsOf(r) = {}
    BY NewRowsAreNew DEF RowsOfRun
  <2>4. /\ IsFiniteSet(RowsOfRun(r)')
        /\ Cardinality(RowsOfRun(r)') = Cardinality(RowsOfRun(r)) + Len(batch[r])
    <3>1. IsFiniteSet(RowsOfRun(r))
      BY DEF CountOK
    <3>2. IsFiniteSet(RowsOf(r)) /\ Cardinality(RowsOf(r)) = Len(batch[r])
      BY FlushCounts
    <3> QED
      BY <2>2, <2>3, <3>1, <3>2, DisjointUnion
  <2>5. Len(batch[r]) \in Nat /\ written[r] \in Nat /\ Len(batch'[r]) = 0
    BY <2>1 DEF RunInv, TypeOK
  <2> QED
    BY <2>1, <2>4, <2>5 DEF CountOK
<1>7. ASSUME NEW r \in Run, InsertBatch(r) \/ Finish(r) \/ Fail(r) PROVE CountOK(r)'
  BY <1>7 DEF InsertBatch, Finish, Fail, CountOK, RunInv, TypeOK, RowsOfRun, Inner,
     Outer, Exhausted, Positions
<1>8. CASE UNCHANGED <<scores, pc, index, next, batch, written>>
  BY <1>1, <1>8 DEF RowsOfRun
<1>9. ASSUME NEW r \in Run,
             \/ ScoreAll(r) \/ \E h \in 1..Hours : Propagate(r, h)
             \/ StartRows(r) \/ PropagationRaises(r)
      PROVE  CountOK(r)'
  <2>1. /\ index' = index /\ next' = next /\ batch' = batch /\ written' = written
        /\ scores' = scores /\ pc[r] \in {"score", "propagate"} /\ pc'[r] # "done"
    BY <1>9 DEF ScoreAll, Propagate, StartRows, PropagationRaises, RunInv, TypeOK
  <2> QED
    BY <2>1 DEF CountOK, RowsOfRun, Inner
<1> QED
  BY <1>2, <1>3, <1>4, <1>5, <1>6, <1>7, <1>8, <1>9 DEF Next, Step, Ingest, vars

LEMMA CountInit == Init => CountInv
<1> SUFFICES ASSUME Init, NEW r \in Run PROVE CountOK(r)
  BY RunInit DEF CountInv
<1>1. RowsOfRun(r) = {}
  BY DEF Init, RowsOfRun
<1>2. Inner(r) \in Nat
  BY RunAssumption DEF Inner, Init
<1> QED
  BY <1>1, <1>2, FS_EmptySet DEF CountOK, Init

(* A run that returned its summary scored every segment it had read for    *)
(* every hour, and rows_written counts the rows.                           *)
THEOREM DoneRunsAreComplete == Spec => []DoneIsComplete
<1>1. CountInv => DoneIsComplete
  <2> SUFFICES ASSUME CountInv, NEW r \in Run, pc[r] = "done"
               PROVE  /\ Scored(r) = Range(index[r]) \X (1..Hours)
                      /\ written[r] = Cardinality(RowsOfRun(r))
                      /\ written[r] = Len(index[r]) * Hours
    BY DEF DoneIsComplete
  <2>1. /\ Exhausted(r) /\ batch[r] = <<>> /\ index[r] \in Seq(Segment)
        /\ next[r] \in Nat \X Nat /\ Hours \in Nat /\ Hours >= 1
        /\ written[r] \in Nat
    BY RunAssumption DEF CountInv, CountOK, RunInv, TypeOK
  <2>2. Scored(r) = Passed(r)
    <3>1. Pending(r) = {}
      BY <2>1 DEF Pending, Range
    <3> QED
      BY <3>1 DEF CountInv, RunInv, LoopInv, Collected
  <2>3. index[r] = <<>> \/ next[r] = <<Outer(r) + 1, 1>>
    BY <2>1 DEF CountInv, RunInv, LoopInv, InLoops
  <2>4. \A p \in Positions(r) : Before(p, next[r])
    BY <2>1, <2>3 DEF Positions, Outer, Inner, Before
  <2>5. Passed(r) = {CellAt(r, p) : p \in Positions(r)}
    BY <2>4 DEF Passed
  <2>6. {CellAt(r, p) : p \in Positions(r)} = Range(index[r]) \X (1..Hours)
    <3>1. DOMAIN index[r] = 1..Len(index[r])
      BY <2>1
    <3>2. ASSUME NEW i \in 1..Len(index[r]), NEW h \in 1..Hours
          PROVE  \E p \in Positions(r) : CellAt(r, p) = <<index[r][i], h>>
      <4>1. CASE r \in Streaming
        <5>1. <<i, h>> \in Positions(r) /\ CellAt(r, <<i, h>>) = <<index[r][i], h>>
          BY <4>1 DEF Positions, CellAt, Outer, Inner
        <5> QED
          BY <5>1
      <4>2. CASE r \notin Streaming
        <5>1. <<h, i>> \in Positions(r) /\ CellAt(r, <<h, i>>) = <<index[r][i], h>>
          BY <4>2 DEF Positions, CellAt, Outer, Inner
        <5> QED
          BY <5>1
      <4> QED
        BY <4>1, <4>2
    <3>3. ASSUME NEW p \in Positions(r)
          PROVE  CellAt(r, p) \in Range(index[r]) \X (1..Hours)
      BY <3>1 DEF Positions, CellAt, Outer, Inner, Range
    <3>4. Range(index[r]) = {index[r][i] : i \in 1..Len(index[r])}
      BY <3>1 DEF Range
    <3> QED
      BY <3>2, <3>3, <3>4
  <2>7. written[r] = (next[r][1] - 1) * Inner(r) + (next[r][2] - 1)
    BY <2>1 DEF CountInv, CountOK
  <2>8. written[r] = Len(index[r]) * Hours
    <3>1. CASE index[r] = <<>>
      <4>1. Positions(r) = {} /\ Len(index[r]) = 0
        BY <2>1, <3>1 DEF Positions, Outer, Inner
      <4>2. RowsOfRun(r) = {}
        BY <2>2, <2>5, <4>1 DEF Scored
      <4>3. written[r] = 0
        BY <4>2, FS_EmptySet DEF CountInv, CountOK
      <4> QED
        BY <2>1, <4>1, <4>3
    <3>2. CASE next[r] = <<Outer(r) + 1, 1>>
      BY <2>1, <2>7, <3>2 DEF Outer, Inner
    <3> QED
      BY <2>3, <3>1, <3>2
  <2> QED
    BY <2>2, <2>5, <2>6, <2>8 DEF CountInv, CountOK
<1> QED
  BY CountInit, CountStep, <1>1, PTL DEF Spec

-----------------------------------------------------------------------------
(* What is scored was read, and of a Phase 4 run what is before it in the  *)
(* order of the hours is scored too: in every reachable state, because the *)
(* committed cells are a prefix of the loop order.                         *)
LEMMA HoursInOrder == RunInv => Hourly!InOrder
<1> SUFFICES ASSUME RunInv, NEW x \in scores
             PROVE  /\ x.cell[1] \in Range(index[x.run]) /\ x.cell[2] \in 1..Hours
                    /\ x.run \in Streaming \/
                         \A g \in 1..Hours : g < x.cell[2] =>
                           \A s \in Range(index[x.run]) : Hourly!IsScored(x.run, s, g)
  BY DEF Hourly!InOrder, RunInv, TypeOK, Row
<1> DEFINE r == x.run
           m == Len(index[r])
<1>1. /\ r \in Run /\ index[r] \in Seq(Segment) /\ m \in Nat /\ DOMAIN index[r] = 1..m
      /\ Hours \in Nat
  BY RunAssumption DEF RunInv, TypeOK, Row
<1>2. x.cell \in Scored(r)
  BY DEF Scored, RowsOfRun
<1>3. PICK p \in Positions(r) : x.cell = CellAt(r, p)
  BY <1>1, <1>2 DEF RunInv, LoopInv, Collected, Passed
<1>4. CASE r \in Streaming
  <2>1. p[1] \in 1..m /\ p[2] \in 1..Hours /\ x.cell = <<index[r][p[1]], p[2]>>
    BY <1>1, <1>3, <1>4 DEF Positions, Outer, Inner, CellAt
  <2> QED
    BY <1>1, <1>4, <2>1 DEF Range
<1>5. CASE r \notin Streaming
  <2>1. p[1] \in 1..Hours /\ p[2] \in 1..m /\ x.cell = <<index[r][p[2]], p[1]>>
    BY <1>1, <1>3, <1>5 DEF Positions, Outer, Inner, CellAt
  <2>2. ASSUME NEW g \in 1..Hours, g < x.cell[2], NEW s \in Range(index[r])
        PROVE  Hourly!IsScored(r, s, g)
    <3>1. PICK j \in 1..m : s = index[r][j]
      BY <1>1 DEF Range
    <3>2. <<g, j>> \in Positions(r) /\ CellAt(r, <<g, j>>) = <<s, g>> /\ Before(<<g, j>>, p)
      BY <1>5, <2>1, <2>2, <3>1 DEF Positions, Outer, Inner, CellAt, Before
    <3>3. <<s, g>> \in Scored(r)
      BY <1>1, <1>2, <1>3, <3>2 DEF RunInv, LoopInv, PrefixOf
    <3> QED
      BY <3>3 DEF Scored, RowsOfRun, Hourly!IsScored
  <2> QED
    BY <1>1, <2>1, <2>2 DEF Range
<1> QED
  BY <1>4, <1>5

(* Every step of the runs is a step of the hour-by-hour ledger or leaves   *)
(* it as it is.                                                            *)
LEMMA HourlyStep ==
  ASSUME RunInv, RunInv', Hourly!InOrder', [Next]_vars
  PROVE  [Hourly!HourlyNext]_(Hourly!hvars)
<1> DEFINE closed == {r \in Run : pc[r] \in Ended}
           loaded == [r \in Run |-> Range(index[r])]
<1> USE DEF Ended
<1>1. ASSUME NEW r \in Run, RecordRun(r)
      PROVE  Hourly!Record(r) /\ loaded' = loaded
  BY <1>1 DEF RecordRun, Hourly!Record, RunInv, TypeOK, LoopInv, Recorded
<1>2. ASSUME NEW r \in Run, LoadSegments(r) PROVE Hourly!Load(r)
  <2>1. PICK s \in SetToSeqs(roads) : index' = [index EXCEPT ![r] = s]
    BY <1>2 DEF LoadSegments
  <2>2. Range(s) \in SUBSET Segment
    <3>1. IsFiniteSet(roads)
      BY FS_Subset, RunAssumption DEF RunInv, TypeOK
    <3>2. s \in Seq(roads) /\ roads \subseteq Segment
      BY <3>1, OrderOfSegments DEF RunInv, TypeOK
    <3> QED
      BY <3>2 DEF Range
  <2>3. loaded' = [loaded EXCEPT ![r] = Range(s)]
    BY <2>1 DEF RunInv, TypeOK
  <2>4. /\ r \in runs \ closed /\ runs' = runs /\ scores' = scores /\ closed' = closed
        /\ RowsOfRun(r) = {}
    BY <1>2 DEF LoadSegments, RunInv, TypeOK, LoopInv, Recorded, Untouched
  <2> HIDE DEF loaded
  <2>5. \E S \in SUBSET Segment : loaded' = [loaded EXCEPT ![r] = S]
    BY <2>2, <2>3
  <2>6. \A x \in scores : x.run # r
    BY <2>4 DEF RowsOfRun
  <2> QED
    BY <2>4, <2>5, <2>6 DEF Hourly!Load, Hourly!lvars, loaded
<1>3. ASSUME NEW r \in Run, CommitBatch(r) PROVE Hourly!Commit(r)
  <2>1. /\ closed' = closed /\ r \in runs \ closed /\ runs' = runs /\ loaded' = loaded
    BY <1>3 DEF CommitBatch, RunInv, TypeOK, LoopInv, Recorded
  <2>2. scores' = scores \cup RowsOf(r)
    BY <1>3 DEF CommitBatch
  <2>3. \A x \in scores' \ scores : x.run = r
    BY <2>2 DEF RowsOf
  <2>4. Hourly!Extend(r)
    BY <2>1, <2>2, <2>3 DEF Hourly!Extend, RunInv, OncePerCell
  <2> QED
    BY <2>1, <2>4 DEF Hourly!Commit
<1>4. ASSUME NEW r \in Run, PropagationRaises(r) \/ Finish(r) \/ Fail(r)
      PROVE  Hourly!Close(r) /\ loaded' = loaded
  <2>1. /\ pc[r] \notin Ended /\ runs' = runs /\ scores' = scores /\ index' = index
        /\ \E e \in Ended : pc' = [pc EXCEPT ![r] = e]
    BY <1>4 DEF PropagationRaises, Finish, Fail
  <2> QED
    BY <2>1 DEF Hourly!Close, RunInv, TypeOK
<1>5. ASSUME NEW r \in Run,
             \/ ScoreAll(r) \/ \E h \in 1..Hours : Propagate(r, h)
             \/ StartRows(r) \/ AppendRow(r) \/ InsertBatch(r)
      PROVE  UNCHANGED <<runs, scores, closed, loaded>>
  BY <1>5 DEF ScoreAll, Propagate, StartRows, AppendRow, InsertBatch, RunInv, TypeOK
<1>6. ASSUME NEW S \in SUBSET Segment, Ingest(S)
      PROVE  UNCHANGED <<runs, scores, closed, loaded>>
  BY <1>6 DEF Ingest
<1>7. CASE UNCHANGED vars
  BY <1>7 DEF vars, Hourly!hvars, Hourly!lvars
<1> QED
  BY <1>1, <1>2, <1>3, <1>4, <1>5, <1>6, <1>7 DEF Next, Step, Hourly!HourlyNext,
     Hourly!hvars, Hourly!lvars

(* scoring_runs and segment_scores are the hour-by-hour ledger that their  *)
(* readers take them for: a run reads its segments once, and no commit     *)
(* shows a row of an hour while a segment lacks an earlier one.            *)
THEOREM RunsKeepHourlyLedger == Spec => HourlySpec
<1>1. Init => Hourly!HourlyInit
  BY DEF Init, Hourly!HourlyInit, Hourly!LedgerInit, Ended, Range
<1>2. RunInv => Hourly!InOrder
  BY HoursInOrder
<1>3. RunInv /\ RunInv' /\ Hourly!InOrder' /\ [Next]_vars => [Hourly!HourlyNext]_(Hourly!hvars)
  BY HourlyStep
<1> QED
  BY <1>1, <1>2, <1>3, RunInvariant, PTL DEF Spec, HourlySpec, Hourly!HourlySpec

(* Seen without its order it is the append-only ledger: nothing committed  *)
(* is changed, removed or repeated, and nothing is added to an ended run.  *)
THEOREM RunsKeepLedger == Spec => Hourly!LedgerSpec
<1>1. Hourly!HourlyInit => Hourly!LedgerInit
  BY DEF Hourly!HourlyInit
<1>2. [Hourly!HourlyNext]_(Hourly!hvars) => [Hourly!LedgerNext]_(Hourly!lvars)
  BY DEF Hourly!HourlyNext, Hourly!hvars, Hourly!LedgerNext, Hourly!lvars, Hourly!Load,
     Hourly!Commit
<1> QED
  BY <1>1, <1>2, RunsKeepHourlyLedger, PTL DEF HourlySpec, Hourly!HourlySpec, Hourly!LedgerSpec
=============================================================================
