---------------------------- MODULE Readers_proofs ----------------------------
(***************************************************************************)
(* What the API and the tiles show, for every number of runs, clients,     *)
(* segments and cities, every page size and every sequence of hours.       *)
(*                                                                         *)
(* The pair two runs have scored only grows, and stands still once both    *)
(* have ended: the total a client was told is at most the pair its page is *)
(* read from, and an answer about two ended runs is what the same request  *)
(* returns for ever.  The rank of a segment in a finite set of them is a   *)
(* bijection onto 1 .. Cardinality, so a page of ORDER BY, LIMIT and       *)
(* OFFSET is full or the last one, and the first page is the whole pair if *)
(* and only if the total fits on it.                                       *)
(*                                                                         *)
(* The second half is about the operators of RiskRows and ShownRisk: what  *)
(* a row of the store says, for every city, imagery and history, and what  *)
(* the routes make of it.                                                  *)
(***************************************************************************)
EXTENDS Readers, ShownRisk, FiniteSetTheorems, WellFoundedInduction, TLAPS

Asked == {"metadata", "count", "page", "answered"}

Pair(x) == PairAtHour(x.city, x.a, x.b)
UpTo(x, n) == {s \in Pair(x) : Rank(Pair(x), s) <= n}
PageRows(x) == PageOf(x.city, x.a, x.b, x.page)

Final(x) ==
  /\ {x.a, x.b} \subseteq closed
  /\ x.pc \in {"page", "answered"} => x.total = Cardinality(Pair(x))
  /\ x.pc = "answered" => x.got = PageRows(x)

Good(x) ==
  /\ x \in Request /\ x.pc # "error" /\ x.page # 0
  /\ x.pc \in Asked => RunsExist(x.city, x.a, x.b)
  /\ x.pc \in {"page", "answered"} => x.total <= Cardinality(Pair(x))
  /\ x.pc = "answered" => x.got \subseteq Pair(x)
  /\ x.pc = "answered" /\ Cardinality(x.got) < PageSize =>
       x.total <= (x.page - 1) * PageSize + Cardinality(x.got)
  /\ x.final => Final(x)

TablesOK ==
  /\ recorded \subseteq Run
  /\ ledger \subseteq ScoreRow
  /\ closed \subseteq Run
  /\ roads \in [Segment -> City \cup {NoCity}]
  /\ started \subseteq Run
  /\ loaded \in [Run -> SUBSET Segment]

ReadersInv ==
  /\ TablesOK
  /\ req \in [Client -> Request]
  /\ \A q \in Client : Good(req[q])

-----------------------------------------------------------------------------
(* A set of segments is finite, and ranks lie between 1 and its size.      *)
LEMMA RankType ==
  ASSUME NEW S \in SUBSET Segment
  PROVE  /\ IsFiniteSet(S) /\ Cardinality(S) \in Nat
         /\ \A s \in S : Rank(S, s) \in 1..Cardinality(S)
<1>1. IsFiniteSet(S) /\ Cardinality(S) \in Nat
  BY ReadersAssumption, FS_Subset, FS_CardinalityType
<1>2. ASSUME NEW s \in S PROVE Rank(S, s) \in 1..Cardinality(S)
  <2> DEFINE T == {u \in S : u <= s}
  <2>1. IsFiniteSet(T) /\ Cardinality(T) \in Nat /\ Cardinality(T) <= Cardinality(S)
    BY <1>1, FS_Subset, FS_CardinalityType
  <2>2. s \in T
    BY ReadersAssumption
  <2>3. Cardinality(T) # 0
    BY <2>1, <2>2, FS_EmptySet
  <2> QED
    BY <1>1, <2>1, <2>3 DEF Rank
<1> QED
  BY <1>1, <1>2

(* A greater segment has a greater rank.                                   *)
LEMMA RankGrows ==
  ASSUME NEW S \in SUBSET Segment, NEW s \in S, NEW u \in S, s < u
  PROVE  Rank(S, s) < Rank(S, u)
<1> DEFINE A == {v \in S : v <= s}
           B == {v \in S : v <= u}
<1>1. s \in Nat /\ u \in Nat /\ \A v \in S : v \in Nat
  BY ReadersAssumption
<1>2. A \subseteq B /\ u \in B /\ u \notin A
  <2>1. \A v \in S : v <= s => v <= u
    BY <1>1
  <2>2. u <= u /\ ~(u <= s)
    BY <1>1
  <2> QED
    BY <2>1, <2>2
<1>3. IsFiniteSet(B) /\ Cardinality(B) \in Nat
  BY RankType, FS_Subset, FS_CardinalityType
<1>4. Cardinality(A) <= Cardinality(B) /\ (Cardinality(B) = Cardinality(A) => B = A)
  BY <1>2, <1>3, FS_Subset
<1>5. Cardinality(A) \in Nat
  BY <1>2, <1>3, FS_Subset, FS_CardinalityType
<1> QED
  BY <1>2, <1>3, <1>4, <1>5 DEF Rank

(* Every rank is the rank of one segment.                                  *)
LEMMA RankOnto ==
  ASSUME NEW S \in SUBSET Segment, NEW n \in 1..Cardinality(S)
  PROVE  \E s \in S : Rank(S, s) = n
<1> DEFINE f == [s \in S |-> Rank(S, s)]
           T == 1..Cardinality(S)
<1>1. IsFiniteSet(S) /\ Cardinality(S) \in Nat /\ f \in [S -> T]
  BY RankType
<1>2. ASSUME NEW s \in S, NEW u \in S, f[s] = f[u] PROVE s = u
  <2>1. s \in Nat /\ u \in Nat /\ Rank(S, s) \in Nat /\ Rank(S, u) \in Nat
    BY ReadersAssumption, RankType
  <2>2. ~(s < u) /\ ~(u < s)
    BY <1>2, <2>1, RankGrows
  <2> QED
    BY <2>1, <2>2
<1>3. IsFiniteSet(T) /\ Cardinality(T) = Cardinality(S)
  BY <1>1, FS_Interval
<1>4. f \in Injection(S, T)
  BY <1>1, <1>2 DEF Injection, IsInjective
<1>5. f \in Surjection(S, T)
  BY <1>3, <1>4, FS_Injection
<1> QED
  BY <1>5 DEF Surjection

(* The first n segments of a set in its order: all of them, or n.          *)
LEMMA FirstRanks ==
  ASSUME NEW S \in SUBSET Segment, NEW n \in Nat
  PROVE  LET P == {s \in S : Rank(S, s) <= n}
         IN  /\ IsFiniteSet(P)
             /\ n <= Cardinality(S) => Cardinality(P) = n
             /\ Cardinality(S) <= n => P = S
<1> DEFINE P == {s \in S : Rank(S, s) <= n}
           f == [s \in P |-> Rank(S, s)]
<1>1. /\ IsFiniteSet(S) /\ Cardinality(S) \in Nat
      /\ \A s \in S : Rank(S, s) \in 1..Cardinality(S)
  BY RankType
<1>2. IsFiniteSet(P)
  BY <1>1, FS_Subset
<1>3. Cardinality(S) <= n => P = S
  BY <1>1
<1>4. ASSUME n <= Cardinality(S) PROVE Cardinality(P) = n
  <2>1. f \in [P -> 1..n]
    BY <1>1
  <2>2. ASSUME NEW s \in P, NEW u \in P, f[s] = f[u] PROVE s = u
    <3>1. s \in Nat /\ u \in Nat /\ Rank(S, s) \in Nat /\ Rank(S, u) \in Nat
      BY <1>1, ReadersAssumption
    <3>2. ~(s < u) /\ ~(u < s)
      BY <2>2, <3>1, RankGrows
    <3> QED
      BY <3>1, <3>2
  <2>3. ASSUME NEW k \in 1..n PROVE \E s \in P : f[s] = k
    <3>1. k \in 1..Cardinality(S) /\ k <= n
      BY <1>1, <1>4
    <3>2. PICK s \in S : Rank(S, s) = k
      BY <3>1, RankOnto
    <3> QED
      BY <3>1, <3>2
  <2> HIDE DEF f
  <2>4. f \in Injection(P, 1..n)
    BY <2>1, <2>2 DEF Injection, IsInjective
  <2>5. f \in Surjection(P, 1..n)
    BY <2>1, <2>3 DEF Surjection
  <2>6. IsFiniteSet(1..n) /\ Cardinality(1..n) = n
    BY FS_Interval
  <2> QED
    BY <2>4, <2>5, <2>6, FS_Injection
<1> QED
  BY <1>2, <1>3, <1>4

(* Pages are adjacent.                                                     *)
LEMMA PageBounds ==
  ASSUME NEW p \in Nat, p # 0
  PROVE  /\ p * PageSize \in Nat /\ (p - 1) * PageSize \in Nat
         /\ p * PageSize = (p - 1) * PageSize + PageSize
         /\ PageSize \in Nat \ {0}
  BY ReadersAssumption

(* A page is what lies between two bounds; if it is not full the set ends  *)
(* with it.  The first page is all of the set exactly if the set fits.     *)
LEMMA PageOfPair ==
  ASSUME NEW x \in Request, x.page # 0
  PROVE  LET S == Pair(x)
             rows == PageRows(x)
         IN  /\ S \in SUBSET Segment /\ rows \subseteq S /\ IsFiniteSet(S)
             /\ Cardinality(rows) \in Nat /\ Cardinality(S) \in Nat
             /\ Cardinality(rows) < PageSize =>
                  Cardinality(S) <= (x.page - 1) * PageSize + Cardinality(rows)
             /\ x.page = 1 => (rows = S <=> Cardinality(S) <= PageSize)
<1> DEFINE S == Pair(x)
           rows == PageRows(x)
           m == (x.page - 1) * PageSize
           n == x.page * PageSize
           below == UpTo(x, m)
           upto == UpTo(x, n)
<1>1. m \in Nat /\ n \in Nat /\ n = m + PageSize /\ PageSize \in Nat \ {0}
  BY PageBounds DEF Request
<1>2. S \in SUBSET Segment
  BY DEF Pair, PairAtHour, ScoredAt
<1>3. /\ IsFiniteSet(S) /\ Cardinality(S) \in Nat
      /\ \A s \in S : Rank(S, s) \in Nat
  BY <1>2, RankType
<1>4. rows = {s \in S : m < Rank(S, s) /\ Rank(S, s) <= n}
  BY DEF PageRows, PageOf, Pair
<1>5. below = {s \in S : Rank(S, s) <= m} /\ upto = {s \in S : Rank(S, s) <= n}
  BY DEF UpTo
<1> HIDE DEF S, rows, m, n, below, upto
<1>6. /\ rows \subseteq S /\ below \subseteq S /\ upto \subseteq S
      /\ below \cup rows = upto /\ below \cap rows = {}
  BY <1>1, <1>3, <1>4, <1>5
<1>7. /\ IsFiniteSet(rows) /\ IsFiniteSet(below)
      /\ Cardinality(rows) \in Nat /\ Cardinality(below) \in Nat
  BY <1>3, <1>6, FS_Subset, FS_CardinalityType
<1>8. Cardinality(below \cup rows) = Cardinality(below) + Cardinality(rows)
  <2>1. Cardinality(below \cap rows) = 0
    BY <1>6, FS_EmptySet
  <2>2. Cardinality(below \cup rows)
          = Cardinality(below) + Cardinality(rows) - Cardinality(below \cap rows)
    BY <1>7, FS_Union
  <2> QED
    BY <1>7, <2>1, <2>2
<1>9. ASSUME Cardinality(rows) < PageSize
      PROVE  Cardinality(S) <= m + Cardinality(rows)
  <2>1. Cardinality(S) <= m \/ m <= Cardinality(S)
    BY <1>1, <1>3
  <2>2. CASE Cardinality(S) <= m
    BY <1>1, <1>3, <1>7, <2>2
  <2>3. CASE m <= Cardinality(S)
    <3>1. Cardinality(below) = m
      BY <1>1, <1>2, <1>5, <2>3, FirstRanks
    <3>2. n <= Cardinality(S) => Cardinality(upto) = n
      BY <1>1, <1>2, <1>5, FirstRanks
    <3>3. Cardinality(S) <= n => upto = S
      BY <1>1, <1>2, <1>5, FirstRanks
    <3> QED
      BY <1>1, <1>3, <1>6, <1>7, <1>8, <1>9, <3>1, <3>2, <3>3
  <2> QED
    BY <2>1, <2>2, <2>3
<1>10. ASSUME x.page = 1 PROVE rows = S <=> Cardinality(S) <= PageSize
  <2>1. m = 0 /\ n = PageSize
    <3>1. 0 * PageSize = 0 /\ 1 * PageSize = PageSize
      BY <1>1
    <3> QED
      BY <1>10, <3>1 DEF m, n
  <2>2. rows = {s \in S : Rank(S, s) <= PageSize}
    <3>1. \A s \in S : Rank(S, s) \in 1..Cardinality(S)
      BY <1>2, RankType
    <3> QED
      BY <1>3, <1>4, <2>1, <3>1
  <2>3. /\ PageSize <= Cardinality(S) => Cardinality(rows) = PageSize
        /\ Cardinality(S) <= PageSize => rows = S
    BY <1>1, <1>2, <2>2, FirstRanks
  <2> QED
    BY <1>1, <1>3, <2>3
<1> QED
  BY <1>2, <1>3, <1>6, <1>7, <1>9, <1>10 DEF S, rows, m, n

(* A pair of runs has more segments the more is recorded and written, and  *)
(* stays what it is if nothing of its runs is.                             *)
LEMMA PairGrows ==
  ASSUME NEW c, NEW a, NEW b, ledger \subseteq ledger', recorded \subseteq recorded'
  PROVE  /\ PairAtHour(c, a, b) \subseteq PairAtHour(c, a, b)'
         /\ RunsExist(c, a, b) => RunsExist(c, a, b)'
         /\ PairAtHour(c, a, b)' \subseteq Segment
  BY DEF PairAtHour, RunsExist, ListRuns, ScoredAt, Row

LEMMA PairStays ==
  ASSUME NEW c, NEW a, NEW b,
         ledger \subseteq ledger', \A x \in ledger' \ ledger : x.run \notin {a, b},
         recorded \subseteq recorded', (recorded' \ recorded) \cap {a, b} = {}
  PROVE  PairAtHour(c, a, b)' = PairAtHour(c, a, b)
<1>1. ScoredAt(a, TargetHour)' = ScoredAt(a, TargetHour)
      /\ ScoredAt(b, TargetHour)' = ScoredAt(b, TargetHour)
  BY DEF ScoredAt, Row
<1>2. RunsExist(c, a, b)' = RunsExist(c, a, b)
  BY DEF RunsExist, ListRuns
<1> QED
  BY <1>1, <1>2 DEF PairAtHour

(* A step that only writes tables, to runs that have not ended.            *)
LEMMA WriteKeeps ==
  ASSUME ReadersInv, TablesOK', UNCHANGED req,
         ledger \subseteq ledger', \A x \in ledger' \ ledger : x.run \notin closed,
         recorded \subseteq recorded', (recorded' \ recorded) \cap closed = {},
         closed \subseteq closed'
  PROVE  ReadersInv'
<1>1. ASSUME NEW q \in Client PROVE Good(req[q])'
  <2> DEFINE x == req[q]
  <2>1. x' = x /\ Good(x)
    BY <1>1 DEF ReadersInv
  <2>2. /\ Pair(x) \subseteq Pair(x)' /\ Pair(x)' \subseteq Segment
        /\ RunsExist(x.city, x.a, x.b) => RunsExist(x.city, x.a, x.b)'
    BY <2>1, PairGrows DEF Pair
  <2>3. /\ Cardinality(Pair(x)) <= Cardinality(Pair(x)')
        /\ Cardinality(Pair(x)) \in Nat /\ Cardinality(Pair(x)') \in Nat
    BY <2>2, RankType, FS_Subset
  <2>4. x.final => Final(x)'
    <3>1. SUFFICES ASSUME x.final PROVE Final(x)'
      BY <2>1
    <3>2. {x.a, x.b} \subseteq closed
      BY <2>1, <3>1 DEF Good, Final
    <3>3. Pair(x)' = Pair(x)
      BY <2>1, <3>2, PairStays DEF Pair
    <3>4. PageRows(x)' = PageRows(x)
      BY <2>1, <3>3 DEF PageRows, PageOf, Pair, Rank
    <3> QED
      BY <2>1, <3>1, <3>2, <3>3, <3>4 DEF Good, Final
  <2> QED
    BY <2>1, <2>2, <2>3, <2>4 DEF Good, Request
<1> QED
  BY <1>1 DEF ReadersInv

(* A step of one request.                                                  *)
LEMMA ServeKeeps ==
  ASSUME ReadersInv, UNCHANGED Tables, NEW q \in Client, NEW x,
         req' = [req EXCEPT ![q] = x], Good(x)
  PROVE  ReadersInv'
<1>1. \A c, a, b : /\ PairAtHour(c, a, b)' = PairAtHour(c, a, b)
                   /\ RunsExist(c, a, b)' <=> RunsExist(c, a, b)
  BY DEF Tables, PairAtHour, RunsExist, ListRuns, ScoredAt
<1>2. TablesOK'
  BY DEF ReadersInv, TablesOK, Tables
<1>3. x \in Request
  BY DEF Good
<1>4. req' \in [Client -> Request] /\ \A p \in Client : req'[p] = IF p = q THEN x ELSE req[p]
  BY <1>3 DEF ReadersInv
<1>5. ASSUME NEW p \in Client PROVE Good(req[p])'
  <2>1. PICK y : y = req'[p]
    OBVIOUS
  <2>2. Good(y)
    BY <1>4, <2>1 DEF ReadersInv
  <2>3. Pair(y)' = Pair(y) /\ (RunsExist(y.city, y.a, y.b)' <=> RunsExist(y.city, y.a, y.b))
    BY <1>1 DEF Pair
  <2>4. PageRows(y)' = PageRows(y)
    BY <2>3 DEF PageRows, PageOf, Pair, Rank
  <2>5. Final(y) => Final(y)'
    BY <2>3, <2>4 DEF Final, Tables
  <2>6. Good(y)'
    BY <2>2, <2>3, <2>5 DEF Good
  <2> QED
    BY <2>1, <2>6 DEF Good, Final, Pair, PageRows
<1> QED
  BY <1>2, <1>4, <1>5 DEF ReadersInv

-----------------------------------------------------------------------------
LEMMA ReadersInit == Init => ReadersInv
<1> SUFFICES ASSUME Init PROVE ReadersInv
  OBVIOUS
<1>1. Idle \in Request
  BY DEF Idle, Request, Label
<1>2. Good(Idle)
  BY <1>1 DEF Good, Idle, Asked
<1> QED
  BY <1>1, <1>2 DEF Init, LedgerInit, ReadersInv, TablesOK

(* The writers: rows are added to runs that have not ended.                *)
LEMMA WritersKeep ==
  ASSUME ReadersInv, NEW r \in Run, Write(r)
  PROVE  ReadersInv'
<1>1. TablesOK /\ UNCHANGED req
  BY DEF ReadersInv, Write, RecordRun, LoadSegments, EndRun, CommitScores
<1>2. CASE RecordRun(r)
  <2>1. TablesOK' /\ ledger' = ledger /\ closed' = closed /\ recorded' = recorded \cup {r} /\ r \notin closed
    BY <1>1, <1>2 DEF RecordRun, Record, TablesOK
  <2> QED
    BY <1>1, <2>1, WriteKeeps
<1>3. CASE LoadSegments(r)
  <2>1. /\ roads' = roads /\ started' = started \cup {r}
        /\ recorded' = recorded /\ ledger' = ledger /\ closed' = closed
        /\ loaded' = [loaded EXCEPT ![r] = {s \in Segment : roads[s] = CityOf[r]}]
    BY <1>3 DEF LoadSegments, lvars
  <2>2. loaded' \in [Run -> SUBSET Segment]
    <3> DEFINE S == {s \in Segment : roads[s] = CityOf[r]}
    <3>1. S \in SUBSET Segment
      OBVIOUS
    <3> HIDE DEF S
    <3> QED
      BY <1>1, <2>1, <3>1 DEF TablesOK, S
  <2>3. TablesOK'
    BY <1>1, <2>1, <2>2 DEF TablesOK
  <2> QED
    BY <1>1, <2>1, <2>3, WriteKeeps
<1>4. CASE EndRun(r)
  <2>1. TablesOK' /\ ledger' = ledger /\ recorded' = recorded /\ closed' = closed \cup {r}
    BY <1>1, <1>4 DEF EndRun, Close, TablesOK
  <2> QED
    BY <1>1, <2>1, WriteKeeps
<1>5. ASSUME NEW S \in SUBSET Unscored(r), CommitScores(r, S)
      PROVE  ReadersInv'
  <2>1. /\ ledger' = ledger \cup {Row(r, k[1], k[2]) : k \in S}
        /\ r \notin closed /\ UNCHANGED <<recorded, closed, roads, started, loaded>>
    BY <1>5 DEF CommitScores, Hourly!Commit, Hourly!Extend
  <2>2. \A k \in S : Row(r, k[1], k[2]) \in ScoreRow /\ Row(r, k[1], k[2]).run = r
    BY <1>1 DEF TablesOK, Row, ScoreRow, Sampled, Unscored
  <2>3. TablesOK'
    BY <1>1, <2>1, <2>2 DEF TablesOK
  <2>4. ledger \subseteq ledger' /\ \A x \in ledger' \ ledger : x.run \notin closed
    BY <2>1, <2>2
  <2> QED
    BY <1>1, <2>1, <2>3, <2>4, WriteKeeps
<1> QED
  BY <1>2, <1>3, <1>4, <1>5 DEF Write

LEMMA IngestionKeeps ==
  ASSUME ReadersInv, NEW c \in City, NEW S, IngestCity(c, S)
  PROVE  ReadersInv'
<1>1. UNCHANGED <<recorded, ledger, closed, started, loaded, req>> /\ TablesOK
  BY DEF IngestCity, lvars, ReadersInv
<1>2. roads' \in [Segment -> City \cup {NoCity}]
  BY <1>1 DEF IngestCity, TablesOK
<1>3. TablesOK'
  BY <1>1, <1>2 DEF TablesOK
<1> QED
  BY <1>1, <1>3, WriteKeeps

(* A new request knows whether its runs had ended.                         *)
LEMMA AskKeeps ==
  ASSUME ReadersInv, NEW q \in Client, NEW c \in City, NEW a \in Run, NEW b \in Run,
         NEW p \in Pages, Ask(q, c, a, b, p)
  PROVE  ReadersInv'
<1>1. PICK x : x = [Idle EXCEPT !.pc = "runs", !.city = c, !.a = a, !.b = b, !.page = p,
                                !.final = {a, b} \subseteq closed]
  OBVIOUS
<1>2. req' = [req EXCEPT ![q] = x] /\ UNCHANGED Tables
  BY <1>1 DEF Ask
<1>3. /\ x.pc = "runs" /\ x.page = p /\ x.a = a /\ x.b = b
      /\ x.final = ({a, b} \subseteq closed)
  BY <1>1 DEF Idle
<1>4. p \in Nat /\ p # 0
  BY ReadersAssumption
<1>5. x \in Request
  BY <1>1, <1>4 DEF Idle, Request, Label
<1>6. Good(x)
  BY <1>3, <1>4, <1>5 DEF Good, Final, Asked
<1> QED
  BY <1>2, <1>6, ServeKeeps

(* The statements of the route, one after the other.                       *)
LEMMA ServeStepKeeps ==
  ASSUME ReadersInv, NEW q \in Client, Serve(q)
  PROVE  ReadersInv'
<1>1. PICK x : x = req[q]
  OBVIOUS
<1>2. /\ Good(x) /\ x \in Request /\ UNCHANGED Tables
      /\ x.page \in Nat /\ x.total \in Nat /\ x.got \in SUBSET Segment
  BY <1>1 DEF ReadersInv, Good, Request, Serve, CheckRuns, FetchMetadata, CountPairs, FetchPage
<1>3. Pair(x) \in SUBSET Segment /\ Cardinality(Pair(x)) \in Nat
  BY RankType DEF Pair, PairAtHour, ScoredAt
<1>4. ASSUME CheckRuns(q) \/ FetchMetadata(q) PROVE ReadersInv'
  <2>1. PICK l : l = IF x.pc = "runs"
                     THEN IF RunsExist(x.city, x.a, x.b) THEN "metadata" ELSE "not_found"
                     ELSE "count"
    OBVIOUS
  <2>2. /\ req' = [req EXCEPT ![q].pc = l] /\ x.pc \in {"runs", "metadata"}
        /\ l \in {"metadata", "count", "not_found"}
        /\ l # "not_found" => RunsExist(x.city, x.a, x.b)
    BY <1>1, <1>2, <1>4, <2>1 DEF CheckRuns, FetchMetadata, Good, Asked, RunsExist
  <2>3. PICK y : y = [x EXCEPT !.pc = l]
    OBVIOUS
  <2>4. /\ y \in Request /\ y.pc = l /\ req' = [req EXCEPT ![q] = y]
        /\ y.city = x.city /\ y.a = x.a /\ y.b = x.b /\ y.page = x.page /\ y.got = x.got
        /\ y.final = x.final
    BY <1>1, <1>2, <2>2, <2>3 DEF Request, Label
  <2>5. x.final => Final(y)
    BY <1>2, <2>2, <2>4 DEF Good, Final
  <2>6. Good(y)
    BY <1>2, <2>2, <2>4, <2>5 DEF Good, Asked
  <2> QED
    BY <1>2, <2>4, <2>6, ServeKeeps
<1>5. ASSUME CountPairs(q) PROVE ReadersInv'
  <2>1. PICK y : y = [x EXCEPT !.pc = "page", !.total = Cardinality(Pair(x))]
    OBVIOUS
  <2>2. x.pc = "count" /\ req' = [req EXCEPT ![q] = y]
    BY <1>1, <1>5, <2>1 DEF CountPairs, Pair
  <2>3. /\ y \in Request /\ y.pc = "page" /\ y.total = Cardinality(Pair(x))
        /\ y.city = x.city /\ y.a = x.a /\ y.b = x.b /\ y.page = x.page /\ y.got = x.got
        /\ y.final = x.final
    BY <1>2, <1>3, <2>1 DEF Request, Label
  <2>4. x.final => Final(y)
    BY <1>2, <2>2, <2>3 DEF Good, Final, Pair
  <2>5. Good(y)
    BY <1>2, <1>3, <2>2, <2>3, <2>4 DEF Good, Asked, Pair
  <2> QED
    BY <1>2, <2>2, <2>5, ServeKeeps
<1>6. ASSUME FetchPage(q) PROVE ReadersInv'
  <2>1. PICK y : y = [x EXCEPT !.pc = "answered", !.got = PageRows(x)]
    OBVIOUS
  <2>2. x.pc = "page" /\ req' = [req EXCEPT ![q] = y]
    BY <1>1, <1>6, <2>1 DEF FetchPage, PageRows
  <2>3. x.page # 0 /\ x.total <= Cardinality(Pair(x)) /\ RunsExist(x.city, x.a, x.b)
        /\ (x.final => Final(x))
    BY <1>2, <2>2 DEF Good, Asked
  <2>4. /\ PageRows(x) \subseteq Pair(x) /\ Cardinality(PageRows(x)) \in Nat
        /\ Cardinality(PageRows(x)) < PageSize =>
             Cardinality(Pair(x)) <= (x.page - 1) * PageSize + Cardinality(PageRows(x))
    BY <1>2, <2>3, PageOfPair
  <2>5. /\ y \in Request /\ y.pc = "answered" /\ y.got = PageRows(x)
        /\ y.city = x.city /\ y.a = x.a /\ y.b = x.b /\ y.page = x.page
        /\ y.total = x.total /\ y.final = x.final
    BY <1>2, <1>3, <2>1, <2>4 DEF Request, Label
  <2>6. Pair(y) = Pair(x) /\ PageRows(y) = PageRows(x)
    BY <2>5 DEF Pair, PageRows
  <2>7. x.final => Final(y)
    BY <2>2, <2>3, <2>5, <2>6 DEF Final
  <2>8. Cardinality(y.got) < PageSize =>
          y.total <= (y.page - 1) * PageSize + Cardinality(y.got)
    <3>1. (x.page - 1) * PageSize \in Nat
      BY <1>2, <2>3, PageBounds
    <3> QED
      BY <1>2, <1>3, <2>3, <2>4, <2>5, <3>1
  <2>9. Good(y)
    BY <2>3, <2>4, <2>5, <2>6, <2>7, <2>8 DEF Good
  <2> QED
    BY <1>2, <2>2, <2>9, ServeKeeps
<1> QED
  BY <1>4, <1>5, <1>6 DEF Serve

(* The invariant of the readers and the writers together.                  *)
THEOREM ReadersInvariant == Spec => []ReadersInv
<1>1. Init => ReadersInv
  BY ReadersInit
<1>2. ReadersInv /\ [Next]_vars => ReadersInv'
  <2> SUFFICES ASSUME ReadersInv, [Next]_vars PROVE ReadersInv'
    OBVIOUS
  <2>1. CASE UNCHANGED vars
    BY <2>1, WriteKeeps DEF vars, ReadersInv, TablesOK
  <2>2. CASE Next
    BY <2>2, WritersKeep, IngestionKeeps, AskKeeps, ServeStepKeeps DEF Next
  <2> QED
    BY <2>1, <2>2
<1> QED
  BY <1>1, <1>2, PTL DEF Spec

(* The tables, the requests and the answers keep their types.              *)
THEOREM ReadersTypes == Spec => []TypeOK
<1>1. ReadersInv => TypeOK
  BY DEF ReadersInv, TablesOK, TypeOK
<1> QED
  BY <1>1, ReadersInvariant, PTL

(* A run that was found does not disappear before its metadata is read.    *)
THEOREM ReadersNeverDisappear == Spec => []NeverDisappears
<1>1. ReadersInv => NeverDisappears
  BY DEF ReadersInv, Good, NeverDisappears
<1> QED
  BY <1>1, ReadersInvariant, PTL

(* A page that is not full ends what total announced.                      *)
THEOREM ReadersShortPageIsLast == Spec => []ShortPageIsLast
<1>1. ReadersInv => ShortPageIsLast
  BY DEF ReadersInv, Good, ShortPageIsLast
<1> QED
  BY <1>1, ReadersInvariant, PTL

(* A kept answer stays right: its rows stay rows of the pair; of two ended *)
(* runs it is what the request returns for ever, and the first page is the *)
(* whole pair exactly if the total fits on it.                             *)
THEOREM ReadersKeptDeltaStaysRight == Spec => []KeptDeltaStaysRight
<1>1. ASSUME ReadersInv, NEW q \in Client, req[q].pc = "answered"
      PROVE  LET x == req[q]
                 pair == PairAtHour(x.city, x.a, x.b)
             IN /\ x.got \subseteq pair /\ x.total <= Cardinality(pair)
                /\ x.final =>
                     /\ x.got = PageOf(x.city, x.a, x.b, x.page)
                     /\ x.total = Cardinality(pair)
                     /\ x.page = 1 => (x.got = pair <=> x.total <= PageSize)
  <2>1. PICK x : x = req[q]
    OBVIOUS
  <2>2. Good(x) /\ x.pc = "answered" /\ x \in Request /\ x.page # 0
    BY <1>1, <2>1 DEF ReadersInv, Good
  <2>3. x.got \subseteq Pair(x) /\ x.total <= Cardinality(Pair(x))
    BY <2>2 DEF Good
  <2>4. x.final => x.got = PageRows(x) /\ x.total = Cardinality(Pair(x))
    BY <2>2 DEF Good, Final
  <2>5. x.page = 1 => (PageRows(x) = Pair(x) <=> Cardinality(Pair(x)) <= PageSize)
    BY <2>2, PageOfPair
  <2>6. x.final /\ x.page = 1 => (x.got = Pair(x) <=> x.total <= PageSize)
    BY <2>4, <2>5
  <2> QED
    BY <2>1, <2>3, <2>4, <2>6 DEF Pair, PageRows
<1>2. ReadersInv => KeptDeltaStaysRight
  BY <1>1 DEF KeptDeltaStaysRight
<1> QED
  BY <1>2, ReadersInvariant, PTL

-----------------------------------------------------------------------------
(* A row lies on a whole hour.                                             *)
LEMMA TimeType ==
  ASSUME TablesOK, NEW x \in ledger
  PROVE  \E k \in Nat : Time(x) = 4 * k
<1>1. x.run \in Run /\ x.cell[2] \in Nat /\ Hours \in Nat /\ DayOf[x.run] \in Nat
  BY ReadersAssumption DEF TablesOK, ScoreRow
<1>2. Hours * DayOf[x.run] \in Nat
  BY <1>1
<1>3. Hours * DayOf[x.run] + x.cell[2] \in Nat
  BY <1>1, <1>2
<1> QED
  BY <1>3 DEF Time

(* No whole hour is nearer to an instant than the one it snaps to.         *)
LEMMA SnappedIsNearest ==
  ASSUME NEW t \in Int, NEW k \in Int, NEW l \in Int, 4 * k = Snapped(t)
  PROVE  (IF 4 * k < t THEN t - 4 * k ELSE 4 * k - t)
           <= (IF 4 * l < t THEN t - 4 * l ELSE 4 * l - t)
<1> DEFINE d == t \div 4
           m == t % 4
<1>1. /\ d \in Int /\ m \in Int /\ 0 <= m /\ m <= 3 /\ t = 4 * d + m
      /\ (m >= 2 => k = d + 1) /\ (~(m >= 2) => k = d)
  BY DEF Snapped
<1> HIDE DEF d, m
<1>2. CASE m >= 2
  <2>1. 4 * k = 4 * d + 4 /\ ~(4 * k < t) /\ 4 * k - t <= 2 /\ 4 * k - t = 4 - m
    BY <1>1, <1>2
  <2>2. 4 * l < t => t - 4 * l >= m
    BY <1>1, <1>2
  <2>3. ~(4 * l < t) => 4 * l - t >= 4 - m
    BY <1>1, <1>2
  <2> QED
    BY <1>1, <1>2, <2>1, <2>2, <2>3
<1>3. CASE ~(m >= 2)
  <2>1. 4 * k = 4 * d /\ (4 * k < t \/ m = 0) /\ t - 4 * k = m
    BY <1>1, <1>3
  <2>2. 4 * l < t => t - 4 * l >= m
    BY <1>1, <1>3
  <2>3. ~(4 * l < t) => 4 * l - t >= m
    BY <1>1, <1>3
  <2> QED
    BY <1>1, <1>3, <2>1, <2>2, <2>3
<1> QED
  BY <1>2, <1>3

(* What a run has read stays what it was from its first row on, and hours  *)
(* are written in order, so the latest rows of two segments are at most    *)
(* one hour apart.                                                         *)
InOrder ==
  /\ \A r \in Run : loaded[r] # {} => r \in started
  /\ Hourly!InOrder

(* A step that writes no score and changes only what a run without rows    *)
(* has read.                                                               *)
LEMMA OrderKept ==
  ASSUME InOrder, ledger' = ledger, started \subseteq started',
         \A r \in Run : loaded'[r] # loaded[r] => r \in started' \ started,
         TablesOK
  PROVE  InOrder'
<1>1. \A r, s, g : Hourly!IsScored(r, s, g)' <=> Hourly!IsScored(r, s, g)
  BY DEF Hourly!IsScored
<1>2. ASSUME NEW x \in ledger PROVE loaded'[x.run] = loaded[x.run]
  <2>1. x.run \in Run /\ x.cell[1] \in loaded[x.run]
    BY DEF InOrder, Hourly!InOrder, TablesOK, ScoreRow
  <2>2. x.run \in started
    BY <2>1 DEF InOrder
  <2> QED
    BY <2>1, <2>2
<1> QED
  BY <1>1, <1>2 DEF InOrder, Hourly!InOrder

LEMMA CommitKeepsOrder ==
  ASSUME InOrder, NEW r \in Run, NEW S, CommitScores(r, S)
  PROVE  InOrder'
  BY DEF InOrder, CommitScores, Hourly!Commit

(* Every step keeps the order.                                             *)
THEOREM ReadersOrder == Spec => []InOrder
<1>1. Init => InOrder
  BY DEF Init, LedgerInit, InOrder, Hourly!InOrder
<1>2. ReadersInv /\ InOrder /\ [Next]_vars => InOrder'
  <2> SUFFICES ASSUME ReadersInv, InOrder, [Next]_vars PROVE InOrder'
    OBVIOUS
  <2>1. TablesOK
    BY DEF ReadersInv
  <2>2. ASSUME ledger' = ledger, UNCHANGED <<started, loaded>> PROVE InOrder'
    BY <2>1, <2>2, OrderKept
  <2>3. CASE UNCHANGED vars
    BY <2>2, <2>3 DEF vars
  <2>4. ASSUME NEW r \in Run, RecordRun(r) \/ EndRun(r) PROVE InOrder'
    BY <2>2, <2>4 DEF RecordRun, Record, EndRun, Close
  <2>5. ASSUME NEW r \in Run, LoadSegments(r) PROVE InOrder'
    <3>1. /\ ledger' = ledger /\ r \notin started /\ started' = started \cup {r}
          /\ loaded' = [loaded EXCEPT ![r] = {s \in Segment : roads[s] = CityOf[r]}]
      BY <2>5 DEF LoadSegments, lvars
    <3>2. \A u \in Run : loaded'[u] # loaded[u] => u \in started' \ started
      BY <2>1, <3>1 DEF TablesOK
    <3> QED
      BY <2>1, <3>1, <3>2, OrderKept
  <2>6. ASSUME NEW c \in City, NEW S, IngestCity(c, S) PROVE InOrder'
    BY <2>2, <2>6 DEF IngestCity, lvars
  <2>7. ASSUME NEW q \in Client, UNCHANGED Tables PROVE InOrder'
    BY <2>2, <2>7 DEF Tables
  <2>8. CASE Next
    <3>1. ASSUME NEW r \in Run, Write(r) PROVE InOrder'
      BY <2>4, <2>5, <3>1, CommitKeepsOrder DEF Write
    <3>2. ASSUME NEW q \in Client, NEW c \in City, NEW a \in Run, NEW b \in Run,
                 NEW p \in Pages, Ask(q, c, a, b, p)
          PROVE  InOrder'
      BY <2>7, <3>2 DEF Ask
    <3>3. ASSUME NEW q \in Client, Serve(q) PROVE InOrder'
      BY <2>7, <3>3 DEF Serve, CheckRuns, FetchMetadata, CountPairs, FetchPage
    <3> QED
      BY <2>6, <2>8, <3>1, <3>2, <3>3 DEF Next
  <2> QED
    BY <2>3, <2>8
<1> QED
  BY <1>1, <1>2, ReadersInvariant, PTL DEF Spec

(* The tables the clients read are those of the hour-by-hour ledger: the  *)
(* writers here do what its runs may do, and neither ingestion nor the     *)
(* requests touch what they have written.                                  *)
THEOREM ReadersKeepHourlyLedger == Spec => HourlySpec
<1>1. Init => Hourly!HourlyInit
  BY DEF Init, LedgerInit, Hourly!HourlyInit, Hourly!LedgerInit
<1>2. ReadersInv /\ InOrder /\ [Next]_vars => [Hourly!HourlyNext]_(Hourly!hvars)
  <2> SUFFICES ASSUME ReadersInv, InOrder, [Next]_vars
               PROVE  [Hourly!HourlyNext]_(Hourly!hvars)
    OBVIOUS
  <2>1. ASSUME NEW r \in Run, RecordRun(r) \/ EndRun(r)
        PROVE  (Hourly!Record(r) \/ Hourly!Close(r)) /\ UNCHANGED loaded
    BY <2>1 DEF RecordRun, EndRun, Record, Close, Hourly!Record, Hourly!Close
  <2>2. ASSUME NEW r \in Run, LoadSegments(r) PROVE Hourly!Load(r)
    <3> DEFINE L == {s \in Segment : roads[s] = CityOf[r]}
    <3>1. r \in recorded \ closed /\ r \notin started /\ loaded' = [loaded EXCEPT ![r] = L]
          /\ UNCHANGED <<recorded, ledger, closed>>
      BY <2>2 DEF LoadSegments, lvars
    <3>2. \A x \in ledger : x.run # r
      BY <3>1 DEF InOrder, Hourly!InOrder
    <3>3. L \in SUBSET Segment
      OBVIOUS
    <3> HIDE DEF L
    <3> QED
      BY <3>1, <3>2, <3>3 DEF Hourly!Load, Hourly!lvars
  <2>3. ASSUME NEW r \in Run, NEW S, CommitScores(r, S) PROVE Hourly!Commit(r)
    BY <2>3 DEF CommitScores
  <2>4. ASSUME NEW r \in Run, Write(r) PROVE Hourly!HourlyNext
    BY <2>1, <2>2, <2>3, <2>4 DEF Write, Hourly!HourlyNext
  <2>5. ASSUME NEW c \in City, NEW S, IngestCity(c, S) PROVE UNCHANGED Hourly!hvars
    BY <2>5 DEF IngestCity, lvars, Hourly!hvars, Hourly!lvars
  <2>6. ASSUME NEW q \in Client,
               Serve(q) \/ \E c \in City : \E a, b \in Run : \E p \in Pages : Ask(q, c, a, b, p)
        PROVE  UNCHANGED Hourly!hvars
    BY <2>6 DEF Serve, Ask, CheckRuns, FetchMetadata, CountPairs, FetchPage, Tables,
       Hourly!hvars, Hourly!lvars
  <2>7. CASE UNCHANGED vars
    BY <2>7 DEF vars, Hourly!hvars, Hourly!lvars
  <2> QED
    BY <2>4, <2>5, <2>6, <2>7 DEF Next
<1> QED
  BY <1>1, <1>2, ReadersInvariant, ReadersOrder, PTL DEF Spec, HourlySpec, Hourly!HourlySpec

(* The latest rows of a run: if one were two hours behind another, its     *)
(* segment would have a row in the hour between.                           *)
LEMMA LatestAreAdjacent ==
  ASSUME TablesOK, InOrder, NEW r \in Run, NEW x \in LatestRows(r), NEW y \in LatestRows(r)
  PROVE  x.cell[2] <= y.cell[2] + 1
<1>1. /\ x \in ledger /\ x.run = r /\ y \in ledger /\ y.run = r
      /\ x.cell[2] \in Nat /\ y.cell[2] \in Nat
  BY ReadersAssumption DEF LatestRows, TablesOK, ScoreRow
<1>2. SUFFICES ASSUME x.cell[2] > y.cell[2] + 1 PROVE FALSE
  BY <1>1
<1> DEFINE g == y.cell[2] + 1
<1>3. g \in Sampled /\ g < x.cell[2]
  BY <1>1, <1>2, ReadersAssumption DEF Sampled, TablesOK, ScoreRow
<1>4. y.cell[1] \in loaded[r] /\ Hourly!IsScored(r, y.cell[1], g)
  BY <1>1, <1>3 DEF InOrder, Hourly!InOrder
<1>5. PICK z \in ledger : z.run = r /\ z.cell = <<y.cell[1], g>>
  BY <1>4 DEF Hourly!IsScored
<1>6. z.cell[1] = y.cell[1] /\ z.cell[2] > y.cell[2]
  BY <1>1, <1>5
<1> QED
  BY <1>1, <1>5, <1>6 DEF LatestRows

(* The map, the panel and the lists agree, because every row lies on a     *)
(* whole hour, the tile rounds to the nearest one, and hours are written   *)
(* in order.                                                               *)
THEOREM ReadersMapAgrees == Spec => []MapAgreesWithApi
<1>1. ASSUME ReadersInv, InOrder PROVE MapAgreesWithApi
  <2>1. TablesOK
    BY <1>1 DEF ReadersInv
  <2>2. ASSUME NEW c \in City, NEW s \in Segment, NEW t \in Instants,
               TileRows(c, s, t) # {}
        PROVE  /\ DetailFound(c, s)
               /\ TileRows(c, s, t) \subseteq DetailRows(c, s, t)
               /\ s \notin ListedAsStub(c)
    <3>1. roads[s] = c /\ TileRows(c, s, t) \subseteq ScoresOf(s)
      BY <2>2 DEF TileRows
    <3>2. ASSUME NEW x \in TileRows(c, s, t), NEW y \in ScoresOf(s)
          PROVE  Distance(x, t) <= Distance(y, t)
      <4>1. x \in ledger /\ y \in ledger /\ Time(x) = Snapped(t) /\ t \in Int
        BY <3>2 DEF TileRows, ScoresOf, Instants
      <4>2. PICK k \in Nat : Time(x) = 4 * k
        BY <2>1, <4>1, TimeType
      <4>3. PICK l \in Nat : Time(y) = 4 * l
        BY <2>1, <4>1, TimeType
      <4>4. (IF 4 * k < t THEN t - 4 * k ELSE 4 * k - t)
              <= (IF 4 * l < t THEN t - 4 * l ELSE 4 * l - t)
        <5>1. k \in Int /\ l \in Int /\ t \in Int /\ 4 * k = Snapped(t)
          BY <4>1, <4>2
        <5> QED
          BY ONLY <5>1, SnappedIsNearest
      <4>5. /\ Distance(x, t) = IF 4 * k < t THEN t - 4 * k ELSE 4 * k - t
            /\ Distance(y, t) = IF 4 * l < t THEN t - 4 * l ELSE 4 * l - t
        BY <4>2, <4>3 DEF Distance
      <4> QED
        BY <4>4, <4>5
    <3>3. TileRows(c, s, t) \subseteq DetailRows(c, s, t)
      BY <3>1, <3>2 DEF DetailRows, DetailFound, Nearest
    <3> QED
      BY <2>2, <3>1, <3>3 DEF DetailFound, ListedAsStub
  <2>3. ASSUME NEW c \in City, NEW a \in ListRuns(c), NEW b \in ListRuns(c)
        PROVE  DeltaTile(c, a, b) = {s \in PairAtHour(c, a, b) : DetailFound(c, s)}
    BY DEF DeltaTile, PairAtHour, RunsExist, DetailFound
  <2>4. ASSUME NEW c \in City, NEW r \in Run, NEW x \in RunScores(c, r), NEW y \in RunScores(c, r)
        PROVE  x.cell[2] <= y.cell[2] + 1
    BY <1>1, <2>1, <2>4, LatestAreAdjacent DEF RunScores
  <2> QED
    BY <2>2, <2>3, <2>4 DEF MapAgreesWithApi
<1> QED
  BY <1>1, ReadersInvariant, ReadersOrder, PTL

-----------------------------------------------------------------------------
(* What the rows say and what the answers say of them.                     *)

(* A grain is a part of One.                                               *)
LEMMA OneIsPositive == Grain \in Nat \ {0} /\ One \in Nat \ {0} /\ Grain <= One
<1>1. Grain \in Nat \ {0}
  BY RiskRowsAssumption
<1> QED BY <1>1 DEF One

(* A set of naturals has a least member.                                   *)
LEMMA MinOf == ASSUME NEW S, S \subseteq Nat, S # {}
               PROVE  Min(S) \in S /\ \A y \in S : Min(S) <= y
<1>1. PICK x \in S : \A y \in S : ~(<<y, x>> \in OpToRel(<, Nat))
  BY NatLessThanWellFounded, WFMin
<1>2. ASSUME NEW y \in S, y < x PROVE FALSE
  <2>1. <<y, x>> \in Nat \X Nat /\ <<y, x>>[1] < <<y, x>>[2]
    BY <1>2
  <2>2. <<y, x>> \in {ss \in Nat \X Nat : ss[1] < ss[2]}
    BY <2>1
  <2> QED BY <2>2, <1>1, Zenon DEF OpToRel
<1>3. \A y \in S : x <= y
  BY <1>2
<1> QED BY <1>3 DEF Min

(* A bounded one has a greatest member.                                    *)
LEMMA MaxOf == ASSUME NEW b \in Nat, NEW S, S \subseteq 0..b, S # {}
               PROVE  Max(S) \in S /\ \A y \in S : y <= Max(S)
<1> DEFINE T == {b - x : x \in S}
<1>1. T \subseteq Nat /\ T # {}
  <2>1. \A x \in S : x \in 0..b /\ b - x \in Nat
    OBVIOUS
  <2> QED BY <2>1
<1>2. PICK t \in T : \A u \in T : t <= u
  <2> HIDE DEF T
  <2> QED BY <1>1, MinOf
<1>3. PICK x \in S : t = b - x
  BY <1>2
<1>4. \A y \in S : x >= y
  <2>1. \A y \in S : y \in 0..b /\ t <= b - y
    BY <1>2
  <2> QED BY <2>1, <1>3
<1> QED BY <1>4 DEF Max

(* There are three thirds.                                                 *)
LEMMA Thirds3 == IsFiniteSet(1..3) /\ Cardinality(1..3) = 3
<1>1. 1 \in Int /\ 3 \in Int
  OBVIOUS
<1>2. IsFiniteSet(1..3) /\ Cardinality(1..3) = IF 1 > 3 THEN 0 ELSE 3 - 1 + 1
  BY <1>1, FS_Interval, Zenon
<1> QED BY <1>2

(* A signal of thirds is at most the whole.                                *)
LEMMA ThirdsType == ASSUME NEW D PROVE Thirds(D) \in 0..3
<1> DEFINE K == {k \in 1..3 : \E d \in D : k <= d}
<1>1. IsFiniteSet(1..3) /\ Cardinality(1..3) = 3
  BY Thirds3
<1>2. Cardinality(K) \in Nat /\ Cardinality(K) <= 3
  BY <1>1, FS_Subset, FS_CardinalityType
<1> QED BY <1>2 DEF Thirds

(* It grows with a set whose members are matched or exceeded.              *)
LEMMA ThirdsGrow == ASSUME NEW D \in SUBSET Int, NEW E \in SUBSET Int, \A d \in D : \E e \in E : d <= e
                    PROVE  Thirds(D) <= Thirds(E)
<1> DEFINE K(F) == {k \in 1..3 : \E d \in F : k <= d}
<1>1. IsFiniteSet(1..3) /\ Cardinality(1..3) = 3
  BY Thirds3
<1>2. IsFiniteSet(K(E))
  BY <1>1, FS_Subset
<1>3. K(D) \subseteq K(E)
  OBVIOUS
<1>4. Cardinality(K(D)) <= Cardinality(K(E))
  BY <1>2, <1>3, FS_Subset
<1> QED BY <1>4 DEF Thirds

(* The roads of a city: finitely many, with whole bearings.                *)
IsCity(R) ==
  /\ IsFiniteSet(DOMAIN R)
  /\ \A i \in DOMAIN R :
       R[i].lanes \in Int /\ \A side \in Side : R[i].bearing[side] \in 0..359

(* A turn between two bearings is their difference, one way round or the   *)
(* other.                                                                  *)
IsTurn(a, b, t) == t \in 0..180 /\ t \in {a - b, 360 - (a - b), b - a, 360 - (b - a)}

(* This is what the code computes, for bearings of one compass.            *)
LEMMA TurnType == ASSUME NEW a \in 0..359, NEW b \in 0..359
                  PROVE  IsTurn(a, b, Turn(a, b))
<1>1. Abs(a - b) \in 0..359 /\ Abs(a - b) \in {a - b, b - a}
  BY DEF Abs
<1>2. Abs(a - b) % 360 = Abs(a - b)
  BY <1>1
<1> QED BY <1>1, <1>2 DEF Turn, IsTurn

(* The angle between two bearings, with its floor of one degree.           *)
LEMMA AngleType == ASSUME NEW a \in 0..359, NEW b \in 0..359
                   PROVE  AngleBetweenBearings(a, b) \in 1..180
<1>1. Turn(a, b) \in 0..180
  BY TurnType DEF IsTurn
<1> QED BY <1>1 DEF AngleBetweenBearings, Larger

(* Every class has a rank, an unknown one too.                             *)
LEMMA ClassRankType == ASSUME NEW class PROVE RoadClassRank(class) \in 1..7
  BY DEF RoadClassRank

(* A junction of a city has finitely many legs.                            *)
LEMMA LegsFinite == ASSUME NEW R, IsCity(R), NEW key PROVE IsFiniteSet(Legs(R, key))
<1>1. IsFiniteSet({"end"}) /\ IsFiniteSet({"end"} \cup {"start"})
  BY FS_Singleton, FS_AddElement
<1>2. IsFiniteSet(Side)
  BY <1>1 DEF Side
<1>3. IsFiniteSet((DOMAIN R) \X Side)
  BY <1>2, FS_Product DEF IsCity
<1> QED BY <1>3, FS_Subset DEF Legs

(* An endpoint: its legs, and the least angle to another leg.              *)
LEMMA Endpoint ==
  ASSUME NEW R, IsCity(R), NEW i \in DOMAIN R, NEW side \in Side
  PROVE  /\ JunctionEndpoint(R, i, side).leg_count \in Nat
         /\ JunctionEndpoint(R, i, side).min_angle \in 1..90
         /\ \/ JunctionEndpoint(R, i, side).min_angle = 90
            \/ \E leg \in OtherLegs(R, i, side) :
                 JunctionEndpoint(R, i, side).min_angle = AngleTo(R, i, side, leg)
         /\ \A leg \in OtherLegs(R, i, side) :
              /\ JunctionEndpoint(R, i, side).min_angle <= AngleTo(R, i, side, leg)
              /\ leg[1] \in DOMAIN R
<1> DEFINE S == {90} \cup {AngleTo(R, i, side, leg) : leg \in OtherLegs(R, i, side)}
<1>1. JunctionEndpoint(R, i, side).leg_count \in Nat
  BY LegsFinite, FS_CardinalityType DEF JunctionEndpoint, LegsAt
<1>2. JunctionEndpoint(R, i, side).min_angle = Min(S)
  BY DEF JunctionEndpoint
<1>3. \A leg \in OtherLegs(R, i, side) : leg[1] \in DOMAIN R /\ leg[2] \in Side
  BY DEF OtherLegs, LegsAt, Legs
<1>4. \A leg \in OtherLegs(R, i, side) : AngleTo(R, i, side, leg) \in 1..180
  <2> TAKE leg \in OtherLegs(R, i, side)
  <2>1. R[i].bearing[side] \in 0..359 /\ R[leg[1]].bearing[leg[2]] \in 0..359
    BY <1>3 DEF IsCity
  <2> QED BY <2>1, AngleType DEF AngleTo
<1>5. S \subseteq 1..180 /\ 90 \in S
  BY <1>4
<1>6. Min(S) \in S /\ \A y \in S : Min(S) <= y
  <2> HIDE DEF S
  <2>1. S \subseteq Nat /\ S # {}
    BY <1>5
  <2> QED BY <2>1, MinOf
<1>7. Min(S) \in 1..90
  <2> HIDE DEF S
  <2>1. Min(S) \in 1..180
    BY <1>5, <1>6
  <2>2. Min(S) <= 90
    BY <1>5, <1>6
  <2> QED BY <2>1, <2>2
<1>8. \/ Min(S) = 90
      \/ \E leg \in OtherLegs(R, i, side) : Min(S) = AngleTo(R, i, side, leg)
  BY <1>6, Zenon
<1>9. \A leg \in OtherLegs(R, i, side) : Min(S) <= AngleTo(R, i, side, leg)
  BY <1>6, Zenon
<1> HIDE DEF S
<1> QED BY <1>1, <1>2, <1>3, <1>7, <1>8, <1>9, Zenon

(* The four signals of a road are in range.                                *)
LEMMA SignalTypes == ASSUME NEW R, IsCity(R), NEW i \in DOMAIN R
                     PROVE  /\ IntersectionDegree(R, i) \in 0..3 /\ MergeAngle(R, i) \in 0..90
                            /\ LaneCountChange(R, i) \in 0..3 /\ RoadClassTransition(R, i) \in 0..3
<1>1. \A side \in Side : JunctionEndpoint(R, i, side).min_angle \in 1..90
  BY Endpoint
<1> DEFINE S == {JunctionEndpoint(R, i, side).min_angle : side \in Side}
<1>2. S \subseteq Nat /\ S # {}
  BY <1>1 DEF Side
<1>3. Min(S) \in S
  <2> HIDE DEF S
  <2> QED BY <1>2, MinOf
<1>4. MergeAngle(R, i) \in 0..90
  BY <1>1, <1>3 DEF MergeAngle, Larger, Smaller
<1> QED BY <1>4, ThirdsType DEF IntersectionDegree, LaneCountChange, RoadClassTransition

(* The score of a junction is one pydantic accepts: the clip of           *)
(* compute_score has nothing to do.                                        *)
THEOREM JunctionInRange ==
  ASSUME NEW R, IsCity(R), NEW i \in DOMAIN R
  PROVE  JunctionComplexity(R, i) \in 0..One
<1> DEFINE points == Weighted(IntersectionDegree(R, i), MergeAngle(R, i),
                              LaneCountChange(R, i), RoadClassTransition(R, i))
<1>1. points \in 0..900
  BY SignalTypes DEF Weighted
<1>2. \A n \in 0..900 : Grain * n \in 0..(900 * Grain)
  BY OneIsPositive
<1>3. JunctionComplexity(R, i) = Grain * points
  BY DEF JunctionComplexity
<1> HIDE DEF points
<1> QED BY <1>1, <1>2, <1>3 DEF One

(* All weights are positive: no signal that grows lowers the score.        *)
LEMMA WeightedGrows ==
  ASSUME NEW a \in 0..3, NEW b \in 0..90, NEW c \in 0..3, NEW d \in 0..3,
         NEW e \in 0..3, NEW f \in 0..90, NEW g \in 0..3, NEW h \in 0..3,
         a <= e, b <= f, c <= g, d <= h
  PROVE  /\ Weighted(a, b, c, d) \in Nat /\ Weighted(e, f, g, h) \in Nat
         /\ Weighted(a, b, c, d) <= Weighted(e, f, g, h)
  BY DEF Weighted

(* An end of a road keeps its legs and neighbors when the city gains roads, *)
(* and its least angle does not grow.                                      *)
LEMMA EndpointsGrow ==
  ASSUME NEW R, IsCity(R), NEW Q, IsCity(Q), DOMAIN R \subseteq DOMAIN Q,
         \A i \in DOMAIN R : Q[i] = R[i],
         NEW i \in DOMAIN R, NEW side \in Side
  PROVE  /\ JunctionEndpoint(R, i, side).leg_count <= JunctionEndpoint(Q, i, side).leg_count
         /\ JunctionEndpoint(Q, i, side).min_angle <= JunctionEndpoint(R, i, side).min_angle
         /\ JunctionEndpoint(R, i, side).neighbors \subseteq JunctionEndpoint(Q, i, side).neighbors
<1>1. LegsAt(R, i, side) \subseteq LegsAt(Q, i, side)
  <2> SUFFICES ASSUME NEW leg \in (DOMAIN R) \X Side, R[leg[1]].at[leg[2]] = R[i].at[side]
               PROVE  leg \in (DOMAIN Q) \X Side /\ Q[leg[1]].at[leg[2]] = Q[i].at[side]
    BY Zenon DEF LegsAt, Legs
  <2> QED OBVIOUS
<1>2. IsFiniteSet(LegsAt(Q, i, side))
  BY LegsFinite DEF LegsAt
<1>3. JunctionEndpoint(R, i, side).leg_count <= JunctionEndpoint(Q, i, side).leg_count
  BY <1>1, <1>2, FS_Subset DEF JunctionEndpoint
<1>4. OtherLegs(R, i, side) \subseteq OtherLegs(Q, i, side)
  BY <1>1 DEF OtherLegs
<1>5. \A leg \in OtherLegs(R, i, side) : AngleTo(R, i, side, leg) = AngleTo(Q, i, side, leg)
  <2> TAKE leg \in OtherLegs(R, i, side)
  <2>1. leg[1] \in DOMAIN R
    BY Endpoint
  <2> QED BY <2>1 DEF AngleTo
<1>6. JunctionEndpoint(Q, i, side).min_angle <= JunctionEndpoint(R, i, side).min_angle
  <2>1. CASE JunctionEndpoint(R, i, side).min_angle = 90
    <3>1. JunctionEndpoint(Q, i, side).min_angle \in 1..90
      BY Endpoint
    <3> QED BY <2>1, <3>1
  <2>2. ASSUME NEW leg \in OtherLegs(R, i, side),
               JunctionEndpoint(R, i, side).min_angle = AngleTo(R, i, side, leg)
        PROVE  JunctionEndpoint(Q, i, side).min_angle <= JunctionEndpoint(R, i, side).min_angle
    <3>1. i \in DOMAIN Q /\ leg \in OtherLegs(Q, i, side)
      BY <1>4
    <3>2. JunctionEndpoint(Q, i, side).min_angle <= AngleTo(Q, i, side, leg)
      BY <3>1, Endpoint
    <3> QED BY <3>2, <2>2, <1>5
  <2> QED BY <2>1, <2>2, Endpoint
<1>7. JunctionEndpoint(R, i, side).neighbors \subseteq JunctionEndpoint(Q, i, side).neighbors
  BY <1>4 DEF JunctionEndpoint
<1> QED BY <1>3, <1>6, <1>7

(* When ingestion adds roads to a city and leaves a road and the others as *)
(* they were, the road does not look simpler than before.                  *)
THEOREM JunctionGrows ==
  ASSUME NEW R, IsCity(R), NEW Q, IsCity(Q), DOMAIN R \subseteq DOMAIN Q,
         \A i \in DOMAIN R : Q[i] = R[i],
         NEW i \in DOMAIN R
  PROVE  JunctionComplexity(R, i) <= JunctionComplexity(Q, i)
<1>1. i \in DOMAIN Q /\ Q[i] = R[i]
  OBVIOUS
<1> DEFINE legs(C) == {JunctionEndpoint(C, i, side).leg_count - 2 : side \in Side}
           angles(C) == {JunctionEndpoint(C, i, side).min_angle : side \in Side}
<1>2. IntersectionDegree(R, i) <= IntersectionDegree(Q, i)
  <2>1. \A side \in Side : /\ JunctionEndpoint(R, i, side).leg_count \in Nat
                           /\ JunctionEndpoint(Q, i, side).leg_count \in Nat
                           /\ JunctionEndpoint(R, i, side).leg_count
                                <= JunctionEndpoint(Q, i, side).leg_count
    BY <1>1, Endpoint, EndpointsGrow
  <2>2. legs(R) \in SUBSET Int /\ legs(Q) \in SUBSET Int
    BY <2>1
  <2>3. \A d \in legs(R) : \E e \in legs(Q) : d <= e
    BY <2>1
  <2> HIDE DEF legs
  <2>4. Thirds(legs(R)) <= Thirds(legs(Q))
    BY <2>2, <2>3, ThirdsGrow
  <2> QED BY <2>4 DEF IntersectionDegree, legs
<1>3. MergeAngle(R, i) <= MergeAngle(Q, i)
  <2>1. \A side \in Side : /\ JunctionEndpoint(R, i, side).min_angle \in 1..90
                           /\ JunctionEndpoint(Q, i, side).min_angle \in 1..90
                           /\ JunctionEndpoint(Q, i, side).min_angle
                                <= JunctionEndpoint(R, i, side).min_angle
    BY <1>1, Endpoint, EndpointsGrow
  <2>2. angles(R) \subseteq Nat /\ angles(R) # {} /\ angles(Q) \subseteq Nat /\ angles(Q) # {}
    BY <2>1 DEF Side
  <2>3. Min(angles(R)) \in angles(R) /\ Min(angles(Q)) \in angles(Q)
        /\ \A y \in angles(Q) : Min(angles(Q)) <= y
    <3> HIDE DEF angles
    <3> QED BY <2>2, MinOf
  <2>4. PICK side \in Side : Min(angles(R)) = JunctionEndpoint(R, i, side).min_angle
    BY <2>3
  <2>5. Min(angles(Q)) <= JunctionEndpoint(Q, i, side).min_angle
    BY <2>3
  <2>6. Min(angles(Q)) \in 1..90
    BY <2>1, <2>3
  <2>7. Min(angles(Q)) <= Min(angles(R)) /\ Min(angles(R)) \in 1..90
    <3> HIDE DEF angles
    <3>1. /\ JunctionEndpoint(R, i, side).min_angle \in 1..90
          /\ JunctionEndpoint(Q, i, side).min_angle \in 1..90
          /\ JunctionEndpoint(Q, i, side).min_angle <= JunctionEndpoint(R, i, side).min_angle
      BY <2>1
    <3> QED BY <3>1, <2>4, <2>5, <2>6
  <2> HIDE DEF angles
  <2>8. MergeAngle(R, i) = Larger(0, Smaller(90, 90 - Min(angles(R))))
        /\ MergeAngle(Q, i) = Larger(0, Smaller(90, 90 - Min(angles(Q))))
    BY Zenon DEF MergeAngle, angles
  <2> QED BY <2>6, <2>7, <2>8 DEF Larger, Smaller
<1>4. Neighbors(R, i) \subseteq Neighbors(Q, i) /\ Neighbors(R, i) \subseteq DOMAIN R
      /\ Neighbors(Q, i) \subseteq DOMAIN Q
  <2>1. \A side \in Side : /\ JunctionEndpoint(R, i, side).neighbors
                                \subseteq JunctionEndpoint(Q, i, side).neighbors
                           /\ JunctionEndpoint(R, i, side).neighbors \subseteq DOMAIN R
                           /\ JunctionEndpoint(Q, i, side).neighbors \subseteq DOMAIN Q
    <3> TAKE side \in Side
    <3>1. \A leg \in OtherLegs(R, i, side) : leg[1] \in DOMAIN R
      BY Endpoint
    <3>2. \A leg \in OtherLegs(Q, i, side) : leg[1] \in DOMAIN Q
      BY <1>1, Endpoint
    <3>3. JunctionEndpoint(R, i, side).neighbors \subseteq DOMAIN R
      BY <3>1 DEF JunctionEndpoint
    <3>4. JunctionEndpoint(Q, i, side).neighbors \subseteq DOMAIN Q
      BY <3>2 DEF JunctionEndpoint
    <3> QED BY <3>3, <3>4, EndpointsGrow
  <2> QED BY <2>1 DEF Neighbors
<1>5. LaneCountChange(R, i) <= LaneCountChange(Q, i)
  <2> DEFINE D(C) == {Abs(C[i].lanes - C[j].lanes) : j \in Neighbors(C, i)}
  <2>1. D(R) \in SUBSET Int /\ D(Q) \in SUBSET Int
    BY <1>1, <1>4 DEF IsCity, Abs
  <2>2. \A d \in D(R) : \E e \in D(Q) : d <= e
    <3>1. \A d \in D(R) : d \in D(Q)
      BY <1>1, <1>4
    <3> HIDE DEF D
    <3> QED BY <2>1, <3>1
  <2> HIDE DEF D
  <2>3. Thirds(D(R)) <= Thirds(D(Q))
    BY <2>1, <2>2, ThirdsGrow
  <2> QED BY <2>3 DEF LaneCountChange, D
<1>6. RoadClassTransition(R, i) <= RoadClassTransition(Q, i)
  <2> DEFINE D(C) == {Abs(RoadClassRank(C[i].class) - RoadClassRank(C[j].class)) :
                        j \in Neighbors(C, i)}
  <2>1. D(R) \in SUBSET Int /\ D(Q) \in SUBSET Int
    <3>1. \A x, y : Abs(RoadClassRank(x) - RoadClassRank(y)) \in Int
      BY ClassRankType DEF Abs
    <3> QED BY <3>1
  <2>2. \A d \in D(R) : \E e \in D(Q) : d <= e
    <3>1. \A d \in D(R) : d \in D(Q)
      BY <1>1, <1>4
    <3> HIDE DEF D
    <3> QED BY <2>1, <3>1
  <2> HIDE DEF D
  <2>3. Thirds(D(R)) <= Thirds(D(Q))
    BY <2>1, <2>2, ThirdsGrow
  <2> QED BY <2>3 DEF RoadClassTransition, D
<1> DEFINE points(C) == Weighted(IntersectionDegree(C, i), MergeAngle(C, i),
                                 LaneCountChange(C, i), RoadClassTransition(C, i))
<1>7. points(R) \in Nat /\ points(Q) \in Nat /\ points(R) <= points(Q)
  <2>1. /\ IntersectionDegree(R, i) \in 0..3 /\ MergeAngle(R, i) \in 0..90
        /\ LaneCountChange(R, i) \in 0..3 /\ RoadClassTransition(R, i) \in 0..3
    BY SignalTypes
  <2>2. /\ IntersectionDegree(Q, i) \in 0..3 /\ MergeAngle(Q, i) \in 0..90
        /\ LaneCountChange(Q, i) \in 0..3 /\ RoadClassTransition(Q, i) \in 0..3
    BY <1>1, SignalTypes
  <2> QED BY <1>2, <1>3, <1>5, <1>6, <2>1, <2>2, WeightedGrows
<1>8. \A m, n \in Nat : m <= n => Grain * m <= Grain * n
  BY OneIsPositive
<1> HIDE DEF points
<1>9. Grain * points(R) <= Grain * points(Q)
  BY <1>7, <1>8
<1> QED BY <1>9 DEF JunctionComplexity, points

-----------------------------------------------------------------------------
(* The sun is at most across the road.                                     *)
LEMMA AxisType == ASSUME NEW h \in 0..359, NEW azimuth \in 0..359
                  PROVE  AngleOfAxisAndSun(h, azimuth) \in 0..90
<1>1. Turn(h, azimuth) \in 0..180
  BY TurnType DEF IsTurn
<1> QED BY <1>1 DEF AngleOfAxisAndSun, Smaller

(* Glare is a sub-score at any position of the sun.                        *)
LEMMA GlareInRange ==
  ASSUME NEW h \in 0..359, NEW azimuth \in 0..359, NEW elevation \in -90..90
  PROVE  Glare(h, azimuth, elevation) \in 0..One
<1>1. \A x, y \in 0..One : (x * y) \div One \in 0..One
  <2> SUFFICES ASSUME NEW x \in 0..One, NEW y \in 0..One PROVE (x * y) \div One \in 0..One
    OBVIOUS
  <2>1. x * y \in 0..(One * One)
    BY OneIsPositive
  <2> QED BY <2>1, OneIsPositive
<1>2. ASSUME elevation >= 0
      PROVE  /\ CosSquared[AngleOfAxisAndSun(h, azimuth)] \in 0..One
             /\ Attenuation[elevation] \in 0..One
  <2>1. elevation \in 0..90
    BY <1>2
  <2> QED BY <2>1, AxisType, RiskRowsAssumption
<1> QED BY <1>1, <1>2, OneIsPositive DEF Glare

(* A road has the same glare whichever way it is driven.                   *)
THEOREM GlareEitherWay ==
  ASSUME NEW h \in 0..359, NEW azimuth \in 0..359, NEW elevation \in -90..90
  PROVE  Glare((h + 180) % 360, azimuth, elevation) = Glare(h, azimuth, elevation)
<1> DEFINE back == IF h < 180 THEN h + 180 ELSE h - 180
<1>1. (h + 180) % 360 = back /\ back \in 0..359 /\ (back = h + 180 \/ back = h - 180)
  OBVIOUS
<1> HIDE DEF back
<1>2. IsTurn(h, azimuth, Turn(h, azimuth))
  BY TurnType
<1>3. IsTurn(back, azimuth, Turn(back, azimuth))
  BY <1>1, TurnType
<1>4. Turn(back, azimuth) = 180 - Turn(h, azimuth)
  BY <1>1, <1>2, <1>3 DEF IsTurn
<1>5. AngleOfAxisAndSun(back, azimuth) = AngleOfAxisAndSun(h, azimuth)
  BY <1>2, <1>3, <1>4 DEF IsTurn, AngleOfAxisAndSun, Smaller
<1> QED BY <1>1, <1>5 DEF Glare

-----------------------------------------------------------------------------
(* The images of a segment, as the model sees them.                        *)
Images == SUBSET [value : 0..One, uncertainty : 0..One]

(* What the perception scorer returns: a stub just when there is no image. *)
LEMMA LaneType == ASSUME NEW images \in Images, NEW lane \in LaneMarkings(images)
                  PROVE  /\ lane \in SubScoreResult
                         /\ lane.is_stub <=> images = {}
                         /\ images # {} =>
                              /\ Max(Uncertainties(images)) \in 0..One
                              /\ lane.confidence = One - Max(Uncertainties(images))
                         /\ images = {} => lane.value = 0
<1>1. CASE images = {}
  <2>1. lane = [value |-> 0, confidence |-> 0, is_stub |-> TRUE]
    BY <1>1 DEF LaneMarkings
  <2>2. 0 \in 0..One
    BY OneIsPositive
  <2> QED BY <1>1, <2>1, <2>2 DEF SubScoreResult
<1>2. CASE images # {}
  <2>1. /\ Values(images) \subseteq 0..One /\ Values(images) # {}
        /\ Uncertainties(images) \subseteq 0..One /\ Uncertainties(images) # {}
    BY <1>2 DEF Images, Values, Uncertainties
  <2>2. Max(Uncertainties(images)) \in 0..One /\ Max(Values(images)) \in 0..One
    BY <2>1, MaxOf, OneIsPositive
  <2>3. Values(images) \subseteq Nat
    BY <2>1, OneIsPositive
  <2>4. Min(Values(images)) \in 0..One
    BY <2>1, <2>3, MinOf
  <2>5. PICK v \in Min(Values(images))..Max(Values(images)) :
          lane = Result(v, One - Max(Uncertainties(images)))
    BY <1>2 DEF LaneMarkings
  <2>6. v \in 0..One /\ One - Max(Uncertainties(images)) \in 0..One
    BY <2>2, <2>4, OneIsPositive
  <2> QED BY <1>2, <2>2, <2>5, <2>6 DEF Result, SubScoreResult
<1> QED BY <1>1, <1>2

(* What may stand in a row of any run: results for some of the names.      *)
Results == UNION {[N -> SubScoreResult] : N \in SUBSET Name}

(* The CLI's scorers return something for every name; only the lane        *)
(* markings can be a stub, and the others claim full confidence.           *)
LEMMA ScoredType ==
  ASSUME NEW g \in 0..One, NEW images \in Images, NEW j \in 0..One, NEW raw \in Nat,
         NEW results \in Scored(g, images, j, raw)
  PROVE  /\ results \in [Name -> SubScoreResult] /\ results \in Results
         /\ results["lane_marking"] \in LaneMarkings(images)
         /\ \A n \in Name \ {"lane_marking"} :
              ~results[n].is_stub /\ results[n].confidence = One
<1>1. PICK lane \in LaneMarkings(images) :
        results = [n \in Name |-> CASE n = "glare" -> Result(g, One)
                     [] n = "lane_marking" -> lane
                     [] n = "junction_complexity" -> Result(j, One)
                     [] n = "historical" -> Result(Historical(raw), One)]
  BY DEF Scored
<1>2. Historical(raw) \in 0..One /\ One \in 0..One
  BY OneIsPositive DEF Historical, Smaller
<1>3. lane \in SubScoreResult
  BY LaneType
<1>4. /\ results["glare"] = Result(g, One) /\ results["lane_marking"] = lane
      /\ results["junction_complexity"] = Result(j, One)
      /\ results["historical"] = Result(Historical(raw), One)
      /\ DOMAIN results = Name
  BY <1>1 DEF Name
<1>5. \A n \in Name : results[n] \in SubScoreResult
  <2>1. Result(g, One) \in SubScoreResult /\ Result(j, One) \in SubScoreResult
        /\ Result(Historical(raw), One) \in SubScoreResult
    BY <1>2 DEF Result, SubScoreResult
  <2> QED BY <1>3, <1>4, <2>1 DEF Name
<1>6. results \in [Name -> SubScoreResult]
  BY <1>1, <1>5
<1>7. results \in Results
  BY <1>6 DEF Results
<1> QED BY <1>4, <1>6, <1>7 DEF Name, Result

(* There are finitely many sub-scores.                                     *)
LEMMA NamesAreFinite == ASSUME NEW S \in SUBSET Name PROVE IsFiniteSet(S) /\ Cardinality(S) \in Nat
<1>1. IsFiniteSet({"glare"})
  BY FS_Singleton
<1>2. IsFiniteSet({"glare"} \cup {"lane_marking"} \cup {"junction_complexity"})
  BY <1>1, FS_AddElement
<1>3. IsFiniteSet({"glare"} \cup {"lane_marking"} \cup {"junction_complexity"} \cup {"historical"})
  BY <1>2, FS_AddElement
<1>4. IsFiniteSet(Name)
  BY <1>3 DEF Name
<1> QED BY <1>4, FS_Subset, FS_CardinalityType

(* What goes into the columns of a row is in range, with a result or       *)
(* without.                                                                *)
LEMMA ColumnTypes ==
  ASSUME NEW results \in Results
  PROVE  /\ \A n \in Name : SubScoreOf(results, n) \in 0..One /\ IsStub(results, n) \in BOOLEAN
         /\ LocalInput(results) \in 0..(Parts * One)
         /\ \A n \in Real(results) : results[n].confidence \in 0..One /\ results[n].value \in 0..One
<1>1. PICK N \in SUBSET Name : results \in [N -> SubScoreResult]
  BY DEF Results
<1>2. \A n \in N : results[n] \in SubScoreResult
  BY <1>1
<1>3. \A n \in Name : SubScoreOf(results, n) \in 0..One
  <2>1. 0 \in 0..One
    BY OneIsPositive
  <2> QED BY <1>1, <1>2, <2>1 DEF SubScoreOf, SubScoreResult
<1>4. \A n \in Name : IsStub(results, n) \in BOOLEAN
  BY <1>1, <1>2 DEF IsStub, SubScoreResult
<1>5. \A n \in Real(results) : results[n].confidence \in 0..One /\ results[n].value \in 0..One
  BY <1>1, <1>2 DEF Real, IsStub, SubScoreResult
<1>6. \A a, b, c, d \in 0..One : 420 * a + 360 * b + 240 * c + 180 * d \in 0..(1200 * One)
  BY OneIsPositive
<1>7. LocalInput(results) = 420 * SubScoreOf(results, "glare")
        + 360 * SubScoreOf(results, "lane_marking")
        + 240 * SubScoreOf(results, "junction_complexity") + 180 * SubScoreOf(results, "historical")
  BY DEF LocalInput, LocalAggregate, SubScoreColumns, Name
<1>8. LocalInput(results) \in 0..(Parts * One)
  BY <1>3, <1>6, <1>7 DEF Name, Parts
<1> QED BY <1>3, <1>4, <1>5, <1>8

(* A row claims no more confidence than any of its real sub-scores.        *)
LEMMA RowType ==
  ASSUME NEW results \in Results, NEW composite, NEW uplift
  PROVE  LET row == AsRow(composite, uplift, results)
         IN  /\ row.composite_risk = composite /\ row.propagation_uplift = uplift
             /\ row.sub_score \in [Name -> 0..One] /\ row.is_stub \in [Name -> BOOLEAN]
             /\ row.confidence \in 0..One
             /\ \A n \in Real(results) : row.confidence <= results[n].confidence
<1> DEFINE row == AsRow(composite, uplift, results)
           C   == {results[n].confidence : n \in Real(results)}
<1>1. row.composite_risk = composite /\ row.propagation_uplift = uplift
      /\ row.sub_score \in [Name -> 0..One] /\ row.is_stub \in [Name -> BOOLEAN]
  BY ColumnTypes DEF AsRow, SubScoreColumns
<1>2. row.confidence = IF Real(results) = {} THEN 0 ELSE Min(C)
  BY DEF AsRow
<1>3. CASE Real(results) = {}
  BY <1>1, <1>2, <1>3, OneIsPositive
<1>4. CASE Real(results) # {}
  <2>1. C \subseteq 0..One /\ C # {} /\ \A n \in Real(results) : results[n].confidence \in C
    BY <1>4, ColumnTypes
  <2>2. Min(C) \in C /\ \A c \in C : Min(C) <= c
    <3> HIDE DEF C
    <3>1. C \subseteq Nat
      BY <2>1, OneIsPositive
    <3> QED BY <2>1, <3>1, MinOf
  <2> HIDE DEF C
  <2>3. row.confidence = Min(C)
    BY <1>2, <1>4
  <2> QED BY <1>1, <2>1, <2>2, <2>3
<1> QED BY <1>3, <1>4

(* The rows that runs write.                                               *)
Rows ==
  {RiskRow(results, uplift) : results \in Results, uplift \in Nat}
    \cup {StreamedRow(results) : results \in Results}

(* In a row of any run the uplift is part of the composite.                *)
LEMMA RowsType ==
  ASSUME NEW row \in Rows
  PROVE  /\ row.composite_risk \in Nat /\ row.propagation_uplift \in Nat
         /\ row.propagation_uplift <= row.composite_risk
         /\ row.sub_score \in [Name -> 0..One] /\ row.is_stub \in [Name -> BOOLEAN]
         /\ row.confidence \in 0..One
<1>1. ASSUME NEW results \in Results, NEW uplift \in Nat, row = RiskRow(results, uplift)
      PROVE  /\ row.composite_risk = LocalInput(results) + uplift
             /\ row.propagation_uplift = uplift
             /\ row.sub_score \in [Name -> 0..One] /\ row.is_stub \in [Name -> BOOLEAN]
             /\ row.confidence \in 0..One
  BY <1>1, RowType DEF RiskRow
<1>2. ASSUME NEW results \in Results, row = StreamedRow(results)
      PROVE  /\ row.composite_risk \in Nat /\ row.propagation_uplift = 0
             /\ row.sub_score \in [Name -> 0..One] /\ row.is_stub \in [Name -> BOOLEAN]
             /\ row.confidence \in 0..One
  <2> DEFINE real(n) == IF n \in Real(results) THEN results[n].value ELSE 0
             sum     == real("glare") + real("lane_marking") + real("junction_complexity")
                          + real("historical")
             mean    == IF Real(results) = {} THEN 0
                        ELSE (Parts \div Cardinality(Real(results))) * sum
  <2>1. \A n \in Name : real(n) \in Nat
    BY ColumnTypes, OneIsPositive
  <2>2. sum \in Nat
    <3> HIDE DEF real
    <3> QED BY <2>1 DEF Name
  <2>3. Real(results) \in SUBSET Name /\ (Real(results) # {} => Cardinality(Real(results)) # 0)
    BY NamesAreFinite, FS_EmptySet DEF Real
  <2>4. Cardinality(Real(results)) \in Nat
    BY <2>3, NamesAreFinite
  <2>5. Cardinality(Real(results)) # 0 => Parts \div Cardinality(Real(results)) \in Nat
    BY <2>4 DEF Parts
  <2>6. mean \in Nat
    <3> HIDE DEF sum
    <3> QED BY <2>2, <2>3, <2>5
  <2>7. row = AsRow(mean, 0, results)
    BY <1>2 DEF StreamedRow
  <2> HIDE DEF mean
  <2> QED BY <2>6, <2>7, RowType
<1>3. \A results \in Results : LocalInput(results) \in Nat
  BY ColumnTypes, OneIsPositive DEF Parts
<1> QED BY <1>1, <1>2, <1>3 DEF Rows

-----------------------------------------------------------------------------
(* The indicator is the least of its three signals, and names the first    *)
(* of those that are: freshness before coverage before the model.          *)
THEOREM IndicatorIsLeast ==
  ASSUME NEW f \in Int, NEW c \in Int, NEW m \in Int
  PROVE  /\ Assemble(f, c, m) \in ConfidenceIndicator
         /\ \A l \in Limiter : Assemble(f, c, m).value <= Candidates(f, c, m)[l]
         /\ Assemble(f, c, m).value = Candidates(f, c, m)[Assemble(f, c, m).limiter]
         /\ IsLimiter(Candidates(f, c, m), Assemble(f, c, m).limiter)
<1> DEFINE x == Candidates(f, c, m)
<1>1. /\ x["freshness"] \in 0..One /\ x["coverage"] \in 0..One /\ x["model"] \in 0..One
  BY OneIsPositive DEF Candidates, Clamp, Larger, Smaller
<1> HIDE DEF x
<1>2. \E l \in Limiter : IsLimiter(x, l)
  <2>1. CASE x["freshness"] <= x["coverage"] /\ x["freshness"] <= x["model"]
    BY <2>1, <1>1 DEF IsLimiter, Limiter, Priority
  <2>2. CASE x["coverage"] < x["freshness"] /\ x["coverage"] <= x["model"]
    BY <2>2, <1>1 DEF IsLimiter, Limiter, Priority
  <2>3. CASE x["model"] < x["freshness"] /\ x["model"] < x["coverage"]
    BY <2>3, <1>1 DEF IsLimiter, Limiter, Priority
  <2> QED BY <1>1, <2>1, <2>2, <2>3, OneIsPositive
<1> DEFINE l == CHOOSE k \in Limiter : IsLimiter(x, k)
<1>3. l \in Limiter /\ IsLimiter(x, l)
  BY <1>2
<1>4. Assemble(f, c, m) = [value |-> x[l], limiter |-> l]
  BY DEF Assemble, x
<1> HIDE DEF l
<1>5. x[l] \in 0..One /\ \A k \in Limiter : x[l] <= x[k] /\ x[k] \in 0..One
  BY <1>1, <1>3, OneIsPositive DEF IsLimiter, Limiter
<1>6. /\ Assemble(f, c, m) \in ConfidenceIndicator
      /\ \A k \in Limiter : Assemble(f, c, m).value <= x[k]
      /\ Assemble(f, c, m).value = x[Assemble(f, c, m).limiter]
      /\ IsLimiter(x, Assemble(f, c, m).limiter)
  BY <1>3, <1>4, <1>5 DEF ConfidenceIndicator
<1> QED BY <1>6 DEF x

(* The stored images of a segment.                                         *)
IsImagery(imagery) ==
  IsFiniteSet(imagery) /\ \E d \in Nat : \A n \in imagery : n.captured \in 0..d

(* Freshness and coverage of stored imagery are in range.                  *)
LEMMA SignalRanges ==
  ASSUME NEW imagery, IsImagery(imagery), imagery # {}, NEW today \in Nat
  PROVE  /\ Max({n.captured : n \in imagery}) \in Nat
         /\ Freshness(today - Max({n.captured : n \in imagery})) \in 0..One
         /\ Coverage(Cardinality(imagery)) \in 0..One
<1> DEFINE S == {n.captured : n \in imagery}
<1>1. PICK d \in Nat : \A n \in imagery : n.captured \in 0..d
  BY DEF IsImagery
<1>2. S \subseteq 0..d /\ S # {}
  BY <1>1
<1>3. Max(S) \in 0..d
  <2> HIDE DEF S
  <2> QED BY <1>2, MaxOf
<1>4. Cardinality(imagery) \in Nat
  BY FS_CardinalityType DEF IsImagery
<1>5. \A age \in Int : Freshness(age) \in 0..One
  <2> TAKE age \in Int
  <2>1. \A k \in 0..900 : k * Grain \in 0..(900 * Grain)
    BY OneIsPositive
  <2> QED BY <2>1, OneIsPositive DEF Freshness, One
<1>6. 180 * Grain * Cardinality(imagery) \in Nat
  BY <1>4, OneIsPositive
<1>7. Coverage(Cardinality(imagery)) \in 0..One
  BY <1>6, OneIsPositive DEF Coverage, Smaller
<1> HIDE DEF S
<1>8. Freshness(today - Max(S)) \in 0..One
  BY <1>3, <1>5
<1> QED BY <1>3, <1>7, <1>8 DEF S

(* The confidence is an indicator, and never above what the model allows.  *)
LEMMA ConfidenceType ==
  ASSUME NEW imagery, IsImagery(imagery), NEW today \in Nat, NEW m \in 0..One
  PROVE  /\ ConfidenceOf(imagery, m, today) \in ConfidenceIndicator
         /\ ConfidenceOf(imagery, m, today).value <= One - m
<1>1. One \in Int /\ m \in Int /\ Clamp(m) = m
  BY OneIsPositive DEF Clamp, Larger, Smaller
<1>2. CASE imagery = {}
  <2>1. ConfidenceOf(imagery, m, today) = Assemble(One, 0, One)
    BY <1>2 DEF ConfidenceOf
  <2>2. Assemble(One, 0, One).value <= Candidates(One, 0, One)["model"]
        /\ Assemble(One, 0, One) \in ConfidenceIndicator
    BY <1>1, IndicatorIsLeast DEF Limiter
  <2>3. Candidates(One, 0, One)["model"] = 0
    BY OneIsPositive DEF Candidates, Clamp, Larger, Smaller
  <2> QED BY <2>1, <2>2, <2>3, OneIsPositive DEF ConfidenceIndicator
<1>3. CASE imagery # {}
  <2> DEFINE f == Freshness(today - Max({n.captured : n \in imagery}))
             c == Coverage(Cardinality(imagery))
  <2>1. f \in Int /\ c \in Int
    BY <1>3, SignalRanges, OneIsPositive
  <2>2. ConfidenceOf(imagery, m, today) = Assemble(f, c, m)
    BY <1>3 DEF ConfidenceOf
  <2> HIDE DEF f, c
  <2>3. Assemble(f, c, m).value <= Candidates(f, c, m)["model"]
        /\ Assemble(f, c, m) \in ConfidenceIndicator
    BY <1>1, <2>1, IndicatorIsLeast DEF Limiter
  <2>4. Candidates(f, c, m)["model"] = One - m
    BY <1>1 DEF Candidates
  <2> QED BY <2>2, <2>3, <2>4
<1> QED BY <1>2, <1>3

(* Nobody has seen a segment without imagery: its detail says so, with no  *)
(* confidence and coverage as the reason, whatever the row's confidence.   *)
THEOREM UnseenHasNoConfidence ==
  ASSUME NEW row \in Rows, NEW today \in Nat
  PROVE  SegmentDetail(row, {}, today).confidence = [value |-> 0, limiter |-> "coverage"]
<1>1. SegmentDetail(row, {}, today).confidence = Assemble(One, 0, One)
  BY DEF SegmentDetail, Shown, ConfidenceOf
<1> DEFINE x == Candidates(One, 0, One)
<1>2. x["freshness"] = One /\ x["coverage"] = 0 /\ x["model"] = 0
  BY OneIsPositive DEF Candidates, Clamp, Larger, Smaller
<1>8. One \in Int /\ 0 \in Int
  BY OneIsPositive
<1>9. IsLimiter(x, Assemble(One, 0, One).limiter)
      /\ Assemble(One, 0, One).value = x[Assemble(One, 0, One).limiter]
      /\ Assemble(One, 0, One) \in ConfidenceIndicator
  BY <1>8, IndicatorIsLeast
<1> HIDE DEF x
<1>3. Assemble(One, 0, One).limiter \in Limiter
  BY <1>9 DEF ConfidenceIndicator
<1>4. \A l \in Limiter : IsLimiter(x, l) => l = "coverage"
  BY <1>2, OneIsPositive DEF IsLimiter, Limiter, Priority
<1>5. Assemble(One, 0, One).limiter = "coverage" /\ Assemble(One, 0, One).value = 0
  BY <1>2, <1>9, <1>3, <1>4
<1>6. Assemble(One, 0, One) = [value |-> 0, limiter |-> "coverage"]
  BY <1>9, <1>5 DEF ConfidenceIndicator
<1> QED BY <1>1, <1>6

(* The detail of a segment never claims more confidence than the lists and *)
(* the delta do, which show the scalar of the row.                         *)
THEOREM DetailClaimsNoMore ==
  ASSUME NEW row \in Rows, NEW imagery, IsImagery(imagery), NEW today \in Nat
  PROVE  SegmentDetail(row, imagery, today).confidence.value
           <= RunScoreEntry(row).confidence.value
<1>1. row.confidence \in 0..One
  BY RowsType
<1>2. ModelUncertainty(row) \in 0..One /\ One - ModelUncertainty(row) = row.confidence
  BY <1>1, OneIsPositive DEF ModelUncertainty, Larger
<1>3. ConfidenceOf(imagery, ModelUncertainty(row), today).value <= row.confidence
  BY <1>2, ConfidenceType
<1> QED BY <1>3 DEF SegmentDetail, RunScoreEntry, Shown, ScalarConfidence

(* The older the newest image, the less it counts.                         *)
LEMMA FreshnessFades ==
  ASSUME NEW a \in Int, NEW b \in Int, a <= b
  PROVE  Freshness(b) <= Freshness(a)
<1>1. \A k \in 0..900 : k * Grain \in 0..(900 * Grain)
  BY OneIsPositive
<1>2. \A j, k \in 0..900 : j <= k => j * Grain <= k * Grain
  BY OneIsPositive
<1>3. CASE a <= 180
  <2>1. Freshness(a) = One
    BY <1>3 DEF Freshness
  <2>2. Freshness(b) <= One
    <3>1. CASE b <= 180
      BY <3>1, OneIsPositive DEF Freshness
    <3>2. CASE b >= 1080
      BY <3>2, OneIsPositive DEF Freshness
    <3>3. CASE 180 < b /\ b < 1080
      <4>1. b - 180 \in 0..900 /\ Freshness(b) = One - (b - 180) * Grain
        BY <3>3 DEF Freshness
      <4>2. (b - 180) * Grain \in 0..(900 * Grain)
        BY <4>1, <1>1
      <4> QED BY <4>1, <4>2, OneIsPositive
    <3> QED BY <3>1, <3>2, <3>3
  <2> QED BY <2>1, <2>2
<1>4. CASE a > 180 /\ b >= 1080
  <2>1. Freshness(b) = 0
    BY <1>4 DEF Freshness
  <2>2. Freshness(a) >= 0
    <3>1. CASE a >= 1080
      BY <3>1 DEF Freshness
    <3>2. CASE a < 1080
      <4>1. a - 180 \in 0..900 /\ Freshness(a) = One - (a - 180) * Grain
        BY <3>2, <1>4 DEF Freshness
      <4>2. (a - 180) * Grain \in 0..(900 * Grain)
        BY <4>1, <1>1
      <4> QED BY <4>1, <4>2, OneIsPositive DEF One
    <3> QED BY <3>1, <3>2
  <2> QED BY <2>1, <2>2
<1>5. CASE a > 180 /\ b < 1080
  <2>1. /\ a - 180 \in 0..900 /\ b - 180 \in 0..900 /\ a - 180 <= b - 180
        /\ Freshness(a) = One - (a - 180) * Grain /\ Freshness(b) = One - (b - 180) * Grain
    BY <1>5 DEF Freshness
  <2>2. (a - 180) * Grain <= (b - 180) * Grain
    <3>1. \A j, k : j \in 0..900 /\ k \in 0..900 /\ j <= k => j * Grain <= k * Grain
      BY <1>2
    <3> QED BY <2>1, <3>1, Zenon
  <2>3. (a - 180) * Grain \in Int /\ (b - 180) * Grain \in Int
    BY <2>1, <1>1
  <2> QED BY <2>1, <2>2, <2>3, OneIsPositive
<1> QED BY <1>3, <1>4, <1>5

(* The confidence in a segment whose row and images stay never grows as    *)
(* days pass.                                                              *)
THEOREM ConfidenceFades ==
  ASSUME NEW imagery, IsImagery(imagery), NEW m \in 0..One,
         NEW today \in Nat, NEW later \in Nat, today <= later
  PROVE  ConfidenceOf(imagery, m, later).value <= ConfidenceOf(imagery, m, today).value
<1>1. CASE imagery = {}
  <2>1. ConfidenceOf(imagery, m, later) = ConfidenceOf(imagery, m, today)
    BY <1>1 DEF ConfidenceOf
  <2>2. ConfidenceOf(imagery, m, today).value \in 0..One
    BY ConfidenceType DEF ConfidenceIndicator
  <2> QED BY <2>1, <2>2, OneIsPositive
<1>2. CASE imagery # {}
  <2> DEFINE newest == Max({n.captured : n \in imagery})
             c      == Coverage(Cardinality(imagery))
             x(day) == Candidates(Freshness(day - newest), c, m)
  <2>1. newest \in Nat /\ c \in Int
        /\ Freshness(today - newest) \in 0..One /\ Freshness(later - newest) \in 0..One
    BY <1>2, SignalRanges, OneIsPositive
  <2>2. /\ ConfidenceOf(imagery, m, today) = Assemble(Freshness(today - newest), c, m)
        /\ ConfidenceOf(imagery, m, later) = Assemble(Freshness(later - newest), c, m)
    BY <1>2 DEF ConfidenceOf
  <2> HIDE DEF newest, c
  <2>3. Freshness(later - newest) <= Freshness(today - newest)
    <3>1. today - newest \in Int /\ later - newest \in Int /\ today - newest <= later - newest
      BY <2>1
    <3> QED BY <3>1, FreshnessFades
  <2> DEFINE now  == Freshness(today - newest)
             then == Freshness(later - newest)
  <2>4. now \in 0..One /\ then \in 0..One /\ then <= now
    BY <2>1, <2>3
  <2> HIDE DEF now, then
  <2>5. now \in Int /\ then \in Int /\ c \in Int /\ m \in Int
    BY <2>1, <2>4, OneIsPositive
  <2>6. Candidates(then, c, m)["freshness"] <= Candidates(now, c, m)["freshness"]
        /\ Candidates(then, c, m)["coverage"] = Candidates(now, c, m)["coverage"]
        /\ Candidates(then, c, m)["model"] = Candidates(now, c, m)["model"]
    BY <2>4, OneIsPositive DEF Candidates, Clamp, Larger, Smaller
  <2>7. Candidates(now, c, m)["coverage"] \in Int /\ Candidates(now, c, m)["model"] \in Int
    BY <2>5, OneIsPositive DEF Candidates, Clamp, Larger, Smaller
  <2>8. \A l \in Limiter : Candidates(then, c, m)[l] <= Candidates(now, c, m)[l]
    BY <2>6, <2>7 DEF Limiter
  <2>9. /\ Assemble(now, c, m) \in ConfidenceIndicator
        /\ Assemble(now, c, m).value = Candidates(now, c, m)[Assemble(now, c, m).limiter]
    BY <2>5, IndicatorIsLeast
  <2>10. /\ Assemble(then, c, m) \in ConfidenceIndicator
         /\ \A l \in Limiter : Assemble(then, c, m).value <= Candidates(then, c, m)[l]
    BY <2>5, IndicatorIsLeast
  <2>11. /\ Assemble(now, c, m).limiter \in Limiter
         /\ Assemble(now, c, m).value \in Int /\ Assemble(then, c, m).value \in Int
    BY <2>9, <2>10, OneIsPositive DEF ConfidenceIndicator
  <2>12. \A l \in Limiter : Candidates(then, c, m)[l] \in Int
    BY <2>5, OneIsPositive DEF Candidates, Clamp, Larger, Smaller, Limiter
  <2>13. Assemble(then, c, m).value <= Assemble(now, c, m).value
    <3> DEFINE l == Assemble(now, c, m).limiter
    <3>1. Assemble(then, c, m).value <= Candidates(then, c, m)[l]
          /\ Candidates(then, c, m)[l] <= Candidates(now, c, m)[l]
          /\ Candidates(then, c, m)[l] \in Int
      BY <2>8, <2>10, <2>11, <2>12
    <3> QED BY <3>1, <2>9, <2>11
  <2> QED BY <2>2, <2>13 DEF now, then
<1> QED BY <1>1, <1>2

-----------------------------------------------------------------------------
(* Both ways to show the confidence of a row give an indicator.            *)
LEMMA RowIndicator ==
  ASSUME NEW row \in Rows
  PROVE  /\ ScalarConfidence(row) \in ConfidenceIndicator
         /\ \A imagery : IsImagery(imagery) => \A today \in Nat :
              ConfidenceOf(imagery, ModelUncertainty(row), today) \in ConfidenceIndicator
<1>1. row.confidence \in 0..One
  BY RowsType
<1>2. ModelUncertainty(row) \in 0..One
  BY <1>1, OneIsPositive DEF ModelUncertainty, Larger
<1>3. \A imagery : IsImagery(imagery) => \A today \in Nat :
        ConfidenceOf(imagery, ModelUncertainty(row), today) \in ConfidenceIndicator
  BY <1>2, ConfidenceType
<1> QED BY <1>1, <1>3 DEF ScalarConfidence, ConfidenceIndicator, Limiter

(* What is shown of a row, with any indicator, is accepted and adds up.    *)
LEMMA ShownType ==
  ASSUME NEW row \in Rows, NEW confidence \in ConfidenceIndicator
  PROVE  /\ SnapshotAccepted(Shown(row, confidence))
         /\ Shown(row, confidence).composite_risk
              = Shown(row, confidence).local_contribution + Shown(row, confidence).propagation_uplift
<1> DEFINE shown == Shown(row, confidence)
<1>1. /\ row.composite_risk \in Nat /\ row.propagation_uplift \in Nat
      /\ row.propagation_uplift <= row.composite_risk
  BY RowsType
<1>2. /\ shown.composite_risk = row.composite_risk
      /\ shown.propagation_uplift = row.propagation_uplift
      /\ shown.local_contribution = Larger(0, row.composite_risk - row.propagation_uplift)
      /\ shown.confidence = confidence
  BY DEF Shown
<1>3. shown.local_contribution = row.composite_risk - row.propagation_uplift
  BY <1>1, <1>2 DEF Larger
<1>4. shown.sub_scores \in [Name -> SubScore]
  <2>1. \A n \in Name : row.sub_score[n] \in 0..One /\ row.is_stub[n] \in BOOLEAN
    BY RowsType
  <2>2. row.confidence \in 0..One /\ 0 \in 0..One
    BY RowsType, OneIsPositive
  <2>3. \A n \in Name : \A c \in 0..One :
          SubScoreShown(row.sub_score[n], row.is_stub[n], c) \in SubScore
    BY <2>1 DEF SubScoreShown, SubScore
  <2>4. \A n \in Name : SubScoreShown(row.sub_score[n], row.is_stub[n],
            IF n \in {"lane_marking", "glare"} THEN row.confidence ELSE 0) \in SubScore
    BY <2>2, <2>3
  <2> QED BY <2>4 DEF Shown
<1> HIDE DEF shown
<1>5. {shown.composite_risk, shown.local_contribution, shown.propagation_uplift} \subseteq Nat
      /\ shown.composite_risk = shown.local_contribution + shown.propagation_uplift
  BY <1>1, <1>2, <1>3
<1>6. SnapshotAccepted(shown)
  BY <1>2, <1>4, <1>5 DEF SnapshotAccepted, Accepted
<1> QED BY <1>5, <1>6 DEF shown

(* No answer about a row of a run is an error of the server: the response  *)
(* models of the detail, the lists and the delta accept it.  The same      *)
(* holds of the detail of a segment that was never scored.                 *)
THEOREM AnswersAreAccepted ==
  ASSUME NEW imagery, IsImagery(imagery), NEW today \in Nat
  PROVE  /\ \A row \in Rows : /\ SnapshotAccepted(SegmentDetail(row, imagery, today))
                              /\ SnapshotAccepted(RunScoreEntry(row))
                              /\ SnapshotAccepted(Snapshot(row))
         /\ \A stub \in StubRisk : Accepted(UnscoredDetail(stub, imagery, today))
<1>1. ASSUME NEW row \in Rows
      PROVE  /\ SnapshotAccepted(SegmentDetail(row, imagery, today))
             /\ SnapshotAccepted(RunScoreEntry(row)) /\ SnapshotAccepted(Snapshot(row))
  BY RowIndicator, ShownType DEF SegmentDetail, RunScoreEntry, Snapshot
<1>2. ASSUME NEW stub \in StubRisk
      PROVE  Accepted(UnscoredDetail(stub, imagery, today))
  <2> DEFINE confidence == ConfidenceOf(imagery, One, today)
  <2>1. One \in 0..One /\ 0 \in 0..One
    BY OneIsPositive
  <2>2. confidence \in ConfidenceIndicator
    BY <2>1, ConfidenceType
  <2>3. \A n \in Name : stub[n] \in 0..One
    BY DEF StubRisk
  <2>4. \A n \in Name : SubScoreShown(stub[n], TRUE, 0) \in SubScore
    BY <2>1, <2>3 DEF SubScoreShown, SubScore
  <2> HIDE DEF confidence
  <2>5. Accepted(ShownAsStub(stub, confidence))
    BY <2>2, <2>4 DEF ShownAsStub, Accepted
  <2> QED BY <2>5 DEF UnscoredDetail, confidence
<1> QED BY <1>1, <1>2

(* The composite a client sees is the local contribution plus the uplift   *)
(* it sees beside it, in the detail, the lists and the delta alike; of a   *)
(* Phase 4 row the local contribution is what the propagator was given,    *)
(* and the weighted sum of the sub-scores in the answer.                   *)
THEOREM AnswersAddUp ==
  ASSUME NEW imagery, IsImagery(imagery), NEW today \in Nat
  PROVE  /\ \A row \in Rows :
              \A shown \in {SegmentDetail(row, imagery, today), RunScoreEntry(row), Snapshot(row)} :
                shown.composite_risk = shown.local_contribution + shown.propagation_uplift
         /\ \A results \in Results, uplift \in Nat :
              LET row == RiskRow(results, uplift)
              IN  \A shown \in {SegmentDetail(row, imagery, today), RunScoreEntry(row),
                                Snapshot(row)} :
                    /\ shown.local_contribution = LocalInput(results)
                    /\ shown.local_contribution
                         = LocalAggregate([n \in Name |-> shown.sub_scores[n].value])
<1>1. ASSUME NEW row \in Rows,
             NEW shown \in {SegmentDetail(row, imagery, today), RunScoreEntry(row), Snapshot(row)}
      PROVE  \E confidence \in ConfidenceIndicator : shown = Shown(row, confidence)
  BY RowIndicator DEF SegmentDetail, RunScoreEntry, Snapshot
<1>2. \A row \in Rows :
        \A shown \in {SegmentDetail(row, imagery, today), RunScoreEntry(row), Snapshot(row)} :
          shown.composite_risk = shown.local_contribution + shown.propagation_uplift
  BY <1>1, ShownType
<1>3. ASSUME NEW results \in Results, NEW uplift \in Nat, NEW confidence
      PROVE  LET shown == Shown(RiskRow(results, uplift), confidence)
             IN  /\ shown.local_contribution = LocalInput(results)
                 /\ shown.local_contribution
                      = LocalAggregate([n \in Name |-> shown.sub_scores[n].value])
  <2> DEFINE row   == RiskRow(results, uplift)
             shown == Shown(row, confidence)
  <2>1. /\ row.composite_risk = LocalInput(results) + uplift
        /\ row.propagation_uplift = uplift
        /\ row.sub_score = SubScoreColumns(results)
    BY DEF RiskRow, AsRow
  <2>2. LocalInput(results) \in Nat
    BY ColumnTypes, OneIsPositive DEF Parts
  <2>3. shown.local_contribution = Larger(0, row.composite_risk - row.propagation_uplift)
    BY DEF Shown
  <2>4. \A n \in Name : shown.sub_scores[n].value = row.sub_score[n]
    BY DEF Shown, SubScoreShown
  <2>5. [n \in Name |-> shown.sub_scores[n].value] = SubScoreColumns(results)
    <3> HIDE DEF shown
    <3> QED BY <2>1, <2>4 DEF SubScoreColumns
  <2>6. LocalAggregate([n \in Name |-> shown.sub_scores[n].value]) = LocalInput(results)
    BY <2>5 DEF LocalInput
  <2> HIDE DEF row, shown
  <2>7. shown.local_contribution = LocalInput(results)
    BY <2>1, <2>2, <2>3 DEF Larger
  <2> QED BY <2>6, <2>7 DEF row, shown
<1>4. ASSUME NEW results \in Results, NEW uplift \in Nat,
             NEW shown \in {SegmentDetail(RiskRow(results, uplift), imagery, today),
                            RunScoreEntry(RiskRow(results, uplift)),
                            Snapshot(RiskRow(results, uplift))}
      PROVE  /\ shown.local_contribution = LocalInput(results)
             /\ shown.local_contribution
                  = LocalAggregate([n \in Name |-> shown.sub_scores[n].value])
  <2>1. RiskRow(results, uplift) \in Rows
    BY DEF Rows
  <2>2. PICK confidence \in ConfidenceIndicator :
          shown = Shown(RiskRow(results, uplift), confidence)
    BY <1>1, <2>1
  <2> QED BY <1>3, <2>2
<1> QED BY <1>2, <1>4

(* The delta of a segment adds up as well: the composite changes by the    *)
(* change of the local contribution plus the change of the uplift.         *)
THEOREM DeltaAddsUp ==
  ASSUME NEW a \in Rows, NEW b \in Rows
  PROVE  LET delta == SegmentDelta(a, b)
         IN  /\ delta.composite_delta
                  = delta.local_contribution_delta + delta.propagation_uplift_delta
             /\ SegmentDelta(b, a).composite_delta = -delta.composite_delta
             /\ \A n \in Name : delta.sub_score_deltas[n] \in (-One)..One
<1> DEFINE sa == Snapshot(a)
           sb == Snapshot(b)
<1>1. ASSUME NEW row \in Rows
      PROVE  /\ Snapshot(row).composite_risk \in Nat /\ Snapshot(row).local_contribution \in Nat
             /\ Snapshot(row).propagation_uplift \in Nat
             /\ Snapshot(row).composite_risk
                  = Snapshot(row).local_contribution + Snapshot(row).propagation_uplift
             /\ \A n \in Name : Snapshot(row).sub_scores[n].value \in 0..One
  <2>1. /\ SnapshotAccepted(Snapshot(row))
        /\ Snapshot(row).composite_risk
             = Snapshot(row).local_contribution + Snapshot(row).propagation_uplift
    BY RowIndicator, ShownType DEF Snapshot
  <2>2. \A n \in Name : Snapshot(row).sub_scores[n] \in SubScore
    BY <2>1 DEF SnapshotAccepted, Accepted
  <2> QED BY <2>1, <2>2 DEF SnapshotAccepted, SubScore
<1>2. /\ SegmentDelta(a, b).composite_delta = sb.composite_risk - sa.composite_risk
      /\ SegmentDelta(b, a).composite_delta = sa.composite_risk - sb.composite_risk
      /\ SegmentDelta(a, b).local_contribution_delta
           = sb.local_contribution - sa.local_contribution
      /\ SegmentDelta(a, b).propagation_uplift_delta
           = sb.propagation_uplift - sa.propagation_uplift
      /\ \A n \in Name : SegmentDelta(a, b).sub_score_deltas[n]
           = sb.sub_scores[n].value - sa.sub_scores[n].value
  BY DEF SegmentDelta
<1>3. /\ sa.composite_risk \in Nat /\ sa.local_contribution \in Nat /\ sa.propagation_uplift \in Nat
      /\ sa.composite_risk = sa.local_contribution + sa.propagation_uplift
      /\ \A n \in Name : sa.sub_scores[n].value \in 0..One
  BY <1>1
<1>4. /\ sb.composite_risk \in Nat /\ sb.local_contribution \in Nat /\ sb.propagation_uplift \in Nat
      /\ sb.composite_risk = sb.local_contribution + sb.propagation_uplift
      /\ \A n \in Name : sb.sub_scores[n].value \in 0..One
  BY <1>1
<1> HIDE DEF sa, sb
<1>5. \A n \in Name : SegmentDelta(a, b).sub_score_deltas[n] \in (-One)..One
  BY <1>2, <1>3, <1>4, OneIsPositive
<1> QED BY <1>2, <1>3, <1>4, <1>5

(* The detail says the lane markings are as uncertain as the segmentation  *)
(* model was on the worst image, as the row keeps no more than the least   *)
(* confidence of its sub-scores: the lane markings are that one, because   *)
(* the CLI's three other scorers always claim 1.  A segment without an     *)
(* image has no uncertainty to tell, and its row claims full confidence.   *)
THEOREM LaneUncertaintyIsPerceptions ==
  ASSUME NEW g \in 0..One, NEW images \in Images, NEW j \in 0..One, NEW raw \in Nat,
         NEW results \in Scored(g, images, j, raw), NEW uplift \in Nat
  PROVE  LET row == RiskRow(results, uplift)
         IN  /\ images # {} =>
                  /\ ~row.is_stub["lane_marking"]
                  /\ LaneUncertainty(row) = Max(Uncertainties(images))
             /\ images = {} =>
                  row.is_stub["lane_marking"] /\ RunScoreEntry(row).confidence.value = One
<1> DEFINE row  == RiskRow(results, uplift)
           lane == results["lane_marking"]
           C    == {results[n].confidence : n \in Real(results)}
<1>1. /\ results \in [Name -> SubScoreResult] /\ lane \in LaneMarkings(images)
      /\ \A n \in Name \ {"lane_marking"} : ~results[n].is_stub /\ results[n].confidence = One
  BY ScoredType
<1>2. Real(results) = {n \in Name : ~results[n].is_stub} /\ Real(results) # {}
  BY <1>1 DEF Real, IsStub, Name
<1>3. row.confidence = Min(C) /\ (row.is_stub["lane_marking"] <=> lane.is_stub)
  <2>1. row.confidence = Min(C)
    BY <1>2 DEF RiskRow, AsRow
  <2>2. row.is_stub["lane_marking"] = IsStub(results, "lane_marking")
    BY DEF RiskRow, AsRow, Name
  <2>3. IsStub(results, "lane_marking") <=> lane.is_stub
    BY <1>1 DEF IsStub, Name
  <2> QED BY <2>1, <2>2, <2>3
<1>4. LaneUncertainty(row) = Larger(0, One - row.confidence)
      /\ RunScoreEntry(row).confidence.value = row.confidence
  BY DEF LaneUncertainty, ModelUncertainty, RunScoreEntry, Shown, ScalarConfidence
<1>5. /\ lane.is_stub <=> images = {}
      /\ images # {} => /\ Max(Uncertainties(images)) \in 0..One
                        /\ lane.confidence = One - Max(Uncertainties(images))
      /\ lane.is_stub \in BOOLEAN
  <2>1. lane \in SubScoreResult
    BY <1>1, LaneType
  <2> QED BY <2>1, <1>1, LaneType DEF SubScoreResult
<1>6. CASE images = {}
  <2>1. Real(results) = {"glare", "junction_complexity", "historical"}
    BY <1>1, <1>2, <1>5, <1>6 DEF Name
  <2>2. C = {One}
    BY <1>1, <2>1 DEF Name
  <2> HIDE DEF C, row, lane
  <2>3. Min({One}) = One
    <3>1. {One} \subseteq Nat /\ {One} # {}
      BY OneIsPositive
    <3>2. Min({One}) \in {One}
      BY <3>1, MinOf
    <3> QED BY <3>2
  <2>4. row.confidence = One
    BY <1>3, <2>2, <2>3
  <2> QED BY <1>3, <1>4, <1>5, <1>6, <2>4 DEF row
<1>7. CASE images # {}
  <2> DEFINE u == Max(Uncertainties(images))
  <2>1. Real(results) = Name /\ lane.confidence = One - u /\ u \in 0..One
    BY <1>1, <1>2, <1>5, <1>7 DEF Name
  <2>2. C = {One, One - u}
    <3> HIDE DEF u
    <3>1. results["glare"].confidence = One /\ results["junction_complexity"].confidence = One
          /\ results["historical"].confidence = One /\ results["lane_marking"].confidence = One - u
      BY <1>1, <2>1 DEF Name
    <3> QED BY <2>1, <3>1 DEF Name
  <2> HIDE DEF C, row, lane, u
  <2>3. {One, One - u} \subseteq Nat /\ {One, One - u} # {}
    BY <2>1, OneIsPositive
  <2>4. Min({One, One - u}) \in {One, One - u} /\ \A c \in {One, One - u} : Min({One, One - u}) <= c
    BY <2>3, MinOf
  <2>5. Min({One, One - u}) = One - u
    BY <2>1, <2>4, OneIsPositive
  <2>6. row.confidence = One - u
    BY <1>3, <2>2, <2>5
  <2>7. LaneUncertainty(row) = u
    BY <1>4, <2>1, <2>6, OneIsPositive DEF Larger
  <2> QED BY <1>3, <1>5, <1>7, <2>7 DEF row, u
<1> QED BY <1>6, <1>7
=============================================================================
