---------------------------- MODULE Catalog_proofs ----------------------------
(***************************************************************************)
(* The tables a run is computed from, for every set of cities, extracts,   *)
(* runs and crashes and every page and batch size.                         *)
(*                                                                         *)
(* SeedInv: the file a seed is about to parse is the whole extract it will *)
(* put into the 'osm' row.  RunInv: what a run has read is still in the    *)
(* tables, because nothing is removed from them, so a later read finds at  *)
(* least what an earlier one found.  JobInv: every crash the job is past   *)
(* is stored, in the batch, still to be taken, or was kept from it by an   *)
(* answer that was no full page.                                           *)
(***************************************************************************)
EXTENDS Catalog, SequenceTheorems, TLAPS

SeedInv ==
  \A c \in City :
    /\ seed[c].pc # "idle" => seed[c].version \in 1..LastVersion[c]
    /\ seed[c].pc \in {"fetched", "locked"} => cache[c] = seed[c].version
    /\ seed[c].pc = "parsed" => seed[c].ways = Ways[c][seed[c].version]

PastTopology == {"incidents", "segments", "edges", "score", "scored", "failed"}
PastIncidents == PastTopology \ {"incidents"}
PastSegments == PastIncidents \ {"segments"}
PastEdges == PastSegments \ {"edges"}

Covers(S, t) == t # None => \E k \in S : At[k] >= t

Sound(c, x) ==
  /\ x.topology \subseteq Present(c) /\ x.segments \subseteq Present(c)
  /\ x.incidents \subseteq stored
  /\ x.pc # "idle" => x.date # None
  /\ x.pc # "idle" /\ x.date.city = c => Ways[c][x.date.version] \subseteq Present(c)
  /\ x.pc \in PastTopology /\ x.date.city = c => Ways[c][x.date.version] \subseteq x.topology
  /\ Covers(stored, x.window)
  /\ x.pc \in PastIncidents /\ c = Covered => Covers(x.incidents, x.window)
  /\ x.pc \in PastSegments => x.topology \subseteq x.segments
  /\ x.pc \in PastEdges => x.segments \subseteq x.edges
  /\ x.pc = "scored" => x.segments \subseteq x.topology

RunInv == \A r \in Run : Sound(CityOf[r], run[r])

Rest == {job.todo[i] : i \in 1..Len(job.todo)}

JobInv ==
  /\ job.pc = "run" =>
       /\ job.existing \subseteq stored \cup job.batch
       /\ \A y \in 1..Years : \A i \in 1..Len(Layer[y]) :
            (y < job.year \/ (y = job.year /\ i <= job.offset)) /\ Layer[y][i] \in Located =>
              Layer[y][i] \in stored \cup job.batch \cup Rest \cup job.withheld
  /\ job.pc \in {"bump", "done"} => Located \subseteq stored \cup job.withheld
  /\ job.pc = "done" => fresh = SpanEnd(stored)
  /\ stored = {} => fresh = None

CatalogInv == TypeOK /\ StampIsWhole /\ SeedInv /\ RunInv /\ JobInv

-----------------------------------------------------------------------------
(* The latest crash of a set is one of them and none is later.             *)
LEMMA LatestExists ==
  ASSUME NEW S \in SUBSET Crash, S # {}
  PROVE  MaxAt(S) \in Nat /\ \E k \in S : At[k] = MaxAt(S)
<1>1. PICK k \in S : \A l \in S : At[l] <= At[k]
  BY CatalogAssumption
<1>2. \E t \in {At[l] : l \in S} : \A l \in S : At[l] <= t
  BY <1>1
<1>3. MaxAt(S) \in {At[l] : l \in S}
  BY <1>2 DEF MaxAt
<1> QED
  BY <1>3, CatalogAssumption

(* What the server answers is the beginning of the rest of the layer, and  *)
(* it says so if more is left.                                             *)
LEMMA AnswerIsPiece ==
  ASSUME NEW y \in 1..Years, NEW o \in Nat, NEW answer \in Answers(y, o)
  PROVE  LET f == answer.features
             rest == RestOf(y, o)
         IN  /\ f \in Seq(Crash) /\ Len(f) \in 0..PageSize /\ Len(rest) \in Nat
             /\ answer.exceeded <=> Len(f) < Len(rest)
             /\ \A j \in 1..Len(f) : f[j] = rest[j]
             /\ \A i \in 1..Len(Layer[y]) : o < i =>
                  i - o \in 1..Len(rest) /\ rest[i - o] = Layer[y][i]
<1> DEFINE rest == RestOf(y, o)
           m == Len(Layer[y])
<1>1. Layer[y] \in Seq(Crash) /\ m \in Nat /\ PageSize \in Nat \ {0}
  BY CatalogAssumption
<1>2. \A i \in (o + 1)..m : Layer[y][i] \in Crash
  BY <1>1
<1>3. /\ rest \in Seq(Crash)
      /\ Len(rest) = IF o + 1 <= m THEN m - (o + 1) + 1 ELSE 0
      /\ \A j \in 1..(m - (o + 1) + 1) : rest[j] = Layer[y][o + 1 + j - 1]
  <2> HIDE DEF m
  <2>1. rest = SubSeq(Layer[y], o + 1, m)
    BY DEF RestOf, m
  <2> HIDE DEF rest
  <2> QED
    BY <1>1, <1>2, <2>1, SubSeqProperties
<1> HIDE DEF rest
<1>4. Len(rest) \in Nat /\ \A j \in 1..Len(rest) : rest[j] \in Crash
  BY <1>3
<1>5. PICK n \in 0..PageSize :
        /\ n <= Len(rest)
        /\ answer = [features |-> SubSeq(rest, 1, n), exceeded |-> n < Len(rest)]
  BY DEF Answers, rest
<1>6. /\ answer.features = SubSeq(rest, 1, n)
      /\ answer.exceeded = (n < Len(rest))
  BY <1>5
<1>7. n \in Nat /\ n <= Len(rest) /\ \A j \in 1..n : rest[j] \in Crash
  BY <1>1, <1>4, <1>5
<1>8. /\ answer.features \in Seq(Crash)
      /\ Len(answer.features) = n
      /\ \A j \in 1..n : answer.features[j] = rest[j]
  <2>1. /\ SubSeq(rest, 1, n) \in Seq(Crash)
        /\ Len(SubSeq(rest, 1, n)) = IF 1 <= n THEN n - 1 + 1 ELSE 0
        /\ \A j \in 1..(n - 1 + 1) : SubSeq(rest, 1, n)[j] = rest[1 + j - 1]
    BY <1>3, <1>7, SubSeqProperties
  <2>2. \A j \in 1..n : 1 + j - 1 = j
    BY <1>7
  <2> QED
    BY <1>6, <1>7, <2>1, <2>2
<1>9. ASSUME NEW i \in 1..m, o < i
      PROVE  i - o \in 1..Len(rest) /\ rest[i - o] = Layer[y][i]
  <2>1. o + 1 <= m /\ i - o \in 1..(m - (o + 1) + 1) /\ o + 1 + (i - o) - 1 = i
    BY <1>1, <1>9
  <2> QED
    BY <1>1, <1>3, <2>1
<1> QED
  BY <1>4, <1>5, <1>6, <1>8, <1>9 DEF rest, m

(* Nothing is there yet.                                                   *)
LEMMA CatalogInit == Init => CatalogInv
<1> SUFFICES ASSUME Init PROVE CatalogInv
  OBVIOUS
<1>1. TypeOK
  <2>1. \A c \in City : 1 \in 1..LastVersion[c]
    BY CatalogAssumption
  <2>2. NoSeed \in SeedState
    BY DEF NoSeed, SeedState
  <2>3. NoJob \in JobState
    BY CatalogAssumption DEF NoJob, JobState
  <2>4. NoRun \in RunState
    BY DEF NoRun, RunState
  <2> QED
    BY <2>1, <2>2, <2>3, <2>4 DEF Init, TypeOK
<1>2. SeedInv /\ RunInv /\ JobInv /\ StampIsWhole
  BY DEF Init, SeedInv, RunInv, Sound, JobInv, StampIsWhole, NoSeed, NoRun, NoJob, Covers,
         PastTopology, PastIncidents, PastSegments, PastEdges
<1> QED
  BY <1>1, <1>2 DEF CatalogInv

-----------------------------------------------------------------------------
(* A seed until it commits: only its own state and file change.            *)
LEMMA SeedStep ==
  ASSUME CatalogInv, NEW c \in City,
         Publish(c) \/ CacheHit(c) \/ StartDownload(c) \/ FinishDownload(c)
           \/ LockShare(c) \/ Parse(c) \/ KillSeed(c)
  PROVE  CatalogInv'
<1>1. /\ UNCHANGED <<roads, osm, cities, job, stored, fresh, run>>
      /\ seed \in [City -> SeedState] /\ seed[c] \in SeedState
      /\ cache \in [City -> Nat \cup {None}]
      /\ upstream \in [City -> Nat] /\ upstream[c] \in 1..LastVersion[c]
      /\ LastVersion[c] \in Nat
  BY CatalogAssumption DEF CatalogInv, TypeOK, Publish, CacheHit, StartDownload, FinishDownload,
     LockShare, Parse, KillSeed, incidentVars
<1>2. JobInv' /\ StampIsWhole'
  <2>1. JobInv'
    BY <1>1 DEF CatalogInv, JobInv, Rest
  <2>2. StampIsWhole'
    BY <1>1 DEF CatalogInv, StampIsWhole
  <2> QED
    BY <2>1, <2>2
<1>3. RunInv'
  BY <1>1 DEF CatalogInv, RunInv, Sound, Present
<1>4. ASSUME NEW v \in 1..LastVersion[c]
      PROVE  Ways[c][v] \subseteq Way
  BY <1>4 DEF Way, WaysIn
<1>5. /\ seed' \in [City -> SeedState] /\ cache' \in [City -> Nat \cup {None}]
      /\ upstream' \in [City -> Nat] /\ \A d \in City : upstream'[d] \in 1..LastVersion[d]
      /\ SeedInv'
  <2> USE <1>1 DEF CatalogInv, SeedInv, SeedState, Seeding
  <2>1. CASE Publish(c)
    BY <2>1 DEF Publish, TypeOK, incidentVars
  <2>2. CASE CacheHit(c)
    BY <2>2 DEF CacheHit, NoSeed, TypeOK
  <2>3. CASE StartDownload(c)
    BY <2>3 DEF StartDownload, NoSeed, TypeOK
  <2>4. CASE FinishDownload(c)
    BY <2>4 DEF FinishDownload, TypeOK
  <2>5. CASE LockShare(c)
    BY <2>5 DEF LockShare, TypeOK
  <2>6. CASE Parse(c)
    <3>1. seed[c].version \in 1..LastVersion[c] /\ cache[c] = seed[c].version
      <4>1. seed[c].pc = "locked"
        BY <2>6 DEF Parse
      <4> QED
        BY <4>1
    <3>3. cache[c] # 0
      BY <3>1
    <3>2. seed' = [seed EXCEPT ![c] = [seed[c] EXCEPT !.pc = "parsed",
                     !.ways = Ways[c][seed[c].version]]]
      BY <2>6, <3>1, <3>3 DEF Parse, Readable
    <3> QED
      BY <2>6, <3>1, <3>2, <1>4 DEF Parse, TypeOK
  <2>7. CASE KillSeed(c)
    BY <2>7 DEF KillSeed, NoSeed, TypeOK
  <2> QED
    BY <2>1, <2>2, <2>3, <2>4, <2>5, <2>6, <2>7
<1>6. TypeOK'
  BY <1>1, <1>5 DEF CatalogInv, TypeOK
<1> QED
  BY <1>2, <1>3, <1>5, <1>6 DEF CatalogInv

(* The transaction of a seed: ways are added or replaced, none goes.       *)
LEMMA PersistStep ==
  ASSUME CatalogInv, NEW c \in City, Persist(c)
  PROVE  CatalogInv'
<1> DEFINE v == seed[c].version
<1>1. /\ seed \in [City -> SeedState] /\ seed[c] \in SeedState
      /\ v \in 1..LastVersion[c] /\ v \in Nat /\ v # 0
      /\ seed[c].ways = Ways[c][v] /\ Ways[c][v] \subseteq Way
      /\ roads \in [Way -> Nat]
      /\ roads' = [w \in Way |-> IF w \in Ways[c][v] THEN v ELSE roads[w]]
      /\ osm' = [city |-> c, version |-> v]
      /\ seed' = [seed EXCEPT ![c] = NoSeed]
      /\ UNCHANGED <<upstream, cache, cities, job, stored, fresh, run>>
  <2>1. /\ seed \in [City -> SeedState] /\ seed[c].pc = "parsed"
        /\ roads \in [Way -> Nat] /\ LastVersion[c] \in Nat
    BY CatalogAssumption DEF CatalogInv, TypeOK, Persist
  <2>2. v \in 1..LastVersion[c] /\ seed[c].ways = Ways[c][v]
    BY <2>1 DEF CatalogInv, SeedInv
  <2>3. Ways[c][v] \subseteq Way
    BY <2>2 DEF Way, WaysIn
  <2> QED
    BY <2>1, <2>2, <2>3 DEF Persist, Seeding, incidentVars
<1> HIDE DEF v
<1>2. roads' \in [Way -> Nat] /\ \A w \in Way : roads[w] # 0 => roads'[w] # 0
  BY <1>1
<1>3. osm' \in Stamp
  BY <1>1 DEF Stamp
<1>4. seed' \in [City -> SeedState] /\ SeedInv'
  BY <1>1 DEF CatalogInv, SeedInv, SeedState, NoSeed
<1>5. TypeOK'
  BY <1>1, <1>2, <1>3, <1>4 DEF CatalogInv, TypeOK
<1>6. StampIsWhole'
  BY <1>1 DEF StampIsWhole
<1>7. JobInv'
  BY <1>1 DEF CatalogInv, JobInv, Rest
<1>8. \A d \in City : Present(d) \subseteq Present(d)'
  BY <1>2 DEF Present, Way
<1>9. RunInv'
  BY <1>1, <1>8, CatalogAssumption DEF CatalogInv, RunInv, Sound
<1> QED
  BY <1>4, <1>5, <1>6, <1>7, <1>9 DEF CatalogInv

-----------------------------------------------------------------------------
(* What a run has read of the incidents stays stored.                      *)
LEMMA StoredGrows ==
  ASSUME CatalogInv, UNCHANGED <<roads, run>>, stored \subseteq stored'
  PROVE  RunInv'
BY DEF CatalogInv, RunInv, Sound, Present, Covers

(* The incident job.                                                       *)
LEMMA JobStep ==
  ASSUME CatalogInv, IngestIncidents
  PROVE  CatalogInv'
<1>1. /\ UNCHANGED <<upstream, cache, seed, roads, osm, cities, run>>
      /\ job \in JobState /\ stored \subseteq Located /\ fresh \in Nat \cup {None}
      /\ Located \subseteq Crash /\ Years \in Nat
      /\ (stored = {} => fresh = None)
  BY CatalogAssumption DEF CatalogInv, JobInv, TypeOK, IngestIncidents, StartJob, FetchPage, TakeRecord,
     FlushRest, Bump, KillJob, osmVars
<1>2. NoJob \in JobState
  BY <1>1, EmptySeq DEF JobState, NoJob
<1>3. /\ job' \in JobState /\ stored' \subseteq Located /\ fresh' \in Nat \cup {None}
      /\ stored \subseteq stored' /\ JobInv'
  <2>1. CASE StartJob
    <3>1. /\ job'.pc = "run" /\ job'.existing = stored /\ job'.year = 1 /\ job'.offset = 0
          /\ UNCHANGED <<stored, fresh>>
          /\ job' = [NoJob EXCEPT !.pc = "run", !.existing = stored]
      BY <2>1 DEF StartJob, NoJob
    <3>2. job' \in JobState
      BY <1>1, <1>2, <3>1 DEF JobState
    <3>3. ASSUME NEW y \in 1..Years, NEW i \in 1..Len(Layer[y])
          PROVE  ~(y < job'.year \/ (y = job'.year /\ i <= job'.offset))
      BY <1>1, <3>1
    <3>4. JobInv'
      BY <1>1, <3>1, <3>3 DEF JobInv
    <3> QED
      BY <1>1, <3>1, <3>2, <3>4
  <2>2. CASE FetchPage
    <3> DEFINE y == job.year
               o == job.offset
    <3>1. /\ job.pc = "run" /\ y \in 1..Years /\ o \in Nat /\ job.todo = <<>>
          /\ UNCHANGED <<stored, fresh>>
      BY <1>1, <2>2 DEF FetchPage, JobState
    <3>2. PICK answer \in Answers(y, o) :
            job' = [job EXCEPT !.todo = answer.features,
                      !.year = NextRequest(y, o, answer)[1],
                      !.offset = NextRequest(y, o, answer)[2],
                      !.withheld = @ \cup Withheld(y, o, answer)]
      BY <2>2 DEF FetchPage
    <3> DEFINE f == answer.features
               rest == RestOf(y, o)
               n == Len(f)
    <3>3. /\ f \in Seq(Crash) /\ n \in Nat /\ n <= PageSize /\ Len(rest) \in Nat
          /\ answer.exceeded <=> n < Len(rest)
          /\ \A j \in 1..n : f[j] = rest[j]
          /\ \A i \in 1..Len(Layer[y]) : o < i =>
               i - o \in 1..Len(rest) /\ rest[i - o] = Layer[y][i]
      <4>1. Len(f) \in 0..PageSize /\ PageSize \in Nat
        BY <3>1, AnswerIsPiece, CatalogAssumption
      <4> QED
        BY <3>1, <4>1, AnswerIsPiece
    <3>4. \/ NextRequest(y, o, answer) = <<y, o + n>> /\ n >= PageSize
          \/ NextRequest(y, o, answer) = <<y + 1, 0>> /\ (n < PageSize \/ Len(rest) <= n)
      <4>1. PageSize \in Nat
        BY CatalogAssumption
      <4> QED
        BY <3>3, <4>1 DEF NextRequest
    <3>5. Withheld(y, o, answer) =
            {k \in Crash :
               n < PageSize /\ Wanted(k) /\ \E i \in (n + 1)..Len(rest) : rest[i] = k}
      BY DEF Withheld
    <3>6. Layer[y] \in Seq(Crash) /\ Len(Layer[y]) \in Nat
      BY <3>1, CatalogAssumption
    <3> HIDE DEF y, o, f, rest, n
    <3>7. /\ job'.pc = "run" /\ job'.batch = job.batch /\ job'.existing = job.existing
          /\ job'.todo = f /\ job'.withheld = job.withheld \cup Withheld(y, o, answer)
          /\ \/ job'.year = y /\ job'.offset = o + n
             \/ job'.year = y + 1 /\ job'.offset = 0 /\ (n < PageSize \/ Len(rest) <= n)
          /\ job' \in JobState
      <4>1. /\ o + n \in Nat /\ y + 1 \in 1..(Years + 1) /\ y \in 1..(Years + 1)
            /\ Withheld(y, o, answer) \in SUBSET Crash
        BY <1>1, <3>1, <3>3, <3>5
      <4>2. /\ NextRequest(y, o, answer)[1] \in 1..(Years + 1)
            /\ NextRequest(y, o, answer)[2] \in Nat
        BY <3>4, <4>1
      <4>3. job' = [job EXCEPT !.todo = f, !.year = NextRequest(y, o, answer)[1],
                      !.offset = NextRequest(y, o, answer)[2],
                      !.withheld = @ \cup Withheld(y, o, answer)]
        BY <3>2 DEF f
      <4>4. job' \in JobState
        BY <1>1, <3>3, <4>1, <4>2, <4>3 DEF JobState
      <4>5. /\ job'.year = NextRequest(y, o, answer)[1]
            /\ job'.offset = NextRequest(y, o, answer)[2]
            /\ job'.pc = "run" /\ job'.batch = job.batch /\ job'.existing = job.existing
            /\ job'.todo = f /\ job'.withheld = job.withheld \cup Withheld(y, o, answer)
        BY <1>1, <3>1, <4>3 DEF JobState
      <4> QED
        BY <3>4, <4>4, <4>5
    <3>8. ASSUME NEW z \in 1..Years, NEW i \in 1..Len(Layer[z]), Layer[z][i] \in Located,
                 z < job'.year \/ (z = job'.year /\ i <= job'.offset)
          PROVE  Layer[z][i] \in stored' \cup job'.batch \cup Rest' \cup job'.withheld
      <4>1. CASE z < y \/ (z = y /\ i <= o)
        <5>1. Rest = {}
          BY <3>1 DEF Rest
        <5>2. Layer[z][i] \in stored \cup job.batch \cup Rest \cup job.withheld
          BY <3>1, <3>8, <4>1 DEF CatalogInv, JobInv, y, o
        <5> QED
          BY <3>1, <3>7, <5>1, <5>2
      <4>2. CASE ~(z < y \/ (z = y /\ i <= o))
        <5>0. y \in Nat /\ z \in Nat /\ o \in Nat /\ n \in Nat /\ Len(Layer[z]) \in Nat
          <6>1. Layer[z] \in Seq(Crash)
            BY CatalogAssumption
          <6> QED
            BY <1>1, <3>1, <3>3, <6>1
        <5>1. i \in Nat /\ 1 <= i
          BY <5>0
        <5>2. z = y
          BY <3>7, <3>8, <4>2, <5>0, <5>1
        <5>3. o < i /\ i - o \in 1..Len(rest) /\ rest[i - o] = Layer[z][i]
          BY <3>3, <4>2, <5>0, <5>1, <5>2
        <5>4. CASE i - o <= n
          <6>1. i - o \in 1..n /\ f[i - o] = Layer[z][i]
            BY <3>3, <5>0, <5>3, <5>4
          <6> QED
            BY <3>7, <6>1 DEF Rest, n
        <5>5. CASE ~(i - o <= n)
          <6>1. i - o \in (n + 1)..Len(rest) /\ ~(Len(rest) <= n)
            BY <3>3, <5>0, <5>3, <5>5
          <6>2. n < PageSize
            BY <3>7, <3>8, <5>0, <5>1, <5>2, <5>5, <6>1
          <6>3. CASE Wanted(Layer[z][i])
            <7>1. Layer[z][i] \in Withheld(y, o, answer)
              BY <1>1, <3>5, <3>8, <5>3, <6>1, <6>2, <6>3
            <7> QED
              BY <3>7, <7>1
          <6>4. CASE ~Wanted(Layer[z][i])
            <7>1. Layer[z][i] \in job.existing
              BY <3>8, <6>4 DEF Wanted
            <7>2. job.existing \subseteq stored \cup job.batch
              BY <3>1 DEF CatalogInv, JobInv
            <7> QED
              BY <3>1, <3>7, <7>1, <7>2
          <6> QED
            BY <6>3, <6>4
        <5> QED
          BY <5>4, <5>5
      <4> QED
        BY <4>1, <4>2
    <3>9. JobInv'
      BY <3>1, <3>7, <3>8 DEF CatalogInv, JobInv
    <3> QED
      BY <1>1, <3>1, <3>7, <3>9
  <2>3. CASE TakeRecord
    <3> DEFINE k == Head(job.todo)
               taken == IF Wanted(k) THEN {k} ELSE {}
               b == job.batch \cup taken
               full == Cardinality(b) >= BatchSize
    <3>1. /\ job.pc = "run" /\ job.todo # <<>> /\ job.todo \in Seq(Crash)
          /\ fresh' = fresh
          /\ stored' = IF full THEN stored \cup b ELSE stored
          /\ job' = [job EXCEPT !.todo = Tail(@), !.batch = IF full THEN {} ELSE b,
                                !.existing = @ \cup taken]
      BY <1>1, <2>3 DEF TakeRecord, JobState
    <3>2. taken \subseteq Located /\ (k \in Located => k \in taken \cup job.existing)
      BY DEF Wanted
    <3>3. /\ Tail(job.todo) \in Seq(Crash) /\ Len(job.todo) \in Nat \ {0}
          /\ Len(Tail(job.todo)) = Len(job.todo) - 1
          /\ \A i \in 1..(Len(job.todo) - 1) : Tail(job.todo)[i] = job.todo[i + 1]
          /\ k = job.todo[1]
      <4>1. Len(job.todo) \in Nat \ {0}
        BY <3>1, EmptySeq
      <4> QED
        BY <3>1, <4>1, HeadTailProperties
    <3> HIDE DEF k, taken, b, full
    <3>4. /\ job'.pc = "run" /\ job'.year = job.year /\ job'.offset = job.offset
          /\ job'.todo = Tail(job.todo) /\ job'.existing = job.existing \cup taken
          /\ job'.withheld = job.withheld
          /\ stored' \cup job'.batch = stored \cup job.batch \cup taken
          /\ stored' \subseteq stored \cup b /\ b = job.batch \cup taken
          /\ job' \in JobState
      <4>1. job.batch \subseteq Located /\ job.existing \subseteq Located
        BY <1>1 DEF JobState
      <4>2. b = job.batch \cup taken
        BY DEF b
      <4> QED
        BY <1>1, <3>1, <3>2, <3>3, <4>1, <4>2 DEF JobState
    <3>5. Rest \subseteq Rest' \cup {k}
      <4> SUFFICES ASSUME NEW i \in 1..Len(job.todo) PROVE job.todo[i] \in Rest' \cup {k}
        BY DEF Rest
      <4>1. CASE i = 1
        BY <3>3, <4>1
      <4>2. CASE i # 1
        <5>1. i - 1 \in 1..(Len(job.todo) - 1) /\ (i - 1) + 1 = i
          BY <3>3, <4>2
        <5>2. Tail(job.todo)[i - 1] = job.todo[i]
          BY <3>3, <5>1
        <5> QED
          BY <3>3, <3>4, <5>1, <5>2 DEF Rest
      <4> QED
        BY <4>1, <4>2
    <3>6. JobInv'
      <4>1. job.existing \subseteq stored \cup job.batch
        BY <3>1 DEF CatalogInv, JobInv
      <4>2. job'.existing \subseteq stored' \cup job'.batch
        BY <3>4, <4>1
      <4>3. ASSUME NEW y \in 1..Years, NEW i \in 1..Len(Layer[y]), Layer[y][i] \in Located,
                   y < job.year \/ (y = job.year /\ i <= job.offset)
            PROVE  Layer[y][i] \in stored' \cup job'.batch \cup Rest' \cup job'.withheld
        <5>1. Layer[y][i] \in stored \cup job.batch \cup Rest \cup job.withheld
          BY <3>1, <4>3 DEF CatalogInv, JobInv
        <5> QED
          BY <3>2, <3>4, <3>5, <4>1, <4>3, <5>1
      <4>4. stored' = {} => fresh' = None
        BY <1>1, <3>1
      <4> QED
        BY <3>4, <4>2, <4>3, <4>4 DEF JobInv
    <3>7. stored' \subseteq Located /\ stored \subseteq stored'
      BY <1>1, <3>1, <3>2, <3>4 DEF JobState
    <3> QED
      BY <1>1, <3>1, <3>4, <3>6, <3>7
  <2>4. CASE FlushRest
    <3>1. /\ job.pc = "run" /\ job.todo = <<>> /\ job.year > Years /\ fresh' = fresh
          /\ stored' = stored \cup job.batch /\ job.batch \subseteq Located
          /\ job' = [job EXCEPT !.pc = "bump", !.batch = {}]
      BY <1>1, <2>4 DEF FlushRest, JobState
    <3>2. job' \in JobState /\ job'.pc = "bump" /\ job'.withheld = job.withheld
      BY <1>1, <3>1 DEF JobState
    <3>3. ASSUME NEW k \in Located PROVE k \in stored' \cup job'.withheld
      <4>0. PICK y \in 1..Years : \E i \in DOMAIN Layer[y] : Layer[y][i] = k
        BY <1>1 DEF Crash
      <4>1. PICK i \in DOMAIN Layer[y] : Layer[y][i] = k
        BY <4>0
      <4>2. i \in 1..Len(Layer[y])
        <5>1. Layer[y] \in Seq(Crash)
          BY CatalogAssumption
        <5> QED
          BY <5>1, LenProperties
      <4>3. y < job.year
        BY <1>1, <3>1, <4>1 DEF JobState
      <4>4. k \in stored \cup job.batch \cup Rest \cup job.withheld
        <5>1. \A z \in 1..Years : \A j \in 1..Len(Layer[z]) :
                (z < job.year \/ (z = job.year /\ j <= job.offset)) /\ Layer[z][j] \in Located =>
                  Layer[z][j] \in stored \cup job.batch \cup Rest \cup job.withheld
          BY <3>1 DEF CatalogInv, JobInv
        <5>2. Layer[y][i] \in Located =>
                Layer[y][i] \in stored \cup job.batch \cup Rest \cup job.withheld
          BY <4>2, <4>3, <5>1
        <5> QED
          BY <4>1, <5>2
      <4>5. Rest = {}
        BY <3>1 DEF Rest
      <4> QED
        BY <3>1, <3>2, <4>4, <4>5
    <3>4. stored' \subseteq Located /\ stored \subseteq stored' /\ fresh' \in Nat \cup {None}
      BY <1>1, <3>1
    <3>5. JobInv'
      BY <1>1, <3>1, <3>2, <3>3, <3>4 DEF JobInv
    <3> QED
      BY <1>1, <3>1, <3>2, <3>4, <3>5
  <2>5. CASE Bump
    <3>1. /\ Located \subseteq stored \cup job.withheld /\ stored' = stored
          /\ job' = [NoJob EXCEPT !.pc = "done", !.withheld = job.withheld]
          /\ fresh' = IF stored = {} THEN fresh ELSE MaxAt(stored)
      BY <2>5 DEF Bump, CatalogInv, JobInv
    <3>2. job' \in JobState /\ job'.pc = "done" /\ job'.withheld = job.withheld
      <4>1. job.withheld \in SUBSET Crash
        BY <1>1 DEF JobState
      <4> QED
        BY <1>2, <3>1, <4>1 DEF JobState, NoJob
    <3>3. fresh' = SpanEnd(stored) /\ (stored' = {} => fresh' = None)
      BY <1>1, <3>1 DEF SpanEnd
    <3>4. stored # {} => MaxAt(stored) \in Nat
      <4>1. stored \in SUBSET Crash
        BY <1>1
      <4> QED
        BY <4>1, LatestExists
    <3>5. fresh' \in Nat \cup {None}
      BY <1>1, <3>1, <3>4
    <3>6. SpanEnd(stored)' = SpanEnd(stored)
      BY <3>1 DEF SpanEnd, MaxAt
    <3>7. JobInv'
      BY <3>1, <3>2, <3>3, <3>6 DEF JobInv
    <3> QED
      BY <1>1, <3>1, <3>2, <3>5, <3>7
  <2>6. CASE KillJob
    <3>1. job' = NoJob /\ job'.pc = "idle" /\ UNCHANGED <<stored, fresh>>
      BY <2>6 DEF KillJob, NoJob
    <3>2. JobInv'
      BY <1>1, <3>1 DEF JobInv
    <3> QED
      BY <1>1, <1>2, <3>1, <3>2
  <2> QED
    BY <2>1, <2>2, <2>3, <2>4, <2>5, <2>6 DEF IngestIncidents
<1>4. TypeOK' /\ StampIsWhole' /\ SeedInv'
  BY <1>1, <1>3 DEF CatalogInv, TypeOK, StampIsWhole, SeedInv
<1>5. RunInv'
  BY <1>1, <1>3, StoredGrows
<1> QED
  BY <1>3, <1>4, <1>5 DEF CatalogInv

-----------------------------------------------------------------------------
(* A step of a run reads tables and writes none.                           *)
LEMMA RunStep ==
  ASSUME CatalogInv, NEW r \in Run, ScoringCli(r)
  PROVE  CatalogInv'
<1> DEFINE c == CityOf[r]
           x == run[r]
<1>1. /\ UNCHANGED <<upstream, cache, seed, roads, osm, cities, job, stored, fresh>>
      /\ c \in City /\ run \in [Run -> RunState] /\ x \in RunState
      /\ stored \subseteq Located /\ Located \subseteq Crash
      /\ Present(c) \subseteq Way /\ osm \in Stamp \cup {None}
  BY CatalogAssumption DEF CatalogInv, TypeOK, ScoringCli, ResolveDate, ResolveWindow, LoadTopology,
     LoadIncidents, LoadSegments, LoadAdjacency, Score, Running, osmVars, incidentVars, Present, Way
<1>2. TypeOK => SeedInv' /\ JobInv' /\ StampIsWhole'
  BY <1>1 DEF CatalogInv, SeedInv, JobInv, StampIsWhole, Rest
<1>3. SpanEnd(stored) \in Nat \cup {None} /\ Covers(stored, SpanEnd(stored))
  <2>1. CASE stored = {}
    BY <2>1 DEF SpanEnd, Covers
  <2>2. CASE stored # {}
    <3>1. MaxAt(stored) \in Nat /\ \E k \in stored : At[k] = MaxAt(stored)
      BY <1>1, <2>2, LatestExists
    <3> QED
      BY <2>2, <3>1 DEF SpanEnd, Covers
  <2> QED
    BY <2>1, <2>2
<1>4. osm # None => Ways[osm.city][osm.version] \subseteq Present(osm.city)
  <2> SUFFICES ASSUME osm # None
               PROVE  Ways[osm.city][osm.version] \subseteq Present(osm.city)
    OBVIOUS
  <2>1. osm.city \in City /\ osm.version \in 1..LastVersion[osm.city]
    BY <1>1 DEF Stamp
  <2>2. \A w \in Ways[osm.city][osm.version] : roads[w] = osm.version /\ osm.version # 0
    BY <2>1, CatalogAssumption DEF CatalogInv, StampIsWhole
  <2> QED
    BY <2>1, <2>2 DEF Present, WaysIn
<1>5. Sound(c, x)
  BY DEF CatalogInv, RunInv
<1>6. \E y \in RunState : run' = [run EXCEPT ![r] = y] /\ Sound(c, y)
  <2> USE DEF Sound, Running, RunState, PastTopology, PastIncidents, PastSegments, PastEdges
  <2>1. CASE ResolveDate(r)
    <3> DEFINE y == [x EXCEPT !.pc = "window", !.date = osm]
    <3>1. run' = [run EXCEPT ![r] = y] /\ osm # None
      BY <2>1 DEF ResolveDate
    <3>2. y \in RunState /\ Sound(c, y)
      BY <1>1, <1>4, <1>5, <3>1
    <3> QED
      BY <3>1, <3>2
  <2>2. CASE ResolveWindow(r)
    <3> DEFINE y == [x EXCEPT !.pc = "topology", !.window = SpanEnd(stored)]
    <3>1. run' = [run EXCEPT ![r] = y] /\ x.pc = "window"
      BY <2>2 DEF ResolveWindow
    <3>2. y \in RunState /\ Sound(c, y)
      BY <1>1, <1>3, <1>5, <3>1
    <3> QED
      BY <3>1, <3>2
  <2>3. CASE LoadTopology(r)
    <3> DEFINE y == [x EXCEPT !.pc = "incidents", !.topology = Present(c)]
    <3>1. run' = [run EXCEPT ![r] = y] /\ x.pc = "topology"
      BY <2>3 DEF LoadTopology
    <3>2. y \in RunState /\ Sound(c, y)
      BY <1>1, <1>5, <3>1
    <3> QED
      BY <3>1, <3>2
  <2>4. CASE LoadIncidents(r)
    <3> DEFINE y == [x EXCEPT !.pc = "segments",
                       !.incidents = IF c = Covered THEN stored ELSE {}]
    <3>1. run' = [run EXCEPT ![r] = y] /\ x.pc = "incidents"
      BY <2>4 DEF LoadIncidents
    <3>2. y \in RunState /\ Sound(c, y)
      BY <1>1, <1>5, <3>1
    <3> QED
      BY <3>1, <3>2
  <2>5. CASE LoadSegments(r)
    <3> DEFINE y == [x EXCEPT !.pc = "edges", !.segments = Present(c)]
    <3>1. run' = [run EXCEPT ![r] = y] /\ x.pc = "segments"
      BY <2>5 DEF LoadSegments
    <3>2. y \in RunState /\ Sound(c, y)
      BY <1>1, <1>5, <3>1
    <3> QED
      BY <3>1, <3>2
  <2>6. CASE LoadAdjacency(r)
    <3> DEFINE y == [x EXCEPT !.pc = "score", !.edges = Present(c)]
    <3>1. run' = [run EXCEPT ![r] = y] /\ x.pc = "edges"
      BY <2>6 DEF LoadAdjacency
    <3>2. y \in RunState /\ Sound(c, y)
      BY <1>1, <1>5, <3>1
    <3> QED
      BY <3>1, <3>2
  <2>7. CASE Score(r)
    <3> DEFINE y == [x EXCEPT !.pc =
                       IF x.segments \subseteq x.topology THEN "scored" ELSE "failed"]
    <3>1. run' = [run EXCEPT ![r] = y] /\ x.pc = "score"
      BY <2>7 DEF Score
    <3>2. y \in RunState /\ Sound(c, y)
      BY <1>1, <1>5, <3>1
    <3> QED
      BY <3>1, <3>2
  <2> QED
    BY <2>1, <2>2, <2>3, <2>4, <2>5, <2>6, <2>7 DEF ScoringCli
<1>7. RunInv'
  <2>1. PICK y \in RunState : run' = [run EXCEPT ![r] = y] /\ Sound(c, y)
    BY <1>6
  <2>2. \A d \in City : Present(d)' = Present(d)
    BY <1>1 DEF Present
  <2>3. ASSUME NEW q \in Run
        PROVE  Sound(CityOf[q], run[q])'
    <3>1. CityOf[q] \in City
      BY CatalogAssumption
    <3>2. run'[q] = IF q = r THEN y ELSE run[q]
      BY <1>1, <2>1
    <3>3. Sound(CityOf[q], run'[q])
      BY <2>1, <3>2 DEF CatalogInv, RunInv
    <3> QED
      BY <1>1, <2>2, <3>1, <3>3 DEF Sound, Covers
  <2> QED
    BY <2>3 DEF RunInv
<1>8. TypeOK'
  BY <1>1, <1>6 DEF CatalogInv, TypeOK
<1> QED
  BY <1>2, <1>7, <1>8 DEF CatalogInv

(* Seeding the cities only adds rows to a table of its own.                *)
LEMMA CitiesStep ==
  ASSUME CatalogInv, NEW S \in SUBSET City, SeedCities(S)
  PROVE  CatalogInv'
<1>1. /\ UNCHANGED <<upstream, cache, seed, roads, osm>>
      /\ UNCHANGED <<job, stored, fresh, run>>
      /\ cities' = cities \cup S
  BY DEF SeedCities, incidentVars
<1>2. TypeOK' /\ StampIsWhole' /\ SeedInv'
  BY <1>1 DEF CatalogInv, TypeOK, StampIsWhole, SeedInv
<1>3. RunInv'
  BY <1>1, StoredGrows
<1>4. JobInv'
  BY <1>1 DEF CatalogInv, JobInv, Rest
<1> QED
  BY <1>2, <1>3, <1>4 DEF CatalogInv

LEMMA CatalogStep ==
  ASSUME CatalogInv, [Next]_vars
  PROVE  CatalogInv'
<1>1. CASE \E c \in City : Publish(c) \/ Seed(c)
  BY <1>1, SeedStep, PersistStep DEF Seed
<1>2. CASE IngestIncidents
  BY <1>2, JobStep
<1>3. CASE \E r \in Run : ScoringCli(r)
  BY <1>3, RunStep
<1>4. CASE UNCHANGED vars
  <2>1. /\ UNCHANGED <<upstream, cache, seed, roads, osm, cities>>
        /\ UNCHANGED <<job, stored, fresh, run>>
    BY <1>4 DEF vars, osmVars, incidentVars
  <2>2. TypeOK' /\ StampIsWhole' /\ SeedInv'
    BY <2>1 DEF CatalogInv, TypeOK, StampIsWhole, SeedInv
  <2>3. RunInv'
    BY <2>1, StoredGrows
  <2>4. JobInv'
    BY <2>1 DEF CatalogInv, JobInv, Rest
  <2> QED
    BY <2>2, <2>3, <2>4 DEF CatalogInv
<1>5. CASE \E S \in SUBSET City : SeedCities(S)
  BY <1>5, CitiesStep
<1> QED
  BY <1>1, <1>2, <1>3, <1>4, <1>5 DEF Next

-----------------------------------------------------------------------------
THEOREM CatalogInvariant == Spec => []CatalogInv
<1>1. Init => CatalogInv
  BY CatalogInit
<1>2. CatalogInv /\ [Next]_vars => CatalogInv'
  BY CatalogStep
<1> QED
  BY <1>1, <1>2, PTL DEF Spec

(* Every variable keeps its type.                                          *)
THEOREM CatalogTypes == Spec => []TypeOK
BY CatalogInvariant, PTL DEF CatalogInv

(* The 'osm' row of data_sources never names an extract that is not        *)
(* entirely in road_segments.                                              *)
THEOREM CatalogStampIsWhole == Spec => []StampIsWhole
BY CatalogInvariant, PTL DEF CatalogInv

(* What a completed run read at different moments fits together.           *)
THEOREM CatalogRunIsConsistent == Spec => []CompletedRunIsConsistent
<1>1. CatalogInv => CompletedRunIsConsistent
  BY DEF CatalogInv, RunInv, Sound, CompletedRunIsConsistent, Covers, PastTopology, PastIncidents,
     PastSegments, PastEdges
<1> QED
  BY <1>1, CatalogInvariant, PTL

(* A successful incident job has stored every crash the server did not     *)
(* keep from it, whatever was cut off before it.                           *)
THEOREM CatalogIncidentsAreComplete == Spec => []IncidentsAreComplete
<1>1. CatalogInv => IncidentsAreComplete
  BY DEF CatalogInv, JobInv, IncidentsAreComplete
<1> QED
  BY <1>1, CatalogInvariant, PTL
=============================================================================
