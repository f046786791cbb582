------------------------- MODULE TrafficQueryProofs -------------------------
(***************************************************************************)
(* Theorems of TrafficQuery, for any tables, clocks and requests.  The     *)
(* points a sort puts in order and the sums are defined by recursion over  *)
(* data; DataTheorems says what such definitions compute.                  *)
(***************************************************************************)
EXTENDS TrafficQuery, DataTheorems, TLAPS

-----------------------------------------------------------------------------
(* Durations.                                                              *)

(* A number of time units that fits a duration survives the conversion. *)
LEMMA WrapFits ==
  ASSUME NEW x \in 0..MaxDuration
  PROVE  Wrap(x) = x
<1> DEFINE H == MaxDuration + 1
           M == 2 * MaxDuration + 2
<1>1. x + H \in 0..(M - 1) /\ M \in Nat \ {0}
  BY QueryAssumption
<1>2. (x + H) % M = x + H
  <2> SUFFICES ASSUME NEW a \in Nat, NEW b \in Nat \ {0}, a < b
               PROVE  a % b = a
    BY <1>1
  <2> QED OBVIOUS
<1> QED BY <1>2, QueryAssumption DEF Wrap

(* A wrapped product is an integer. *)
LEMMA WrapType ==
  ASSUME NEW x \in Int
  PROVE  Wrap(x) \in Int
<1> DEFINE M == 2 * MaxDuration + 2
           a == x + MaxDuration + 1
<1>1. a \in Int /\ M \in Nat \ {0}
  BY QueryAssumption
<1> HIDE DEF a, M
<1>2. a % M \in Int
  BY <1>1
<1> QED BY <1>2, QueryAssumption DEF Wrap, a, M

(* So is a parsed length. *)
LEMMA ParseDurationType ==
  ASSUME NEW v \in Length, NEW d \in Int
  PROVE  ParseDuration(v, d) \in Int
<1>1. CASE v \in {None, Bad}
  BY <1>1 DEF ParseDuration
<1>2. CASE v \notin {None, Bad} /\ v \in Seconds
  <2>1. v.n * Second \in Int
    BY <1>2, QueryAssumption DEF Seconds
  <2> QED BY <1>2, <2>1, WrapType DEF ParseDuration, Seconds
<1>3. CASE v \notin {None, Bad} /\ v \in Durations
  BY <1>3, QueryAssumption DEF ParseDuration, Durations
<1> QED BY <1>1, <1>2, <1>3 DEF Length

(* A difference that is positive comes from an earlier time, even when it  *)
(* saturates.                                                              *)
LEMMA SubType ==
  ASSUME NEW t \in Int, NEW u \in Int
  PROVE  Sub(t, u) \in Int /\ (Sub(t, u) > 0 => u < t)
BY QueryAssumption DEF Sub

-----------------------------------------------------------------------------
(* Windows and answers.                                                    *)

(* The defaults are integers. *)
LEMMA DefaultRangeType == 24 * Hour \in Int
BY QueryAssumption

(* One of the default buckets. *)
LEMMA DefaultBucketType ==
  ASSUME NEW length \in Int
  PROVE  DefaultBucket(length) \in Int
BY QueryAssumption DEF DefaultBucket

(* The length of a window that is parsed is an integer. *)
LEMMA LengthType ==
  ASSUME NEW q \in Request, NEW t \in Int, ParseWindow(q, t) # None
  PROVE  ParseWindow(q, t).length \in Int
<1>1. CASE q.from = None
  <2>1. ParseDuration(q.range, 24 * Hour) \in Int
    BY ParseDurationType, DefaultRangeType DEF Request
  <2> QED BY <1>1, <2>1 DEF ParseWindow
<1>2. CASE q.from # None
  <2>1. q.from \in Moment /\ (q.to # None => q.to \in Moment)
    BY <1>2 DEF ParseWindow, Request, Timestamp
  <2> DEFINE to == IF q.to = None THEN [at |-> t, zone |-> 0] ELSE q.to
  <2>2. to.at \in Int /\ q.from.at \in Int
    BY <2>1 DEF Moment
  <2>3. ParseWindow(q, t).length = Sub(to.at, q.from.at)
    BY <1>2 DEF ParseWindow
  <2> HIDE DEF to
  <2> QED BY <2>2, <2>3, SubType
<1> QED BY <1>1, <1>2

(* A window that is parsed and has a positive length is not empty, and a   *)
(* number of seconds that fits is its length.                              *)
LEMMA WindowIsSound ==
  ASSUME NEW q \in Request, NEW t \in Int, NEW w, w = ParseWindow(q, t),
         w # None, w.length > 0
  PROVE  /\ w.from \in Int /\ w.to \in Int /\ w.length \in Int
         /\ w.zone \in Zones /\ w.from < w.to
         /\ w.to = IF q.to = None THEN t ELSE q.to.at
         /\ (/\ q.from = None
             /\ q.range \in Seconds
             /\ q.range.n * Second \in 0..MaxDuration)
            => w.to - w.from = q.range.n * Second
<1> DEFINE end == IF q.to = None THEN [at |-> t, zone |-> 0] ELSE q.to
           to == end.at
           asLong == ParseDuration(q.range, 24 * Hour)
<1>1. Bad \notin {q.from, q.to}
  BY DEF ParseWindow
<1>2. to \in Int /\ end.zone \in Zones
  BY <1>1, QueryAssumption DEF Request, Timestamp, Moment
<1>3. asLong \in Int
  BY ParseDurationType, DefaultRangeType DEF Request
<1>4. to = IF q.to = None THEN t ELSE q.to.at
  OBVIOUS
<1>5. CASE q.from = None
  <2>1. w = [from |-> to - asLong, zone |-> end.zone, to |-> to, length |-> asLong]
    BY <1>1, <1>5 DEF ParseWindow
  <2> HIDE DEF end, asLong
  <2>2. /\ w.from \in Int /\ w.to \in Int /\ w.length \in Int /\ w.from < w.to
        /\ w.zone \in Zones /\ w.to = to
    BY <1>2, <1>3, <2>1
  <2>3. ASSUME q.range \in Seconds, q.range.n * Second \in 0..MaxDuration
        PROVE  w.to - w.from = q.range.n * Second
    <3>1. CASE q.range \in {None, Bad}
      BY <2>3, <3>1, RequestAssumption
    <3>2. CASE q.range \notin {None, Bad}
      <4>1. asLong = Wrap(q.range.n * Second)
        BY <2>3, <3>2 DEF asLong, ParseDuration, Seconds
      <4>2. asLong = q.range.n * Second
        BY <2>3, <4>1, WrapFits
      <4> QED BY <1>2, <1>3, <2>1, <4>2
    <3> QED BY <3>1, <3>2
  <2> QED BY <1>4, <2>2, <2>3
<1>6. CASE q.from # None
  <2>1. q.from.at \in Int /\ q.from.zone \in Zones
    BY <1>1, <1>6 DEF Request, Timestamp, Moment
  <2>2. w = [from |-> q.from.at, zone |-> q.from.zone, to |-> to,
             length |-> Sub(to, q.from.at)]
    BY <1>1, <1>6 DEF ParseWindow
  <2> HIDE DEF end
  <2>3. Sub(to, q.from.at) \in Int /\ (Sub(to, q.from.at) > 0 => q.from.at < to)
    BY <1>2, <2>1, SubType
  <2>4. /\ w.from = q.from.at /\ w.to = to /\ w.length = Sub(to, q.from.at)
        /\ w.zone = q.from.zone
    BY <2>2
  <2> QED BY <1>2, <1>4, <1>6, <2>1, <2>3, <2>4
<1> QED BY <1>5, <1>6

(* What a request is answered with, when it is answered with a window.     *)
LEMMA AnswerIsSound ==
  ASSUME NEW q \in Request, NEW t \in Int, NEW rows, NEW a \in Traffic(q, t, rows),
         a.status = 200
  PROVE  /\ a.from \in Int /\ a.to \in Int /\ a.from < a.to /\ a.bucket > 0
         /\ (/\ q.from = None
             /\ q.range \in Seconds
             /\ q.range.n * Second \in 0..MaxDuration)
            => a.to - a.from = q.range.n * Second
         /\ LET I == Selected(rows, a.source, a.peer, a)
            IN  a.rx = Rx(rows, I) /\ a.tx = Tx(rows, I)
<1> DEFINE w == ParseWindow(q, t)
           bucket == ParseDuration(q.bucket, DefaultBucket(w.length))
           refused == \/ ~KnownSource(q.source) \/ w = None
                      \/ w.length <= 0 \/ bucket <= 0
           answers == Response(rows, SourceOf(q.source), q.peer, w, bucket)
<1>1. Traffic(q, t, rows) = IF refused THEN {BadRequest}
                            ELSE {ServerError} \union answers
  BY DEF Traffic
<1>2. BadRequest.status # 200 /\ ServerError.status # 200
  BY DEF BadRequest, ServerError
<1> HIDE DEF refused, answers
<1>3. ~refused /\ a \in answers
  BY <1>1, <1>2
<1>4. w # None /\ ~(w.length <= 0) /\ ~(bucket <= 0)
  BY <1>3 DEF refused
<1> HIDE DEF w, bucket
<1> DEFINE I == Selected(rows, SourceOf(q.source), q.peer, w)
<1>5. PICK order \in SetToSeqs(Points(rows, I, bucket)) :
        a = [status |-> 200, source |-> SourceOf(q.source), peer |-> q.peer,
             from |-> w.from, zone |-> w.zone, to |-> w.to, bucket |-> bucket,
             rx |-> Rx(rows, I), tx |-> Tx(rows, I), points |-> Sort(order)]
  BY <1>3 DEF answers, Response
<1>6. w.length \in Int
  BY <1>4, LengthType DEF w
<1>7. bucket \in Int
  BY <1>6, ParseDurationType, DefaultBucketType DEF Request, bucket
<1>8. /\ w.from \in Int /\ w.to \in Int /\ w.from < w.to
      /\ (/\ q.from = None
          /\ q.range \in Seconds
          /\ q.range.n * Second \in 0..MaxDuration)
         => w.to - w.from = q.range.n * Second
  BY <1>4, <1>6, WindowIsSound DEF w
<1>9. /\ a.source = SourceOf(q.source) /\ a.peer = q.peer
      /\ a.from = w.from /\ a.zone = w.zone /\ a.to = w.to /\ a.bucket = bucket
      /\ a.rx = Rx(rows, I) /\ a.tx = Tx(rows, I)
  BY <1>5
<1>10. Selected(rows, a.source, a.peer, a) = I
  BY <1>9 DEF Selected, InWindow
<1> QED BY <1>4, <1>7, <1>8, <1>9, <1>10

-----------------------------------------------------------------------------
(* Sorting the points.                                                     *)

(* The points are in the order of their times, one for a time. *)
Sorted(ps) == \A i, j \in DOMAIN ps : i < j => ps[i].at < ps[j].at

(* r is ps with p after its first j elements. *)
Inserts(r, ps, j, p, S) ==
  /\ r \in Seq(S) /\ Len(r) = Len(ps) + 1
  /\ \A i \in 1..j : r[i] = ps[i]
  /\ r[j + 1] = p
  /\ \A i \in j + 1 .. Len(ps) : r[i + 1] = ps[i]

(* What InsertAt of the library does. *)
LEMMA InsertAtIs ==
  ASSUME NEW S, NEW ps \in Seq(S), NEW j \in 0..Len(ps), NEW p \in S
  PROVE  Inserts(InsertAt(ps, j + 1, p), ps, j, p, S)
<1> DEFINE n == Len(ps)
           a == SubSeq(ps, 1, j)
           b == SubSeq(ps, j + 1, n)
           r == (a \o <<p>>) \o b
<1>0. n \in Nat /\ j \in Nat /\ j <= n /\ (j + 1) - 1 = j
  OBVIOUS
<1>1. InsertAt(ps, j + 1, p) = r
  BY <1>0 DEF InsertAt
<1>2. a \in Seq(S) /\ Len(a) = j /\ \A i \in 1..j : a[i] = ps[i]
  BY <1>0
<1>3. b \in Seq(S) /\ Len(b) = n - j /\ \A i \in 1..(n - j) : b[i] = ps[j + i]
  BY <1>0
<1> HIDE DEF a, b, n
<1>4. <<p>> \in Seq(S) /\ Len(<<p>>) = 1 /\ <<p>>[1] = p
  OBVIOUS
<1> DEFINE c == a \o <<p>>
<1>5. /\ c \in Seq(S) /\ Len(c) = j + 1
      /\ \A i \in 1..j : c[i] = a[i]
      /\ c[j + 1] = p
  BY <1>0, <1>2, <1>4
<1> HIDE DEF c
<1>6. /\ c \o b \in Seq(S) /\ Len(c \o b) = (j + 1) + (n - j)
      /\ \A i \in 1..(j + 1) : (c \o b)[i] = c[i]
      /\ \A i \in 1..(n - j) : (c \o b)[(j + 1) + i] = b[i]
  <2>1. /\ c \o b \in Seq(S) /\ Len(c \o b) = Len(c) + Len(b)
        /\ \A i \in 1..Len(c) : (c \o b)[i] = c[i]
        /\ \A i \in 1..Len(b) : (c \o b)[Len(c) + i] = b[i]
    <3>1. c \in Seq(S) /\ b \in Seq(S)
      BY <1>3, <1>5
    <3> QED BY <3>1
  <2> QED BY <1>0, <1>3, <1>5, <2>1
<1>7. r = c \o b
  BY DEF c
<1> HIDE DEF r
<1>8. \A i \in j + 1 .. n : r[i + 1] = ps[i]
  <2>1. ASSUME NEW i \in j + 1 .. n PROVE r[i + 1] = ps[i]
    <3>1. i - j \in 1..(n - j) /\ (j + 1) + (i - j) = i + 1 /\ j + (i - j) = i
      BY <1>0
    <3>2. (c \o b)[(j + 1) + (i - j)] = b[i - j] /\ b[i - j] = ps[j + (i - j)]
      BY <1>3, <1>6, <3>1
    <3> QED BY <1>7, <3>1, <3>2
  <2> QED BY <2>1
<1>9. r \in Seq(S) /\ Len(r) = n + 1 /\ r[j + 1] = p
  BY <1>0, <1>5, <1>6, <1>7
<1>10. \A i \in 1..j : r[i] = ps[i]
  BY <1>0, <1>2, <1>5, <1>6, <1>7
<1> QED BY <1>1, <1>8, <1>9, <1>10 DEF n, Inserts

(* One round of the sort keeps the order and adds the point. *)
LEMMA InsertIs ==
  ASSUME NEW ps \in Seq(ChartPoint), Sorted(ps), NEW p \in ChartPoint,
         \A i \in DOMAIN ps : ps[i].at # p.at
  PROVE  /\ Insert(ps, p) \in Seq(ChartPoint) /\ Sorted(Insert(ps, p))
         /\ Range(Insert(ps, p)) = Range(ps) \union {p}
<1> DEFINE n == Len(ps)
           before == {i \in DOMAIN ps : ps[i].at <= p.at}
           j == Cardinality(before)
           r == InsertAt(ps, j + 1, p)
<1>1. /\ n \in Nat /\ DOMAIN ps = 1..n
      /\ \A i \in 1..n : ps[i] \in ChartPoint
  OBVIOUS
<1>2. p.at \in Nat /\ \A i \in 1..n : ps[i].at \in Nat
  BY <1>1 DEF ChartPoint
<1>3. \A i, k \in 1..n : i < k => ps[i].at < ps[k].at
  BY <1>1 DEF Sorted
<1>4. Insert(ps, p) = r
  BY DEF Insert
<1> HIDE DEF n, r
<1>5. before \in SUBSET (1..n) /\ \A i, k \in 1..n : i < k /\ k \in before => i \in before
  <2>1. ASSUME NEW i \in 1..n, NEW k \in 1..n, i < k, k \in before
        PROVE  i \in before
    <3>1. ps[k].at <= p.at /\ ps[i].at < ps[k].at
      BY <1>1, <1>3, <2>1
    <3>2. ps[i].at <= p.at
      BY <1>2, <3>1
    <3> QED BY <1>1, <3>2
  <2> QED BY <1>1, <2>1
<1>6. \A i \in 1..n : i \in before <=> ps[i].at <= p.at
  BY <1>1
<1> HIDE DEF before
<1>7. j \in 0..n /\ before = 1..j
  BY <1>1, <1>5, FirstNumbers
<1> HIDE DEF j
<1>8. \A i \in 1..j : ps[i].at < p.at
  <2>1. ASSUME NEW i \in 1..j PROVE ps[i].at < p.at
    <3>1. i \in 1..n
      BY <1>1, <1>7
    <3>2. ps[i].at <= p.at /\ ps[i].at # p.at
      BY <1>1, <1>6, <1>7, <3>1
    <3> QED BY <1>2, <3>1, <3>2
  <2> QED BY <2>1
<1>9. \A i \in j + 1 .. n : p.at < ps[i].at
  <2>1. ASSUME NEW i \in j + 1 .. n PROVE p.at < ps[i].at
    <3>1. i \in 1..n /\ i \notin 1..j
      BY <1>1, <1>7
    <3>2. ~(ps[i].at <= p.at)
      BY <1>6, <1>7, <3>1
    <3> QED BY <1>2, <3>1, <3>2
  <2> QED BY <2>1
<1>10. /\ r \in Seq(ChartPoint) /\ Len(r) = n + 1
       /\ \A i \in 1..j : r[i] = ps[i]
       /\ r[j + 1] = p
       /\ \A i \in j + 1 .. n : r[i + 1] = ps[i]
  <2>1. Inserts(InsertAt(ps, j + 1, p), ps, j, p, ChartPoint)
    BY <1>7, InsertAtIs DEF n
  <2> QED BY <2>1 DEF n, r, Inserts
<1>11. DOMAIN r = 1..(n + 1)
  BY <1>10
<1>12. \A i \in j + 2 .. n + 1 : i - 1 \in j + 1 .. n /\ r[i] = ps[i - 1]
  <2>1. ASSUME NEW i \in j + 2 .. n + 1
        PROVE  i - 1 \in j + 1 .. n /\ r[i] = ps[i - 1]
    <3>1. i - 1 \in j + 1 .. n /\ (i - 1) + 1 = i
      BY <1>1, <1>7
    <3> QED BY <1>10, <3>1
  <2> QED BY <2>1
<1>13. ASSUME NEW i \in 1..(n + 1), NEW k \in 1..(n + 1), i < k
       PROVE  r[i].at < r[k].at
  <2>1. CASE k <= j
    <3>1. i \in 1..j /\ k \in 1..j /\ i \in 1..n /\ k \in 1..n
      BY <1>1, <1>7, <1>13, <2>1
    <3> QED BY <1>3, <1>10, <1>13, <3>1
  <2>2. CASE k = j + 1
    <3>1. i \in 1..j
      BY <1>1, <1>7, <1>13, <2>2
    <3> QED BY <1>8, <1>10, <2>2, <3>1
  <2>3. CASE k > j + 1
    <3>1. k \in j + 2 .. n + 1 /\ k - 1 \in j + 1 .. n /\ k - 1 \in 1..n
      BY <1>1, <1>7, <2>3
    <3>2. r[k] = ps[k - 1]
      BY <1>12, <3>1
    <3>3. CASE i <= j
      <4>1. i \in 1..j /\ i \in 1..n
        BY <1>1, <1>7, <3>3
      <4>2. r[i].at < p.at /\ p.at < r[k].at
        BY <1>8, <1>9, <1>10, <3>1, <3>2, <4>1
      <4>3. r[i].at \in Nat /\ r[k].at \in Nat
        BY <1>2, <1>10, <3>1, <3>2, <4>1
      <4> QED BY <1>2, <4>2, <4>3
    <3>4. CASE i = j + 1
      BY <1>9, <1>10, <3>1, <3>2, <3>4
    <3>5. CASE i > j + 1
      <4>1. i \in j + 2 .. n + 1 /\ i - 1 \in 1..n /\ i - 1 < k - 1
        BY <1>1, <1>7, <1>13, <3>5
      <4>2. r[i] = ps[i - 1]
        BY <1>12, <4>1
      <4> QED BY <1>3, <3>1, <3>2, <4>1, <4>2
    <3> QED BY <1>1, <1>7, <3>3, <3>4, <3>5
  <2> QED BY <1>1, <1>7, <2>1, <2>2, <2>3
<1>14. Range(r) = Range(ps) \union {p}
  <2>1. ASSUME NEW i \in 1..(n + 1) PROVE r[i] \in Range(ps) \union {p}
    <3>1. CASE i <= j
      <4>1. i \in 1..j /\ i \in 1..n
        BY <1>1, <1>7, <3>1
      <4> QED BY <1>1, <1>10, <4>1 DEF Range
    <3>2. CASE i = j + 1
      BY <1>10, <3>2
    <3>3. CASE i > j + 1
      <4>1. i \in j + 2 .. n + 1
        BY <1>1, <1>7, <3>3
      <4>2. i - 1 \in 1..n /\ r[i] = ps[i - 1]
        BY <1>1, <1>7, <1>12, <4>1
      <4> QED BY <1>1, <4>2 DEF Range
    <3> QED BY <1>1, <1>7, <3>1, <3>2, <3>3
  <2>2. ASSUME NEW i \in 1..n PROVE ps[i] \in Range(r)
    <3>1. CASE i <= j
      <4>1. i \in 1..j /\ i \in 1..(n + 1)
        BY <1>1, <1>7, <3>1
      <4> QED BY <1>10, <1>11, <4>1 DEF Range
    <3>2. CASE i > j
      <4>1. i \in j + 1 .. n /\ i + 1 \in 1..(n + 1)
        BY <1>1, <1>7, <3>2
      <4> QED BY <1>10, <1>11, <4>1 DEF Range
    <3> QED BY <1>1, <1>7, <3>1, <3>2
  <2>3. p \in Range(r)
    <3>1. j + 1 \in 1..(n + 1)
      BY <1>1, <1>7
    <3> QED BY <1>10, <1>11, <3>1 DEF Range
  <2>4. \A e \in Range(r) : e \in Range(ps) \union {p}
    BY <1>11, <2>1 DEF Range
  <2>5. \A e \in Range(ps) : e \in Range(r)
    BY <1>1, <2>2 DEF Range
  <2> QED BY <2>3, <2>4, <2>5
<1> QED BY <1>4, <1>10, <1>11, <1>13, <1>14 DEF Sorted

(* The sort as FoldLeft defines it. *)
LEMMA SortDef ==
  ASSUME NEW es
  PROVE  Sort(es) =
           (CHOOSE it : it = [s \in SUBSET DOMAIN es |->
              IF s = {} THEN <<>>
              ELSE Insert(it[s \ {Max(s)}], es[Max(s)])])[DOMAIN es]
BY DEF Sort, FoldLeft, MapThenFoldSet

(* What the sort holds after k rounds.  A round is only looked at on lists *)
(* of points: what it does to others does not matter.                      *)
LEMMA InsertType ==
  ASSUME NEW ps \in Seq(ChartPoint), NEW p \in ChartPoint
  PROVE  Insert(ps, p) \in Seq(ChartPoint)
<1> DEFINE before == {i \in DOMAIN ps : ps[i].at <= p.at}
           j == Cardinality(before)
<1>1. Len(ps) \in Nat /\ DOMAIN ps = 1..Len(ps)
  OBVIOUS
<1>2. before \in SUBSET (1..Len(ps))
  BY <1>1
<1> HIDE DEF before
<1>3. j \in 0..Len(ps)
  <2>1. 1 \in Int /\ Len(ps) \in Int /\ (1 > Len(ps) => Len(ps) = 0)
    BY <1>1
  <2>2. IsFiniteSet(1..Len(ps)) /\ Cardinality(1..Len(ps)) = Len(ps)
    BY <2>1, FS_Interval
  <2>3. IsFiniteSet(before) /\ Cardinality(before) <= Len(ps)
    BY <1>2, <2>2, FS_Subset
  <2>4. Cardinality(before) \in Nat
    BY <2>3, FS_CardinalityType
  <2> QED BY <1>1, <2>3, <2>4
<1> HIDE DEF j
<1>4. InsertAt(ps, j + 1, p) \in Seq(ChartPoint)
  <2>1. Inserts(InsertAt(ps, j + 1, p), ps, j, p, ChartPoint)
    BY <1>3, InsertAtIs
  <2> QED BY <2>1 DEF Inserts
<1> QED BY <1>4 DEF Insert, j, before

(* The sort goes through such lists, one point a round. *)
LEMMA SortRounds ==
  ASSUME NEW es \in Seq(ChartPoint)
  PROVE  \E pre \in [0..Len(es) -> Seq(ChartPoint)] :
           /\ pre[0] = <<>>
           /\ \A k \in 1..Len(es) : pre[k] = Insert(pre[k - 1], es[k])
           /\ pre[Len(es)] = Sort(es)
<1> DEFINE n == Len(es)
           V == Seq(ChartPoint)
           op == [p \in (1..n) \X V |-> Insert(p[2], es[p[1]])]
           Body(it) == [s \in SUBSET (1..n) |->
                         IF s = {} THEN <<>>
                         ELSE Insert(it[s \ {Max(s)}], es[Max(s)])]
<1>1. n \in Nat /\ DOMAIN es = 1..n /\ \A i \in 1..n : es[i] \in ChartPoint
  OBVIOUS
<1>2. <<>> \in V
  OBVIOUS
<1> HIDE DEF n, V
<1>3. op \in [(1..n) \X V -> V]
  <2>1. \A p \in (1..n) \X V : Insert(p[2], es[p[1]]) \in V
    <3>1. \A p \in (1..n) \X V : p[2] \in V /\ es[p[1]] \in ChartPoint
      BY <1>1
    <3> QED BY <3>1, InsertType DEF V
  <2> QED BY <2>1
<1>4. \A i \in 1..n, v \in V : op[<<i, v>>] = Insert(v, es[i])
  OBVIOUS
<1> HIDE DEF op
<1>5. PICK it \in [SUBSET (1..n) -> V] : IsFoldLeft(it, n, <<>>, op)
  BY <1>1, <1>2, <1>3, FoldLeftExists
<1>6. \A s \in SUBSET (1..n) : s # {} => Max(s) \in 1..n
  BY <1>1, MaxOfSome
<1>7. \A s \in SUBSET (1..n) :
        it[s] = IF s = {} THEN <<>>
                ELSE Insert(it[s \ {Max(s)}], es[Max(s)])
  BY <1>4, <1>5, <1>6 DEF IsFoldLeft
<1>8. it = Body(it)
  BY <1>7
<1> DEFINE loop == CHOOSE g : g = Body(g)
<1>9. loop = Body(loop)
  BY <1>8
<1>10. Sort(es) = loop[1..n]
  BY <1>1, SortDef
<1> HIDE DEF loop
<1>11. /\ loop[{}] = <<>>
       /\ \A s \in SUBSET (1..n) : s # {} =>
            loop[s] = Insert(loop[s \ {Max(s)}], es[Max(s)])
  BY <1>9
<1>12. Loops(loop, n, V, <<>>, op)
  BY <1>1, <1>2, <1>3, <1>4, <1>6, <1>11 DEF Loops
<1>13. PICK pre : Rounds(pre, n, V, <<>>, op, loop[1..n])
  BY <1>12, FoldLeftRounds
<1>14. \A k \in 1..n : pre[k] = Insert(pre[k - 1], es[k])
  <2>1. \A k \in 1..n : k - 1 \in 0..n
    BY <1>1
  <2> QED BY <1>4, <1>13, <2>1 DEF Rounds
<1> QED BY <1>10, <1>13, <1>14 DEF Rounds, n, V

(* The points of different times come out in the order of their times. *)
LEMMA SortIs ==
  ASSUME NEW es \in Seq(ChartPoint),
         \A i, j \in DOMAIN es : i # j => es[i].at # es[j].at
  PROVE  /\ Sort(es) \in Seq(ChartPoint) /\ Sorted(Sort(es))
         /\ Range(Sort(es)) = Range(es)
<1> DEFINE n == Len(es)
           First(k) == {es[i] : i \in 1..k}
<1>1. n \in Nat /\ DOMAIN es = 1..n /\ \A i \in 1..n : es[i] \in ChartPoint
  OBVIOUS
<1>2. PICK pre \in [0..n -> Seq(ChartPoint)] :
        /\ pre[0] = <<>>
        /\ \A k \in 1..n : pre[k] = Insert(pre[k - 1], es[k])
        /\ pre[n] = Sort(es)
  BY SortRounds
<1> DEFINE T == {k \in Nat : k <= n => Sorted(pre[k]) /\ Range(pre[k]) = First(k)}
<1> HIDE DEF n
<1>3. 0 \in T
  <2>1. DOMAIN <<>> = {} /\ First(0) = {}
    OBVIOUS
  <2>2. Sorted(<<>>) /\ Range(<<>>) = First(0)
    BY <2>1 DEF Sorted, Range
  <2> QED BY <1>2, <2>2
<1>4. ASSUME NEW k \in Nat, k \in T PROVE k + 1 \in T
  <2> SUFFICES ASSUME k + 1 <= n
               PROVE  Sorted(pre[k + 1]) /\ Range(pre[k + 1]) = First(k + 1)
    OBVIOUS
  <2>1. k + 1 \in 1..n /\ k \in 0..n /\ (k + 1) - 1 = k /\ k <= n
    BY <1>1
  <2>2. pre[k] \in Seq(ChartPoint) /\ Sorted(pre[k]) /\ Range(pre[k]) = First(k)
    BY <1>2, <1>4, <2>1
  <2>3. pre[k + 1] = Insert(pre[k], es[k + 1]) /\ es[k + 1] \in ChartPoint
    BY <1>1, <1>2, <2>1
  <2>4. ASSUME NEW i \in DOMAIN pre[k] PROVE pre[k][i].at # es[k + 1].at
    <3>1. pre[k][i] \in First(k)
      BY <2>2 DEF Range
    <3>2. PICK m \in 1..k : pre[k][i] = es[m]
      BY <3>1
    <3>3. m \in 1..n /\ m # k + 1
      BY <1>1, <2>1
    <3> QED BY <1>1, <2>1, <3>2, <3>3
  <2>5. /\ Sorted(pre[k + 1])
        /\ Range(pre[k + 1]) = First(k) \union {es[k + 1]}
    BY <2>2, <2>3, <2>4, InsertIs
  <2>6. First(k + 1) = First(k) \union {es[k + 1]}
    <3>1. 1..(k + 1) = (1..k) \union {k + 1}
      OBVIOUS
    <3> QED BY <3>1
  <2> QED BY <2>5, <2>6
<1> HIDE DEF T
<1>5. n \in T /\ n <= n
  <2>1. Nat \subseteq T
    BY <1>3, <1>4, NatInductive
  <2> QED BY <1>1, <2>1
<1>6. Sorted(pre[n]) /\ Range(pre[n]) = First(n)
  BY <1>5 DEF T
<1>7. First(n) = Range(es)
  BY <1>1 DEF Range
<1>8. pre[n] \in Seq(ChartPoint)
  <2>1. n \in 0..n
    BY <1>1
  <2> QED BY <1>2, <2>1
<1> QED BY <1>2, <1>6, <1>7, <1>8

-----------------------------------------------------------------------------
(* THE BUCKETS. A sample falls into a bucket that starts no later than it  *)
(* and, but for the second its start is rounded by, less than the length   *)
(* of a bucket earlier, whatever that length (handlers.go:223).            *)
THEOREM BucketIsNear ==
  ASSUME NEW t \in Int, NEW bucket \in Nat \ {0}
  PROVE  Bucket(t, bucket) <= t /\ t < Bucket(t, bucket) + bucket + Second
<1>1. ASSUME NEW x \in Int, NEW d \in Nat \ {0}
      PROVE  /\ (x \div d) * d \in Int
             /\ (x \div d) * d <= x /\ x < (x \div d) * d + d
  <2>1. x \div d \in Int /\ (x \div d) * d \in Int
    OBVIOUS
  <2>2. (x \div d) * d <= x
    OBVIOUS
  <2>3. x < (x \div d) * d + d
    OBVIOUS
  <2> QED BY <2>1, <2>2, <2>3
<1> DEFINE start == (t \div bucket) * bucket
           key == (start \div Second) * Second
<1>2. start \in Int /\ start <= t /\ t < start + bucket
  BY <1>1
<1> HIDE DEF start
<1>3. key \in Int /\ key <= start /\ start < key + Second
  BY <1>1, <1>2, QueryAssumption
<1>4. Bucket(t, bucket) = key
  BY DEF Bucket, start
<1> HIDE DEF key
<1> QED BY <1>2, <1>3, <1>4, QueryAssumption

(* The points of a selection.                                              *)

(* A bucket starts at a time. *)
LEMMA BucketType ==
  ASSUME NEW t \in Nat, NEW bucket \in Nat \ {0}
  PROVE  Bucket(t, bucket) \in Nat
<1>1. \A x \in Nat, d \in Nat \ {0} : (x \div d) * d \in Nat
  <2>1. ASSUME NEW x \in Nat, NEW d \in Nat \ {0} PROVE (x \div d) * d \in Nat
    <3>1. x \div d \in Nat
      OBVIOUS
    <3> DEFINE y == x \div d
    <3> HIDE DEF y
    <3>2. y * d \in Nat
      BY <3>1 DEF y
    <3> QED BY <3>2 DEF y
  <2> QED BY <2>1
<1> QED BY <1>1, QueryAssumption DEF Bucket

(* The fields of the stored samples. *)
LEMMA RowsType ==
  ASSUME NEW rows \in Seq(Row)
  PROVE  /\ Len(rows) \in Nat /\ DOMAIN rows = 1..Len(rows)
         /\ \A i \in 1..Len(rows) :
              /\ rows[i] \in Row /\ rows[i].at \in Nat
              /\ rows[i].delta.rx \in Nat /\ rows[i].delta.tx \in Nat
<1>1. /\ Len(rows) \in Nat /\ DOMAIN rows = 1..Len(rows)
      /\ \A i \in 1..Len(rows) : rows[i] \in Row
  OBVIOUS
<1>2. \A row \in Row : row.at \in Nat /\ row.delta \in [rx : Nat, tx : Nat]
  BY QueryAssumption DEF Row
<1>3. \A d \in [rx : Nat, tx : Nat] : d.rx \in Nat /\ d.tx \in Nat
  OBVIOUS
<1> QED BY <1>1, <1>2, <1>3

(* The deltas of some samples can be summed. *)
LEMMA SumsType ==
  ASSUME NEW rows \in Seq(Row), NEW I \in SUBSET (1..Len(rows))
  PROVE  /\ IsFiniteSet(I)
         /\ [i \in I |-> rows[i].delta.rx] \in [I -> Nat]
         /\ [i \in I |-> rows[i].delta.tx] \in [I -> Nat]
         /\ Rx(rows, I) \in Nat /\ Tx(rows, I) \in Nat
<1> DEFINE rx == [i \in I |-> rows[i].delta.rx]
           tx == [i \in I |-> rows[i].delta.tx]
<1>1. IsFiniteSet(I)
  <2>1. IsFiniteSet(1..Len(rows))
    BY RowsType, FS_Interval
  <2> QED BY <2>1, FS_Subset
<1>2. rx \in [I -> Nat] /\ tx \in [I -> Nat]
  BY RowsType
<1> HIDE DEF rx, tx
<1>3. SumFunction(rx) \in Nat /\ SumFunction(tx) \in Nat
  BY <1>1, <1>2, TotalIsNat
<1> QED BY <1>1, <1>2, <1>3 DEF Rx, Tx, rx, tx

(* The samples of a bucket. *)
InBucket(rows, I, bucket, key) == {i \in I : Bucket(rows[i].at, bucket) = key}

(* A point has the sums of the samples of its bucket. *)
LEMMA PointIs ==
  ASSUME NEW rows, NEW I, NEW bucket, NEW key
  PROVE  Point(rows, I, bucket, key) =
           [at |-> key, rx |-> Rx(rows, InBucket(rows, I, bucket, key)),
                        tx |-> Tx(rows, InBucket(rows, I, bucket, key))]
BY DEF Point, InBucket

(* There is one point for the start of a bucket. *)
LEMMA PointsType ==
  ASSUME NEW rows \in Seq(Row), NEW I \in SUBSET (1..Len(rows)),
         NEW bucket \in Nat \ {0}
  PROVE  /\ Points(rows, I, bucket) \in SUBSET ChartPoint
         /\ IsFiniteSet(Points(rows, I, bucket))
         /\ \A p, q \in Points(rows, I, bucket) : p # q => p.at # q.at
<1> DEFINE P(i) == Point(rows, I, bucket, Bucket(rows[i].at, bucket))
           f == [i \in I |-> P(i)]
           S == Points(rows, I, bucket)
<1>1. S = {P(i) : i \in I}
  BY DEF Points
<1>2. ASSUME NEW i \in I PROVE P(i) \in ChartPoint /\ P(i).at = Bucket(rows[i].at, bucket)
  <2> DEFINE key == Bucket(rows[i].at, bucket)
             J == InBucket(rows, I, bucket, key)
  <2>1. key \in Nat
    BY RowsType, BucketType
  <2>2. J \in SUBSET (1..Len(rows))
    BY DEF InBucket
  <2>3. P(i) = [at |-> key, rx |-> Rx(rows, J), tx |-> Tx(rows, J)]
    BY PointIs
  <2> HIDE DEF key, J, P
  <2>4. Rx(rows, J) \in Nat /\ Tx(rows, J) \in Nat
    BY <2>2, SumsType
  <2>5. P(i) \in ChartPoint /\ P(i).at = key
    BY <2>1, <2>3, <2>4 DEF ChartPoint
  <2> QED BY <2>5 DEF key
<1>3. \A i, j \in I : Bucket(rows[i].at, bucket) = Bucket(rows[j].at, bucket) => P(i) = P(j)
  OBVIOUS
<1> HIDE DEF P, S
<1>4. f \in Surjection(I, S)
  BY <1>1 DEF Surjection
<1>5. IsFiniteSet(S)
  <2>1. IsFiniteSet(I)
    BY SumsType
  <2> HIDE DEF f
  <2> QED BY <1>4, <2>1, FS_Surjection
<1>6. S \in SUBSET ChartPoint
  BY <1>1, <1>2
<1>7. ASSUME NEW p \in S, NEW q \in S, p.at = q.at PROVE p = q
  <2>1. PICK i \in I, j \in I : p = P(i) /\ q = P(j)
    BY <1>1
  <2>2. Bucket(rows[i].at, bucket) = Bucket(rows[j].at, bucket)
    BY <1>2, <1>7, <2>1
  <2> QED BY <1>3, <2>1, <2>2
<1> QED BY <1>5, <1>6, <1>7 DEF S

(* A chart of a selection: its points in order of their times. *)
Chart(ps, rows, I, bucket) ==
  ps \in Seq(ChartPoint) /\ Sorted(ps) /\ Range(ps) = Points(rows, I, bucket)

(* Whatever order the map yields, the sort makes the chart of it. *)
LEMMA SortedPointsAreChart ==
  ASSUME NEW rows \in Seq(Row), NEW I \in SUBSET (1..Len(rows)),
         NEW bucket \in Nat \ {0},
         NEW order \in SetToSeqs(Points(rows, I, bucket))
  PROVE  Chart(Sort(order), rows, I, bucket)
<1> DEFINE S == Points(rows, I, bucket)
<1>1. /\ S \in SUBSET ChartPoint /\ IsFiniteSet(S)
      /\ \A p, q \in S : p # q => p.at # q.at
  BY PointsType
<1>2. /\ order \in [1..Cardinality(S) -> S]
      /\ \A i, j \in 1..Cardinality(S) : i # j => order[i] # order[j]
  BY DEF SetToSeqs
<1> HIDE DEF S
<1>3. order \in Seq(S) /\ Len(order) = Cardinality(S) /\ Range(order) = S
  BY <1>1, <1>2, Arranged
<1>4. order \in Seq(ChartPoint)
  <2>1. Len(order) \in Nat /\ DOMAIN order = 1..Len(order)
    BY <1>3
  <2>2. \A i \in 1..Len(order) : order[i] \in ChartPoint
    BY <1>1, <1>2, <1>3
  <2> QED BY <1>2, <1>3, <2>1, <2>2
<1>5. \A i, j \in DOMAIN order : i # j => order[i].at # order[j].at
  BY <1>1, <1>2
<1> QED BY <1>3, <1>4, <1>5, SortIs DEF Chart, S

(* Where the samples of a chart are. *)
Covers(ps, rows, I, bucket) ==
  /\ \A i \in I : \E j \in DOMAIN ps : ps[j].at = Bucket(rows[i].at, bucket)
  /\ \A j \in DOMAIN ps : \E i \in I : ps[j].at = Bucket(rows[i].at, bucket)
  /\ \A j \in DOMAIN ps :
       LET J == InBucket(rows, I, bucket, ps[j].at)
       IN  ps[j] = [at |-> ps[j].at, rx |-> Rx(rows, J), tx |-> Tx(rows, J)]

(* Every sample has its point, and every point its samples. *)
LEMMA ChartCovers ==
  ASSUME NEW rows \in Seq(Row), NEW I \in SUBSET (1..Len(rows)),
         NEW bucket \in Nat \ {0}, NEW ps, Chart(ps, rows, I, bucket)
  PROVE  Covers(ps, rows, I, bucket)
<1> DEFINE P(key) == Point(rows, I, bucket, key)
<1>1. Points(rows, I, bucket) = {P(Bucket(rows[i].at, bucket)) : i \in I}
  BY DEF Points
<1>2. \A key : /\ P(key).at = key
               /\ P(key) = [at |-> key, rx |-> Rx(rows, InBucket(rows, I, bucket, key)),
                            tx |-> Tx(rows, InBucket(rows, I, bucket, key))]
  <2>1. ASSUME NEW key
        PROVE  /\ P(key).at = key
               /\ P(key) = [at |-> key, rx |-> Rx(rows, InBucket(rows, I, bucket, key)),
                            tx |-> Tx(rows, InBucket(rows, I, bucket, key))]
    <3>1. P(key) = [at |-> key, rx |-> Rx(rows, InBucket(rows, I, bucket, key)),
                    tx |-> Tx(rows, InBucket(rows, I, bucket, key))]
      BY PointIs
    <3> HIDE DEF P
    <3> QED BY <3>1
  <2> QED BY <2>1
<1>3. Range(ps) = Points(rows, I, bucket)
  BY DEF Chart
<1> HIDE DEF P
<1>4. ASSUME NEW i \in I PROVE \E j \in DOMAIN ps : ps[j].at = Bucket(rows[i].at, bucket)
  <2>1. P(Bucket(rows[i].at, bucket)) \in Range(ps)
    BY <1>1, <1>3
  <2>2. PICK j \in DOMAIN ps : ps[j] = P(Bucket(rows[i].at, bucket))
    BY <2>1 DEF Range
  <2> QED BY <1>2, <2>2
<1>5. ASSUME NEW j \in DOMAIN ps
      PROVE  \E i \in I : ps[j] = P(Bucket(rows[i].at, bucket))
                          /\ ps[j].at = Bucket(rows[i].at, bucket)
  <2>1. ps[j] \in Range(ps)
    BY DEF Range
  <2>2. PICK i \in I : ps[j] = P(Bucket(rows[i].at, bucket))
    BY <1>1, <1>3, <2>1
  <2> QED BY <1>2, <2>2
<1>6. ASSUME NEW j \in DOMAIN ps PROVE ps[j] = P(ps[j].at)
  BY <1>5
<1> QED BY <1>2, <1>4, <1>5, <1>6 DEF Covers

(* The points of a chart add up to the samples it was made of. *)
LEMMA ChartAddsUp ==
  ASSUME NEW rows \in Seq(Row), NEW I \in SUBSET (1..Len(rows)),
         NEW bucket \in Nat \ {0}, NEW ps, Chart(ps, rows, I, bucket)
  PROVE  /\ SumFunction([j \in DOMAIN ps |-> ps[j].rx]) = Rx(rows, I)
         /\ SumFunction([j \in DOMAIN ps |-> ps[j].tx]) = Tx(rows, I)
<1> DEFINE K == DOMAIN ps
           key == [i \in I |-> CHOOSE j \in K : ps[j].at = Bucket(rows[i].at, bucket)]
           J(j) == InBucket(rows, I, bucket, ps[j].at)
           rx == [i \in I |-> rows[i].delta.rx]
           tx == [i \in I |-> rows[i].delta.tx]
           hx == [j \in K |-> ps[j].rx]
           ht == [j \in K |-> ps[j].tx]
<1>1. /\ ps \in Seq(ChartPoint) /\ K = 1..Len(ps) /\ Len(ps) \in Nat
      /\ \A i, j \in K : i < j => ps[i].at < ps[j].at
  BY DEF Chart, Sorted
<1>2. IsFiniteSet(K)
  <2>1. IsFiniteSet(1..Len(ps))
    BY <1>1, FS_Interval
  <2> QED BY <1>1, <2>1
<1>3. \A j \in K : ps[j].at \in Nat /\ ps[j].rx \in Nat /\ ps[j].tx \in Nat
  <2>1. \A j \in K : ps[j] \in ChartPoint
    BY <1>1
  <2> QED BY <2>1 DEF ChartPoint
<1>4. /\ \A i \in I : \E j \in K : ps[j].at = Bucket(rows[i].at, bucket)
      /\ \A j \in K : ps[j] = [at |-> ps[j].at, rx |-> Rx(rows, J(j)),
                               tx |-> Tx(rows, J(j))]
  <2>1. Covers(ps, rows, I, bucket)
    BY ChartCovers
  <2> QED BY <2>1 DEF Covers
<1>5. /\ IsFiniteSet(I) /\ rx \in [I -> Nat] /\ tx \in [I -> Nat]
  BY SumsType
<1> HIDE DEF K
<1>6. \A i, j \in K : ps[i].at = ps[j].at => i = j
  <2>1. ASSUME NEW i \in K, NEW j \in K, ps[i].at = ps[j].at, i # j PROVE FALSE
    <3>1. i < j \/ j < i
      BY <1>1, <2>1
    <3>2. ps[i].at < ps[j].at \/ ps[j].at < ps[i].at
      BY <1>1, <3>1
    <3> QED BY <1>3, <2>1, <3>2
  <2> QED BY <2>1
<1>7. key \in [I -> K] /\ \A i \in I : ps[key[i]].at = Bucket(rows[i].at, bucket)
  BY <1>4
<1>8. hx \in [K -> Nat] /\ ht \in [K -> Nat]
  BY <1>3
<1> HIDE DEF key
<1>9. ASSUME NEW j \in K PROVE {i \in I : key[i] = j} = J(j)
  <2>1. \A i \in I : key[i] = j <=> Bucket(rows[i].at, bucket) = ps[j].at
    BY <1>6, <1>7
  <2> QED BY <2>1 DEF InBucket
<1>10. ASSUME NEW j \in K
       PROVE  /\ hx[j] = SumFunction([i \in {l \in I : key[l] = j} |-> rx[i]])
              /\ ht[j] = SumFunction([i \in {l \in I : key[l] = j} |-> tx[i]])
  <2> DEFINE G == J(j)
  <2>1. \A i \in G : i \in I
    BY DEF InBucket
  <2>2. hx[j] = Rx(rows, G) /\ ht[j] = Tx(rows, G)
    <3>1. ps[j].rx = Rx(rows, G) /\ ps[j].tx = Tx(rows, G)
      <4>1. ps[j] = [at |-> ps[j].at, rx |-> Rx(rows, G), tx |-> Tx(rows, G)]
        BY <1>4
      <4> HIDE DEF G
      <4> QED BY <4>1
    <3> QED BY <3>1
  <2>3. {l \in I : key[l] = j} = G
    BY <1>9
  <2> HIDE DEF G, hx, ht
  <2>4. /\ [i \in G |-> rx[i]] = [i \in G |-> rows[i].delta.rx]
        /\ [i \in G |-> tx[i]] = [i \in G |-> rows[i].delta.tx]
    BY <2>1
  <2>5. /\ Rx(rows, G) = SumFunction([i \in G |-> rx[i]])
        /\ Tx(rows, G) = SumFunction([i \in G |-> tx[i]])
    BY <2>4 DEF Rx, Tx
  <2> QED BY <2>2, <2>3, <2>5
<1> HIDE DEF rx, tx, hx, ht
<1>11. \A j \in K : hx[j] = SumFunction([i \in {l \in I : key[l] = j} |-> rx[i]])
  BY <1>10
<1>12. \A j \in K : ht[j] = SumFunction([i \in {l \in I : key[l] = j} |-> tx[i]])
  BY <1>10
<1>13. SumFunction(hx) = SumFunction(rx)
  <2>1. ByKey(hx, K, rx, I, key)
    BY <1>2, <1>5, <1>7, <1>8, <1>11 DEF ByKey
  <2> QED BY <2>1, TotalByKey
<1>14. SumFunction(ht) = SumFunction(tx)
  <2>1. ByKey(ht, K, tx, I, key)
    BY <1>2, <1>5, <1>7, <1>8, <1>12 DEF ByKey
  <2> QED BY <2>1, TotalByKey
<1> QED BY <1>13, <1>14 DEF Rx, Tx, rx, tx, hx, ht, K

-----------------------------------------------------------------------------
(* The types.                                                              *)

(* The table holds any samples, up to a number of them. *)
LEMMA BoundedDef ==
  \A rows : rows \in BoundedSeq(Row, MaxSamples)
              <=> rows \in Seq(Row) /\ Len(rows) <= MaxSamples
<1>1. ASSUME NEW rows \in Seq(Row), Len(rows) <= MaxSamples
      PROVE  rows \in BoundedSeq(Row, MaxSamples)
  <2>1. Len(rows) \in 0..MaxSamples /\ rows \in [1..Len(rows) -> Row]
    BY <1>1, QueryAssumption
  <2> QED BY <2>1 DEF BoundedSeq, SeqOf
<1>2. ASSUME NEW rows \in BoundedSeq(Row, MaxSamples)
      PROVE  rows \in Seq(Row) /\ Len(rows) <= MaxSamples
  <2>1. PICK m \in 0..MaxSamples : rows \in [1..m -> Row]
    BY DEF BoundedSeq, SeqOf
  <2> QED BY <2>1, QueryAssumption
<1> QED BY <1>1, <1>2

(* An answer has the chart of the samples it selects. *)
LEMMA AnswerIsCharted ==
  ASSUME NEW q \in Request, NEW t \in Int, NEW rows \in Seq(Row),
         NEW a \in Traffic(q, t, rows)
  PROVE  /\ a \in Answer \union {BadRequest, ServerError}
         /\ a.status = 200 =>
              LET I == Selected(rows, a.source, a.peer, a)
              IN  /\ a.to = IF q.to = None THEN t ELSE q.to.at
                  /\ a.bucket \in Nat \ {0} /\ I \in SUBSET (1..Len(rows))
                  /\ Chart(a.points, rows, I, a.bucket)
<1> DEFINE w == ParseWindow(q, t)
           bucket == ParseDuration(q.bucket, DefaultBucket(w.length))
           refused == \/ ~KnownSource(q.source) \/ w = None
                      \/ w.length <= 0 \/ bucket <= 0
           source == SourceOf(q.source)
           I == Selected(rows, source, q.peer, w)
           answers == Response(rows, source, q.peer, w, bucket)
<1>1. Traffic(q, t, rows) = IF refused THEN {BadRequest}
                            ELSE {ServerError} \union answers
  BY DEF Traffic
<1>2. BadRequest.status # 200 /\ ServerError.status # 200
  BY DEF BadRequest, ServerError
<1>3. CASE a \in {BadRequest, ServerError}
  BY <1>2, <1>3
<1>4. CASE a \notin {BadRequest, ServerError}
  <2> HIDE DEF refused, answers
  <2>1. ~refused /\ a \in answers
    BY <1>1, <1>4
  <2>2. KnownSource(q.source) /\ w # None /\ ~(w.length <= 0) /\ ~(bucket <= 0)
    BY <2>1 DEF refused
  <2> HIDE DEF w, bucket, I, source
  <2>3. PICK order \in SetToSeqs(Points(rows, I, bucket)) :
          a = [status |-> 200, source |-> source, peer |-> q.peer,
               from |-> w.from, zone |-> w.zone, to |-> w.to, bucket |-> bucket,
               rx |-> Rx(rows, I), tx |-> Tx(rows, I), points |-> Sort(order)]
    BY <2>1 DEF answers, Response, I
  <2>4. w.length \in Int
    BY <2>2, LengthType DEF w
  <2>5. bucket \in Nat \ {0}
    <3>1. bucket \in Int
      BY <2>4, ParseDurationType, DefaultBucketType DEF Request, bucket
    <3> QED BY <2>2, <3>1
  <2>6. w.from \in Int /\ w.zone \in Zones /\ w.to \in Int
    BY <2>2, <2>4, WindowIsSound DEF w
  <2>7. w.to = IF q.to = None THEN t ELSE q.to.at
    BY <2>2, <2>4, WindowIsSound DEF w
  <2>8. I \in SUBSET (1..Len(rows))
    BY RowsType DEF I, Selected
  <2>9. Chart(Sort(order), rows, I, bucket)
    BY <2>5, <2>8, SortedPointsAreChart
  <2>10. Rx(rows, I) \in Nat /\ Tx(rows, I) \in Nat
    BY <2>8, SumsType
  <2>11. source \in Range(SourceOrder)
    <3>1. 1 \in DOMAIN SourceOrder
      BY QueryAssumption
    <3>2. SourceOrder[1] \in Range(SourceOrder)
      BY <3>1 DEF Range
    <3> QED BY <2>2, <3>2 DEF source, SourceOf, KnownSource
  <2>12. q.peer \in Peers \union {None}
    BY DEF Request
  <2> DEFINE ps == Sort(order)
             rx == Rx(rows, I)
             tx == Tx(rows, I)
  <2>13. ps \in Seq(ChartPoint)
    BY <2>9 DEF Chart
  <2> HIDE DEF ps, rx, tx
  <2>14. a = [status |-> 200, source |-> source, peer |-> q.peer,
              from |-> w.from, zone |-> w.zone, to |-> w.to, bucket |-> bucket,
              rx |-> rx, tx |-> tx, points |-> ps]
    BY <2>3 DEF ps, rx, tx
  <2>15. a \in Answer
    <3>1. rx \in Nat /\ tx \in Nat /\ bucket \in Int
      BY <2>5, <2>10 DEF rx, tx
    <3> QED BY <2>6, <2>11, <2>12, <2>13, <2>14, <3>1 DEF Answer
  <2>16. /\ a.source = source /\ a.peer = q.peer /\ a.from = w.from
         /\ a.zone = w.zone /\ a.to = w.to /\ a.bucket = bucket /\ a.points = ps
    BY <2>14
  <2>17. Selected(rows, a.source, a.peer, a) = I
    BY <2>16 DEF I, Selected, InWindow
  <2>18. Chart(a.points, rows, I, a.bucket)
    BY <2>9, <2>16 DEF ps
  <2> QED BY <2>5, <2>7, <2>8, <2>15, <2>16, <2>17, <2>18
<1> QED BY <1>3, <1>4

(* A sample that waits for its insert has room. *)
TInv == TypeOK /\ (waiting # None => Len(samples) < MaxSamples)

(* Every variable is in its range at the start. *)
LEMMA TypeHolds == Init => TInv
<1> SUFFICES ASSUME Init PROVE TInv
  OBVIOUS
<1>1. samples \in BoundedSeq(Row, MaxSamples)
  <2>1. <<>> \in Seq(Row) /\ Len(<<>>) = 0 /\ 0 <= MaxSamples
    BY QueryAssumption
  <2> QED BY <2>1, BoundedDef DEF Init
<1> QED BY <1>1, QueryAssumption DEF Init, TInv, TypeOK, Answered

(* What a sample, a request and an answer of these types have. *)
LEMMA Typed ==
  ASSUME TypeOK
  PROVE  /\ samples \in Seq(Row) /\ Len(samples) <= MaxSamples
         /\ now \in Times /\ now \in Nat
         /\ waiting # None => waiting \in Row
         /\ asked # None => /\ asked \in Question /\ asked.q \in Request
                            /\ asked.at \in Nat
         /\ Answered => /\ asked # None /\ answer \in Answer
                        /\ answer.from \in Int /\ answer.to \in Int
                        /\ answer.zone \in Zones
<1>1. samples \in Seq(Row) /\ Len(samples) <= MaxSamples
  BY BoundedDef DEF TypeOK
<1>2. now \in Times /\ now \in Nat
  BY QueryAssumption DEF TypeOK
<1>3. waiting # None => waiting \in Row
  BY DEF TypeOK
<1>4. asked # None => /\ asked \in Question /\ asked.q \in Request
                      /\ asked.at \in Nat
  <2> SUFFICES ASSUME asked # None
               PROVE  /\ asked \in Question /\ asked.q \in Request
                      /\ asked.at \in Nat
    OBVIOUS
  <2>1. asked \in Question
    BY DEF TypeOK
  <2>2. asked.q \in Requests /\ asked.at \in Times
    BY <2>1 DEF Question
  <2> QED BY <2>1, <2>2, QueryAssumption, RequestAssumption
<1>5. Answered => /\ asked # None /\ answer \in Answer
                  /\ answer.from \in Int /\ answer.to \in Int
                  /\ answer.zone \in Zones
  <2> SUFFICES ASSUME Answered
               PROVE  /\ asked # None /\ answer \in Answer
                      /\ answer.from \in Int /\ answer.to \in Int
                      /\ answer.zone \in Zones
    OBVIOUS
  <2>1. answer # None /\ answer.status = 200
    BY DEF Answered
  <2>2. BadRequest.status # 200 /\ ServerError.status # 200
    BY DEF BadRequest, ServerError
  <2>3. answer \in Answer /\ asked # None
    BY <2>1, <2>2 DEF TypeOK
  <2>4. answer.from \in Int /\ answer.to \in Int /\ answer.zone \in Zones
    BY <2>3 DEF Answer
  <2> QED BY <2>3, <2>4
<1> QED BY <1>1, <1>2, <1>3, <1>4, <1>5

(* No step leaves the ranges. *)
LEMMA TypeKept ==
  ASSUME TInv, [Next]_vars
  PROVE  TInv'
<1>1. TypeOK
  BY DEF TInv
<1>2. /\ samples \in Seq(Row) /\ Len(samples) <= MaxSamples
      /\ Len(samples) \in Nat /\ MaxSamples \in Nat
      /\ now \in Times /\ now \in Nat
  BY <1>1, Typed, QueryAssumption
<1>3. CASE Stamp
  <2>1. /\ Len(samples) < MaxSamples
        /\ waiting' \in [source : Range(SourceOrder), peer : Peers, at : {now},
                         delta : Deltas]
        /\ UNCHANGED <<samples, now, asked, answer>>
    BY <1>3 DEF Stamp
  <2>2. waiting' \in Row
    BY <1>2, <2>1 DEF Row
  <2> QED BY <1>1, <2>1, <2>2 DEF TInv, TypeOK, Answered
<1>4. CASE Store
  <2>1. /\ waiting \in Row /\ Len(samples) < MaxSamples
        /\ samples' \in {Append(samples, waiting), samples} /\ waiting' = None
        /\ UNCHANGED <<now, asked, answer>>
    BY <1>1, <1>4, Typed DEF Store, TInv
  <2>2. Append(samples, waiting) \in Seq(Row)
        /\ Len(Append(samples, waiting)) = Len(samples) + 1
    BY <1>2, <2>1
  <2>3. samples' \in Seq(Row) /\ Len(samples') <= MaxSamples
    BY <1>2, <2>1, <2>2
  <2>4. samples' \in BoundedSeq(Row, MaxSamples)
    BY <2>3, BoundedDef
  <2> QED BY <1>1, <2>1, <2>4 DEF TInv, TypeOK, Answered
<1>5. CASE ClockRuns
  BY <1>1, <1>5 DEF ClockRuns, TInv, TypeOK, Answered
<1>6. CASE Ask
  <2>1. /\ asked = None
        /\ asked' \in [q : Requests, at : {now}, rows : {0}, waiting : {None}]
        /\ UNCHANGED <<samples, waiting, now, answer>>
    BY <1>6 DEF Ask
  <2>2. asked' \in Question
    BY <1>2, <2>1 DEF Question
  <2>3. answer = None
    BY <1>1, <2>1 DEF TypeOK
  <2> QED BY <1>1, <2>1, <2>2, <2>3 DEF TInv, TypeOK, Answered
<1>7. CASE Reply
  <2>1. /\ asked # None
        /\ answer' \in Traffic(asked.q, asked.at, samples)
        /\ asked' = [asked EXCEPT !.rows = Len(samples), !.waiting = waiting]
        /\ UNCHANGED <<samples, waiting, now>>
    BY <1>7 DEF Reply
  <2>2. asked \in Question /\ asked.q \in Request /\ asked.at \in Int
    BY <1>1, <2>1, Typed
  <2>3. /\ asked' \in Question /\ asked'.q = asked.q /\ asked'.at = asked.at
    <3> DEFINE W == Row \union {None}
               n == Len(samples)
    <3>1. n \in 0..MaxSamples /\ waiting \in W
      BY <1>1, <1>2 DEF TypeOK
    <3> HIDE DEF W, n
    <3>2. /\ asked.q \in Requests /\ asked.at \in Times
          /\ asked = [q |-> asked.q, at |-> asked.at, rows |-> asked.rows,
                      waiting |-> asked.waiting]
      BY <2>2 DEF Question
    <3>3. asked' = [q |-> asked.q, at |-> asked.at, rows |-> n, waiting |-> waiting]
      BY <2>1, <3>2 DEF n
    <3>4. asked' \in [q : Requests, at : Times, rows : 0..MaxSamples, waiting : W]
      BY <3>1, <3>2, <3>3
    <3> QED BY <3>3, <3>4 DEF W, Question
  <2>4. /\ answer' \in Answer \union {BadRequest, ServerError}
        /\ answer'.status = 200 =>
             answer'.to = IF asked.q.to = None THEN asked.at ELSE asked.q.to.at
    BY <1>2, <2>1, <2>2, AnswerIsCharted
  <2>5. asked' # None /\ answer' # None
    BY <2>3, <2>4, AnswerAssumption
  <2> QED BY <1>1, <2>1, <2>3, <2>4, <2>5 DEF TInv, TypeOK, Answered
<1>8. CASE UNCHANGED vars
  BY <1>1, <1>8 DEF vars, TInv, TypeOK, Answered
<1> QED BY <1>3, <1>4, <1>5, <1>6, <1>7, <1>8 DEF Next

-----------------------------------------------------------------------------
(* The table while an answer is remembered.                                *)

(* The request came before now, and every sample that its query did not    *)
(* come upon is stamped after it, but for the one that waited then, which  *)
(* is stored next or not at all.                                           *)
Past == asked # None => asked.at <= now
Since ==
  Answered =>
    /\ asked.rows \in 0..Len(samples)
    /\ \A i \in asked.rows + 1 .. Len(samples) :
         \/ asked.at <= samples[i].at
         \/ i = asked.rows + 1 /\ samples[i] = asked.waiting
    /\ waiting # None =>
         \/ asked.at <= waiting.at
         \/ Len(samples) = asked.rows /\ waiting = asked.waiting

(* The inductive invariant of the window. *)
IInv == TInv /\ Past /\ Since /\ WindowIsUsable

(* A sample has a time. *)
LEMMA RowTimes ==
  ASSUME NEW row \in Row
  PROVE  row.at \in Nat
BY QueryAssumption DEF Row

(* It holds at the start. *)
LEMMA InitHolds == Init => IInv
BY TypeHolds DEF Init, IInv, Past, Since, WindowIsUsable, Answered

(* A sample that is stamped now is stamped after the request. *)
LEMMA StampKeeps ==
  ASSUME IInv, Stamp
  PROVE  Past' /\ Since' /\ WindowIsUsable'
<1>1. /\ waiting' \in [source : Range(SourceOrder), peer : Peers, at : {now},
                       delta : Deltas]
      /\ UNCHANGED <<samples, now, asked, answer>>
  BY DEF Stamp
<1>2. waiting'.at = now
  BY <1>1
<1>3. Answered => asked # None
  BY Typed DEF IInv, TInv
<1> QED BY <1>1, <1>2, <1>3 DEF IInv, Past, Since, WindowIsUsable, Answered

(* The one that waited is the next one, or lost. *)
LEMMA StoreKeeps ==
  ASSUME IInv, Store
  PROVE  Past' /\ Since' /\ WindowIsUsable'
<1>1. /\ waiting # None /\ waiting' = None
      /\ samples' \in {Append(samples, waiting), samples}
      /\ UNCHANGED <<now, asked, answer>>
  BY DEF Store
<1>2. samples \in Seq(Row) /\ waiting \in Row /\ Len(samples) \in Nat
  BY <1>1, Typed DEF IInv, TInv
<1>3. Past' /\ WindowIsUsable'
  BY <1>1 DEF IInv, Past, WindowIsUsable, Answered
<1>4. Since'
  <2> SUFFICES ASSUME Answered
               PROVE  /\ asked.rows \in 0..Len(samples')
                      /\ \A i \in asked.rows + 1 .. Len(samples') :
                           \/ asked.at <= samples'[i].at
                           \/ i = asked.rows + 1 /\ samples'[i] = asked.waiting
    BY <1>1 DEF Since, Answered
  <2>1. /\ asked.rows \in 0..Len(samples)
        /\ \A i \in asked.rows + 1 .. Len(samples) :
             \/ asked.at <= samples[i].at
             \/ i = asked.rows + 1 /\ samples[i] = asked.waiting
        /\ \/ asked.at <= waiting.at
           \/ Len(samples) = asked.rows /\ waiting = asked.waiting
    BY <1>1 DEF IInv, Since
  <2>2. CASE samples' = samples
    BY <2>1, <2>2
  <2>3. CASE samples' = Append(samples, waiting)
    <3>1. /\ Len(samples') = Len(samples) + 1
          /\ \A i \in 1..Len(samples) : samples'[i] = samples[i]
          /\ samples'[Len(samples) + 1] = waiting
      BY <1>2, <2>3
    <3>2. ASSUME NEW i \in asked.rows + 1 .. Len(samples')
          PROVE  \/ asked.at <= samples'[i].at
                 \/ i = asked.rows + 1 /\ samples'[i] = asked.waiting
      <4>1. CASE i = Len(samples) + 1
        BY <2>1, <3>1, <4>1
      <4>2. CASE i # Len(samples) + 1
        <5>1. i \in asked.rows + 1 .. Len(samples) /\ i \in 1..Len(samples)
          BY <1>2, <2>1, <3>1, <3>2, <4>2
        <5> QED BY <2>1, <3>1, <5>1
      <4> QED BY <4>1, <4>2
    <3>3. asked.rows \in 0..Len(samples')
      BY <1>2, <2>1, <3>1
    <3> QED BY <3>2, <3>3
  <2> QED BY <1>1, <2>2, <2>3
<1> QED BY <1>3, <1>4

(* The clock does not go back. *)
LEMMA ClockKeeps ==
  ASSUME IInv, ClockRuns
  PROVE  Past' /\ Since' /\ WindowIsUsable'
<1>1. now' \in Times /\ now' > now /\ UNCHANGED <<samples, waiting, asked, answer>>
  BY DEF ClockRuns
<1>2. now \in Nat /\ now' \in Nat
  BY <1>1, QueryAssumption, Typed DEF IInv, TInv
<1>3. Since' /\ WindowIsUsable'
  BY <1>1 DEF IInv, Since, WindowIsUsable, Answered
<1>4. Past'
  <2> SUFFICES ASSUME asked # None PROVE asked.at <= now'
    BY <1>1 DEF Past
  <2>1. asked.at \in Nat /\ asked.at <= now
    BY Typed DEF IInv, TInv, Past
  <2> QED BY <1>1, <1>2, <2>1
<1> QED BY <1>3, <1>4

(* A request that comes has no answer. *)
LEMMA AskKeeps ==
  ASSUME IInv, Ask
  PROVE  Past' /\ Since' /\ WindowIsUsable'
<1>1. /\ asked = None /\ now' = now /\ answer' = answer
      /\ asked' \in [q : Requests, at : {now}, rows : {0}, waiting : {None}]
  BY DEF Ask
<1>2. answer' = None
  BY <1>1 DEF IInv, TInv, TypeOK
<1>3. asked'.at = now /\ now \in Nat
  BY <1>1, Typed DEF IInv, TInv
<1> QED BY <1>1, <1>2, <1>3 DEF Past, Since, WindowIsUsable, Answered

(* An answer establishes what it says of the window. *)
LEMMA ReplyEstablishes ==
  ASSUME IInv, Reply
  PROVE  Past' /\ Since' /\ WindowIsUsable'
<1>1. /\ asked # None
      /\ answer' \in Traffic(asked.q, asked.at, samples)
      /\ asked' = [asked EXCEPT !.rows = Len(samples), !.waiting = waiting]
      /\ UNCHANGED <<samples, waiting, now>>
  BY DEF Reply
<1>2. /\ asked \in Question /\ asked.q \in Request /\ asked.at \in Nat
      /\ samples \in Seq(Row) /\ Len(samples) \in Nat
  BY <1>1, Typed DEF IInv, TInv
<1>3. /\ asked'.q = asked.q /\ asked'.at = asked.at
      /\ asked'.rows = Len(samples) /\ asked'.waiting = waiting
  BY <1>1, <1>2 DEF Question
<1>4. Past'
  BY <1>1, <1>3 DEF IInv, Past
<1>5. Since'
  BY <1>1, <1>2, <1>3 DEF Since
<1>6. WindowIsUsable'
  <2> SUFFICES ASSUME Answered' PROVE WindowIsUsable'
    BY DEF WindowIsUsable
  <2>1. answer'.status = 200
    BY DEF Answered
  <2>2. /\ answer'.from < answer'.to /\ answer'.bucket > 0
        /\ (/\ asked.q.from = None
            /\ asked.q.range \in Seconds
            /\ asked.q.range.n * Second \in 0..MaxDuration)
           => answer'.to - answer'.from = asked.q.range.n * Second
    BY <1>1, <1>2, <2>1, AnswerIsSound
  <2> QED BY <1>3, <2>2 DEF WindowIsUsable
<1> QED BY <1>4, <1>5, <1>6

(* So every step keeps it. *)
LEMMA StepKeeps ==
  ASSUME IInv, [Next]_vars
  PROVE  IInv'
<1>1. TInv'
  BY TypeKept DEF IInv
<1>2. CASE UNCHANGED vars
  BY <1>1, <1>2 DEF vars, IInv, Past, Since, WindowIsUsable, Answered
<1> QED BY <1>1, <1>2, StampKeeps, StoreKeeps, ClockKeeps, AskKeeps,
           ReplyEstablishes DEF Next, IInv

-----------------------------------------------------------------------------
(* The chart while an answer is remembered.                                *)

(* The samples that were stored when the query ran.                        *)
RowsAsked == SubSeq(samples, 1, asked.rows)

(* The answer is still the one those samples give. *)
Charted ==
  Answered =>
    /\ answer.bucket \in Nat \ {0}
    /\ RowsAsked \in Seq(Row) /\ FoundThen \in SUBSET (1..Len(RowsAsked))
    /\ \A i \in 1..Len(RowsAsked) : RowsAsked[i] = samples[i]
    /\ answer.rx = Rx(RowsAsked, FoundThen) /\ answer.tx = Tx(RowsAsked, FoundThen)
    /\ Chart(answer.points, RowsAsked, FoundThen, answer.bucket)

(* The inductive invariant of the chart. *)
JInv == IInv /\ Charted

(* The samples stored first, as SubSeq has them. *)
LEMMA Prefix ==
  ASSUME NEW rows \in Seq(Row), NEW n \in 0..Len(rows)
  PROVE  /\ SubSeq(rows, 1, n) \in Seq(Row) /\ Len(SubSeq(rows, 1, n)) = n
         /\ \A i \in 1..n : SubSeq(rows, 1, n)[i] = rows[i]
OBVIOUS

(* A new one does not change them. *)
LEMMA PrefixStays ==
  ASSUME NEW rows \in Seq(Row), NEW row \in Row, NEW n \in 0..Len(rows)
  PROVE  SubSeq(Append(rows, row), 1, n) = SubSeq(rows, 1, n)
<1> DEFINE new == Append(rows, row)
<1>1. /\ new \in Seq(Row) /\ n \in 0..Len(new)
      /\ \A i \in 1..Len(rows) : new[i] = rows[i]
  OBVIOUS
<1> HIDE DEF new
<1> DEFINE a == SubSeq(new, 1, n)
           b == SubSeq(rows, 1, n)
<1>2. /\ a \in Seq(Row) /\ Len(a) = n /\ \A i \in 1..n : a[i] = new[i]
      /\ b \in Seq(Row) /\ Len(b) = n /\ \A i \in 1..n : b[i] = rows[i]
  BY <1>1, Prefix
<1> HIDE DEF a, b
<1>3. \A i \in 1..n : a[i] = b[i]
  BY <1>1, <1>2
<1>4. a = b
  BY <1>2, <1>3
<1> QED BY <1>4 DEF a, b, new

(* Nothing is answered at the start. *)
LEMMA ChartHolds == Init => Charted
BY DEF Init, Charted, Answered

(* What is stored later leaves an answer's chart. *)
LEMMA ChartStays ==
  ASSUME IInv, Charted, asked' = asked, answer' = answer,
         samples' = samples \/ (waiting # None /\ samples' = Append(samples, waiting))
  PROVE  Charted'
<1>1. CASE samples' = samples
  BY <1>1 DEF Charted, Answered, RowsAsked, FoundThen
<1>2. CASE waiting # None /\ samples' = Append(samples, waiting)
  <2> SUFFICES ASSUME Answered PROVE Charted'
    BY DEF Charted, Answered
  <2>1. /\ samples \in Seq(Row) /\ waiting \in Row
        /\ asked.rows \in 0..Len(samples)
    BY <1>2, Typed DEF IInv, TInv, Since
  <2>2. RowsAsked' = RowsAsked
    <3>1. SubSeq(Append(samples, waiting), 1, asked.rows)
            = SubSeq(samples, 1, asked.rows)
      BY <2>1, PrefixStays
    <3> QED BY <1>2, <3>1 DEF RowsAsked
  <2>3. FoundThen' = FoundThen
    BY <2>2 DEF FoundThen, RowsAsked
  <2>4. Len(RowsAsked) = asked.rows
    BY <2>1, Prefix DEF RowsAsked
  <2>5. \A i \in 1..Len(RowsAsked) : samples'[i] = samples[i]
    <3>1. \A i \in 1..Len(samples) : Append(samples, waiting)[i] = samples[i]
      BY <2>1
    <3>2. \A i \in 1..asked.rows : i \in 1..Len(samples)
      BY <2>1
    <3> QED BY <1>2, <2>4, <3>1, <3>2
  <2> QED BY <2>2, <2>3, <2>5 DEF Charted
<1> QED BY <1>1, <1>2

(* An answer is charted. *)
LEMMA ReplyCharts ==
  ASSUME IInv, Reply
  PROVE  Charted'
<1> SUFFICES ASSUME Answered' PROVE Charted'
  BY DEF Charted
<1>1. /\ asked # None
      /\ answer' \in Traffic(asked.q, asked.at, samples)
      /\ asked' = [asked EXCEPT !.rows = Len(samples), !.waiting = waiting]
      /\ UNCHANGED <<samples, waiting, now>>
  BY DEF Reply
<1>2. /\ asked \in Question /\ asked.q \in Request /\ asked.at \in Int
      /\ samples \in Seq(Row) /\ Len(samples) \in Nat /\ answer'.status = 200
  BY <1>1, Typed DEF IInv, TInv, Answered
<1>3. asked'.rows = Len(samples)
  BY <1>1, <1>2 DEF Question
<1>4. RowsAsked' = samples
  <2> DEFINE b == SubSeq(samples, 1, Len(samples))
  <2>1. Len(samples) \in 0..Len(samples)
    BY <1>2
  <2>2. b \in Seq(Row) /\ Len(b) = Len(samples)
        /\ \A i \in 1..Len(samples) : b[i] = samples[i]
    BY <1>2, <2>1, Prefix
  <2> HIDE DEF b
  <2>3. b = samples
    BY <1>2, <2>2
  <2> QED BY <1>1, <1>3, <2>3 DEF b, RowsAsked
<1>5. FoundThen' = Selected(samples, answer'.source, answer'.peer, answer')
  BY <1>4 DEF FoundThen, RowsAsked
<1>6. /\ answer'.bucket \in Nat \ {0} /\ FoundThen' \in SUBSET (1..Len(samples))
      /\ Chart(answer'.points, samples, FoundThen', answer'.bucket)
  BY <1>1, <1>2, <1>5, AnswerIsCharted
<1>7. answer'.rx = Rx(samples, FoundThen') /\ answer'.tx = Tx(samples, FoundThen')
  BY <1>1, <1>2, <1>5, AnswerIsSound
<1> QED BY <1>1, <1>2, <1>4, <1>6, <1>7 DEF Charted

(* No step disturbs it. *)
LEMMA ChartKept ==
  ASSUME IInv, Charted, [Next]_vars
  PROVE  Charted'
<1>1. CASE Ask
  <2>1. answer' = None
    BY <1>1 DEF Ask, IInv, TInv, TypeOK
  <2> QED BY <2>1 DEF Charted, Answered
<1>2. CASE Stamp \/ Store \/ ClockRuns \/ UNCHANGED vars
  <2>1. /\ asked' = asked /\ answer' = answer
        /\ \/ samples' = samples
           \/ waiting # None /\ samples' = Append(samples, waiting)
    BY <1>2 DEF Stamp, Store, ClockRuns, vars
  <2> QED BY <2>1, ChartStays
<1> QED BY <1>1, <1>2, ReplyCharts DEF Next

(* The invariant of the chart holds at the start. *)
LEMMA JInvHolds == Init => JInv
BY InitHolds, ChartHolds DEF JInv

(* Every step keeps it. *)
LEMMA JInvKept ==
  ASSUME JInv, [Next]_vars
  PROVE  JInv'
BY StepKeeps, ChartKept DEF JInv

(* It implies that the chart adds up. *)
LEMMA ChartedAddsUp == Charted => PointsAddUp
<1> SUFFICES ASSUME Charted, Answered
             PROVE  /\ SumFunction([j \in DOMAIN answer.points |-> answer.points[j].rx])
                         = answer.rx
                    /\ SumFunction([j \in DOMAIN answer.points |-> answer.points[j].tx])
                         = answer.tx
                    /\ \A i, j \in DOMAIN answer.points :
                         i < j => answer.points[i].at < answer.points[j].at
  BY DEF PointsAddUp
<1>1. /\ answer.bucket \in Nat \ {0}
      /\ RowsAsked \in Seq(Row) /\ FoundThen \in SUBSET (1..Len(RowsAsked))
      /\ answer.rx = Rx(RowsAsked, FoundThen) /\ answer.tx = Tx(RowsAsked, FoundThen)
      /\ Chart(answer.points, RowsAsked, FoundThen, answer.bucket)
  BY DEF Charted
<1>2. /\ SumFunction([j \in DOMAIN answer.points |-> answer.points[j].rx])
           = Rx(RowsAsked, FoundThen)
      /\ SumFunction([j \in DOMAIN answer.points |-> answer.points[j].tx])
           = Tx(RowsAsked, FoundThen)
  BY <1>1, ChartAddsUp
<1>3. Sorted(answer.points)
  BY <1>1 DEF Chart
<1> QED BY <1>1, <1>2, <1>3 DEF Sorted

(* It implies that the chart is near its samples. *)
LEMMA ChartedIsNear == Charted => PointsSpanTheirSamples
<1> DEFINE Near(p, i) == /\ p.at <= samples[i].at
                         /\ samples[i].at < p.at + answer.bucket + Second
<1> SUFFICES ASSUME Charted, Answered
             PROVE  /\ \A i \in FoundThen : \E p \in Range(answer.points) : Near(p, i)
                    /\ \A p \in Range(answer.points) : \E i \in FoundThen : Near(p, i)
  BY DEF PointsSpanTheirSamples, FoundThen, RowsAsked
<1> DEFINE ps == answer.points
           rows == RowsAsked
<1>1. /\ answer.bucket \in Nat \ {0}
      /\ rows \in Seq(Row) /\ FoundThen \in SUBSET (1..Len(rows))
      /\ \A i \in 1..Len(rows) : rows[i] = samples[i]
      /\ Chart(ps, rows, FoundThen, answer.bucket)
  BY DEF Charted
<1>2. /\ \A i \in FoundThen : \E j \in DOMAIN ps : ps[j].at = Bucket(rows[i].at, answer.bucket)
      /\ \A j \in DOMAIN ps : \E i \in FoundThen : ps[j].at = Bucket(rows[i].at, answer.bucket)
  <2>1. Covers(ps, rows, FoundThen, answer.bucket)
    BY <1>1, ChartCovers
  <2> QED BY <2>1 DEF Covers
<1>3. ASSUME NEW i \in FoundThen, NEW p, p.at = Bucket(rows[i].at, answer.bucket)
      PROVE  Near(p, i)
  <2>1. rows[i].at \in Nat /\ rows[i] = samples[i]
    BY <1>1, RowsType
  <2> QED BY <1>1, <1>3, <2>1, BucketIsNear
<1> HIDE DEF Near, ps, rows
<1>4. ASSUME NEW i \in FoundThen PROVE \E p \in Range(ps) : Near(p, i)
  <2>1. PICK j \in DOMAIN ps : ps[j].at = Bucket(rows[i].at, answer.bucket)
    BY <1>2
  <2>2. ps[j] \in Range(ps)
    BY DEF Range
  <2> QED BY <1>3, <2>1, <2>2
<1>5. ASSUME NEW p \in Range(ps) PROVE \E i \in FoundThen : Near(p, i)
  <2>1. PICK j \in DOMAIN ps : p = ps[j]
    BY DEF Range
  <2>2. PICK i \in FoundThen : ps[j].at = Bucket(rows[i].at, answer.bucket)
    BY <1>2
  <2> QED BY <1>3, <2>1, <2>2
<1> QED BY <1>4, <1>5 DEF ps

(* The samples after the query are no part of a window that was over, but  *)
(* for the one that waited.                                                *)
LEMMA ClosedFollows ==
  ASSUME JInv
  PROVE  ClosedWindowSettles
<1> DEFINE late == {i \in FoundNow : i > asked.rows}
<1> SUFFICES ASSUME Answered, answer.to < asked.at
             PROVE  /\ late \subseteq {asked.rows + 1}
                    /\ \A i \in late : samples[i] = asked.waiting
                    /\ answer.rx = Rx(samples, FoundNow \ late)
                    /\ answer.tx = Tx(samples, FoundNow \ late)
  BY DEF ClosedWindowSettles
<1>1. /\ samples \in Seq(Row) /\ DOMAIN samples = 1..Len(samples)
      /\ answer.from \in Int /\ answer.to \in Int /\ asked.at \in Nat
      /\ asked.rows \in 0..Len(samples) /\ Len(samples) \in Nat
      /\ \A i \in asked.rows + 1 .. Len(samples) :
           \/ asked.at <= samples[i].at
           \/ i = asked.rows + 1 /\ samples[i] = asked.waiting
  BY Typed DEF JInv, IInv, TInv, Since
<1>2. \A i \in DOMAIN samples : samples[i].at \in Nat
  BY <1>1, RowTimes
<1>3. ASSUME NEW i \in late
      PROVE  i = asked.rows + 1 /\ samples[i] = asked.waiting
  <2>1. i \in DOMAIN samples /\ samples[i].at <= answer.to /\ i > asked.rows
    BY DEF FoundNow, Selected, InWindow
  <2>2. i \in asked.rows + 1 .. Len(samples) /\ samples[i].at \in Nat
    BY <1>1, <1>2, <2>1
  <2>3. ~(asked.at <= samples[i].at)
    BY <1>1, <2>1, <2>2
  <2> QED BY <1>1, <2>2, <2>3
<1>4. /\ RowsAsked \in Seq(Row) /\ Len(RowsAsked) = asked.rows
      /\ DOMAIN RowsAsked = 1..asked.rows
      /\ \A i \in 1..asked.rows : RowsAsked[i] = samples[i]
  BY <1>1, Prefix DEF RowsAsked
<1>5. FoundThen = Selected(RowsAsked, answer.source, answer.peer, answer)
  BY DEF FoundThen, RowsAsked
<1>6. FoundNow \ late = FoundThen
  <2>1. ASSUME NEW i
        PROVE  i \in FoundNow \ late <=> i \in FoundThen
    <3>1. i \in FoundNow \ late <=> i \in FoundNow /\ i \in 1..asked.rows
      BY <1>1 DEF FoundNow, Selected
    <3>2. CASE i \in 1..asked.rows
      <4>1. i \in DOMAIN samples /\ i \in DOMAIN RowsAsked
            /\ RowsAsked[i] = samples[i]
        BY <1>1, <1>4, <3>2
      <4> QED BY <1>5, <3>1, <3>2, <4>1 DEF FoundNow, Selected
    <3>3. CASE i \notin 1..asked.rows
      BY <1>4, <1>5, <3>1, <3>3 DEF Selected
    <3> QED BY <3>2, <3>3
  <2> QED BY <2>1
<1>7. /\ answer.rx = Rx(RowsAsked, FoundThen) /\ answer.tx = Tx(RowsAsked, FoundThen)
      /\ FoundThen \in SUBSET (1..asked.rows)
  BY <1>4 DEF JInv, Charted
<1>8. \A i \in FoundThen : RowsAsked[i] = samples[i]
  BY <1>4, <1>7
<1>9. /\ [i \in FoundThen |-> RowsAsked[i].delta.rx]
          = [i \in FoundThen |-> samples[i].delta.rx]
      /\ [i \in FoundThen |-> RowsAsked[i].delta.tx]
          = [i \in FoundThen |-> samples[i].delta.tx]
  BY <1>8
<1>10. Rx(samples, FoundThen) = answer.rx /\ Tx(samples, FoundThen) = answer.tx
  BY <1>7, <1>9 DEF Rx, Tx
<1> HIDE DEF late
<1>11. late \subseteq {asked.rows + 1} /\ \A i \in late : samples[i] = asked.waiting
  BY <1>3
<1> QED BY <1>6, <1>10, <1>11

-----------------------------------------------------------------------------
(* THE TYPES. Every answer names a source that is configured, ends where   *)
(* the request says or at its moment, and counts natural numbers, in its   *)
(* totals and in every point (handlers.go:62-77, 121-154).                 *)
THEOREM QueryTyped == Spec => []TypeOK
<1>1. TInv => TypeOK
  BY DEF TInv
<1> QED BY <1>1, TypeHolds, TypeKept, PTL DEF Spec

(* THE WINDOW. Every window that is answered is not empty, has buckets of  *)
(* a positive length, and is as long as a number of seconds that fits a    *)
(* time.Duration asks for, whatever else the request says                  *)
(* (handlers.go:87-98, 121-154, 185-199).                                  *)
THEOREM WindowCorrect == Spec => []WindowIsUsable
<1>1. IInv => WindowIsUsable
  BY DEF IInv
<1> QED BY <1>1, InitHolds, StepKeeps, PTL DEF Spec

(* CLOSED WINDOWS. Of a window that was over when it was asked for, a      *)
(* later request finds what the answer sums and at most the one sample     *)
(* that was stamped and not yet inserted, however much is stored meanwhile *)
(* (handlers.go:87-105, 218-221, traffic.go:104-110).                      *)
THEOREM ClosedCorrect == Spec => []ClosedWindowSettles
<1> QED BY JInvHolds, JInvKept, ClosedFollows, PTL DEF Spec

(* THE CHART ADDS UP. However many samples fall into however many buckets, *)
(* whichever of them merge and in whatever order the map yields them, the  *)
(* points come out in order of time, one for a time, and sum to the totals *)
(* (handlers.go:222-241, 268-278).                                         *)
THEOREM ChartCorrect == Spec => []PointsAddUp
<1>1. JInv => PointsAddUp
  BY ChartedAddsUp DEF JInv
<1> QED BY <1>1, JInvHolds, JInvKept, PTL DEF Spec

(* THE CHART IS NEAR. Every selected sample has a point less than a bucket *)
(* and a second before it and every point a sample that near               *)
(* (handlers.go:222-235).                                                  *)
THEOREM ChartNear == Spec => []PointsSpanTheirSamples
<1>1. JInv => PointsSpanTheirSamples
  BY ChartedIsNear DEF JInv
<1> QED BY <1>1, JInvHolds, JInvKept, PTL DEF Spec
=============================================================================
