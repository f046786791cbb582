---------------------------- MODULE TrafficQuery ----------------------------
(***************************************************************************)
(* GET /api/traffic (internal/web/handlers.go): the window and the bucket  *)
(* of a request are parsed, the samples the collector stored from the      *)
(* start of the window on are read (internal/db/sqlite.go), those after    *)
(* its end are dropped, and the rest is summed into buckets.  The database *)
(* has one connection, which inserts and requests wait for: a sample is    *)
(* stamped before its insert, and a request takes the time before its      *)
(* query.                                                                  *)
(*                                                                         *)
(* Time is counted in the smallest unit the program has (nanoseconds in    *)
(* Go).  Second, Minute and Hour are lengths in it, and a time.Duration is *)
(* an integer of fixed width that wraps; a time.Time does not, here.       *)
(***************************************************************************)
EXTENDS Integers, Sequences, FiniteSets, FiniteSetsExt, SequencesExt

CONSTANTS
  SourceOrder,     \* the ids of the sources, in configuration order
  UnknownSource,   \* an id no source has
  Peers,           \* public keys
  None,            \* a parameter the request leaves out
  Bad,             \* a parameter that does not parse
  Second, Minute, Hour,
  Zones,           \* offsets from UTC that a timestamp is written in
  MaxDuration,     \* the largest time.Duration, 2^63 - 1 in Go
  Deltas,          \* bound: deltas the collector stores, [rx, tx]
  Times,           \* bound: values of the clock
  Requests,        \* bound: requests, see Request
  MaxSamples       \* bound: stored samples

(* A configuration without a source is refused (config.go:70).             *)
ASSUME QueryAssumption ==
  /\ SourceOrder \in Seq(Range(SourceOrder)) \ {<<>>}
  /\ UnknownSource \notin Range(SourceOrder)
  /\ None \notin Range(SourceOrder) \union Peers
  /\ Second \in Nat \ {0} /\ Minute \in Nat \ {0} /\ Hour \in Nat \ {0}
  /\ MaxDuration \in Nat \ {0}
  /\ 0 \in Zones /\ Zones \subseteq Int
  /\ Deltas \subseteq [rx : Nat, tx : Nat]
  /\ 0 \in Times /\ Times \subseteq Nat
  /\ MaxSamples \in Nat

VARIABLES
  samples,   \* the table peer_samples, in the order of insertion
  waiting,   \* the sample that waits for its insert, or None
  now,       \* the clock
  asked,     \* the request and its moment, and what its query came upon
  answer     \* its response

vars == <<samples, waiting, now, asked, answer>>

Row == [source : Range(SourceOrder), peer : Peers, at : Times, delta : Deltas]

(* A time, and the offset its value is written in: a number of seconds and *)
(* the clock have that of the server, UTC (its image has no zones), an     *)
(* RFC3339 value has its own.                                              *)
Moment == [at : Int, zone : Zones]
Timestamp == Moment \union {None, Bad}
Seconds == [unit : {"second"}, n : Int]
Durations == [unit : {"duration"}, n : -MaxDuration - 1 .. MaxDuration]
Length == Seconds \union Durations \union {None, Bad}

Request ==
  [source : Range(SourceOrder) \union {UnknownSource, None},
   peer : Peers \union {None}, from : Timestamp, to : Timestamp,
   range : Length, bucket : Length]

ASSUME RequestAssumption ==
  /\ Requests \subseteq Request
  /\ {None, Bad} \intersect (Seconds \union Moment) = {}

BadRequest == [status |-> 400]
ServerError == [status |-> 500]

(* A point of the chart, what is remembered of a request, and a response   *)
(* with a window.                                                          *)
ChartPoint == [at : Nat, rx : Nat, tx : Nat]
Question == [q : Requests, at : Times, rows : 0..MaxSamples,
             waiting : Row \union {None}]
Answer ==
  [status : {200}, source : Range(SourceOrder), peer : Peers \union {None},
   from : Int, zone : Zones, to : Int, bucket : Int, rx : Nat, tx : Nat,
   points : Seq(ChartPoint)]

ASSUME AnswerAssumption ==
  None \notin Row \union Question \union Answer \union {BadRequest, ServerError}

-----------------------------------------------------------------------------
(* Parsing the request.                                                    *)

(* The signed integer of a time.Duration's width that is x modulo it. *)
Wrap(x) ==
  ((x + MaxDuration + 1) % (2 * MaxDuration + 2)) - MaxDuration - 1

(* Time.Sub saturates where the arithmetic on durations wraps. *)
Sub(t, u) == IF t - u > MaxDuration THEN MaxDuration
             ELSE IF t - u < -MaxDuration - 1 THEN -MaxDuration - 1
             ELSE t - u

(* A bare integer counts seconds, and its product with time.Second wraps;  *)
(* a value that is no duration at all is taken as if it were missing.      *)
ParseDuration(value, fallback) ==
  IF value \in {None, Bad} THEN fallback
  ELSE IF value.unit = "second" THEN Wrap(value.n * Second)
  ELSE value.n

(* Mutant: the default window ends a day from now instead of now. *)
WindowFromNow(q, t) ==
  LET length == ParseDuration(q.range, 24 * Hour)
      to     == IF q.to = None THEN [at |-> t + length, zone |-> 0] ELSE q.to
      from   == IF q.from = None THEN [at |-> t, zone |-> 0] ELSE q.from
  IN  IF Bad \in {q.from, q.to} \/ from.at >= to.at THEN None
      ELSE [from |-> from.at, zone |-> from.zone, to |-> to.at, length |-> length]

(* parseTrafficWindow.  Only a window whose start is given is checked      *)
(* here; the length of the others may be anything.  A start that is        *)
(* computed has the zone of the end.                                       *)
ParseWindow(q, t) ==
  LET to     == IF q.to = None THEN [at |-> t, zone |-> 0] ELSE q.to
      length == IF q.from = None THEN ParseDuration(q.range, 24 * Hour)
                                 ELSE Sub(to.at, q.from.at)
      from   == IF q.from = None THEN [at |-> to.at - length, zone |-> to.zone]
                                 ELSE q.from
  IN  IF Bad \in {q.from, q.to} \/ (q.from # None /\ length <= 0) THEN None
      ELSE [from |-> from.at, zone |-> from.zone, to |-> to.at, length |-> length]

DefaultBucket(length) ==
  IF length <= 6 * Hour THEN 5 * Minute
  ELSE IF length <= 24 * Hour THEN 15 * Minute
  ELSE IF length <= 7 * 24 * Hour THEN Hour
  ELSE 24 * Hour

(* The first source answers a request that names none. *)
SourceOf(id) == IF id = None THEN SourceOrder[1] ELSE id
KnownSource(id) == id = None \/ id \in Range(SourceOrder)

-----------------------------------------------------------------------------
(* Reading the samples: trafficSamples asks for those at or after from and *)
(* orders them by time; buildTrafficResponse skips those after to.         *)

(* The driver stores a time as text and compares the texts: the day and    *)
(* the hour in the zone of the value, then the zone, of which that of the  *)
(* stored times, +0000, comes before every other.                          *)
NotBefore(at, from, zone) == at > from + zone \/ (at = from /\ zone = 0)

(* Mutant: a sample in the last bucket of the window counts even when it   *)
(* is after its end.                                                       *)
InWindowRounded(row, window) ==
  NotBefore(row.at, window.from, window.zone) /\ row.at <= window.to + Minute

InWindow(row, window) ==
  NotBefore(row.at, window.from, window.zone) /\ row.at <= window.to

OfPeer(row, peer) == peer = None \/ row.peer = peer

(* The indices of the samples a request selects. *)
Selected(rows, source, peer, window) ==
  {i \in DOMAIN rows : /\ rows[i].source = source
                       /\ OfPeer(rows[i], peer)
                       /\ InWindow(rows[i], window)}

Rx(rows, I) == SumFunction([i \in I |-> rows[i].delta.rx])
Tx(rows, I) == SumFunction([i \in I |-> rows[i].delta.tx])

-----------------------------------------------------------------------------
(* Summing into buckets.                                                   *)

(* Mutant: Round instead of Truncate. *)
BucketRounded(t, bucket) ==
  LET start == ((t + bucket \div 2) \div bucket) * bucket
  IN  (start \div Second) * Second

(* Truncate(bucket).Unix(), as a time: the start of the bucket, rounded    *)
(* down to a second.                                                       *)
Bucket(t, bucket) ==
  LET start == (t \div bucket) * bucket
  IN  (start \div Second) * Second

(* Mutant: a sample replaces what its bucket holds. *)
PointOverwritten(rows, I, bucket, key) ==
  LET J == {i \in I : Bucket(rows[i].at, bucket) = key}
  IN  [at |-> key, rx |-> Rx(rows, {Max(J)}), tx |-> Tx(rows, {Max(J)})]

Point(rows, I, bucket, key) ==
  LET J == {i \in I : Bucket(rows[i].at, bucket) = key}
  IN  [at |-> key, rx |-> Rx(rows, J), tx |-> Tx(rows, J)]

Points(rows, I, bucket) ==
  {Point(rows, I, bucket, Bucket(rows[i].at, bucket)) : i \in I}

(* One round of sortTrafficPoints: the point moves in front of the later   *)
(* ones among those already sorted.                                        *)
Insert(points, p) ==
  LET j == Cardinality({i \in DOMAIN points : points[i].at <= p.at})
  IN  InsertAt(points, j + 1, p)

Sort(points) == FoldLeft(Insert, <<>>, points)

(* The points come out of a Go map, in any order. *)
Response(rows, source, peer, window, bucket) ==
  LET I == Selected(rows, source, peer, window)
  IN  {[status |-> 200, source |-> source, peer |-> peer, from |-> window.from,
        zone |-> window.zone, to |-> window.to, bucket |-> bucket,
        rx |-> Rx(rows, I), tx |-> Tx(rows, I), points |-> Sort(order)] :
         order \in SetToSeqs(Points(rows, I, bucket))}

(* Mutant: the handler does not check the durations it is about to use. *)
TrafficUnchecked(q, t, rows) ==
  LET window == ParseWindow(q, t)
      bucket == ParseDuration(q.bucket, DefaultBucket(window.length))
  IN  IF window = None \/ ~KnownSource(q.source) THEN {BadRequest}
      ELSE Response(rows, SourceOf(q.source), q.peer, window, Max({1, bucket}))

(* The handler Traffic.  The query itself may fail. *)
Traffic(q, t, rows) ==
  LET window == ParseWindow(q, t)
      bucket == ParseDuration(q.bucket, DefaultBucket(window.length))
  IN  IF \/ ~KnownSource(q.source)
         \/ window = None
         \/ window.length <= 0
         \/ bucket <= 0
      THEN {BadRequest}
      ELSE {ServerError}
             \union Response(rows, SourceOf(q.source), q.peer, window, bucket)

-----------------------------------------------------------------------------
Init ==
  /\ samples = <<>>
  /\ waiting = None
  /\ now = 0
  /\ asked = None
  /\ answer = None

(* The collector stamps a sample with the current time, before its insert  *)
(* waits for the connection.                                               *)
Stamp ==
  /\ waiting = None
  /\ Len(samples) < MaxSamples
  /\ waiting' \in [source : Range(SourceOrder), peer : Peers, at : {now},
                   delta : Deltas]
  /\ UNCHANGED <<samples, now, asked, answer>>

(* The insert, which may fail: its error is logged and the sample is lost. *)
Store ==
  /\ waiting # None
  /\ samples' \in {Append(samples, waiting), samples}
  /\ waiting' = None
  /\ UNCHANGED <<now, asked, answer>>

ClockRuns ==
  /\ now' \in {t \in Times : t > now}
  /\ UNCHANGED <<samples, waiting, asked, answer>>

(* A request comes and takes the time.  One is enough: it leaves nothing   *)
(* behind that another could see.                                          *)
Ask ==
  /\ asked = None
  /\ asked' \in [q : Requests, at : {now}, rows : {0}, waiting : {None}]
  /\ UNCHANGED <<samples, waiting, now, answer>>

(* Its query has the connection, and it is answered. *)
Reply ==
  /\ asked # None /\ answer = None
  /\ answer' \in Traffic(asked.q, asked.at, samples)
  /\ asked' = [asked EXCEPT !.rows = Len(samples), !.waiting = waiting]
  /\ UNCHANGED <<samples, waiting, now>>

Next == Stamp \/ Store \/ ClockRuns \/ Ask \/ Reply

Spec == Init /\ [][Next]_vars

-----------------------------------------------------------------------------
Answered == answer # None /\ answer.status = 200

(* What the query came upon of what it asks for, and what it would find of *)
(* that now.                                                               *)
FoundThen == Selected(SubSeq(samples, 1, asked.rows), answer.source,
                      answer.peer, answer)
FoundNow == Selected(samples, answer.source, answer.peer, answer)

(* TYPE INVARIANT.  A window that names no end of its own ends at the      *)
(* moment of the request, and totals are natural numbers                   *)
(* (handlers.go:62-77, 121-154).                                           *)
TypeOK ==
  /\ samples \in BoundedSeq(Row, MaxSamples)
  /\ waiting \in Row \union {None}
  /\ now \in Times
  /\ asked \in Question \union {None}
  /\ answer \in Answer \union {BadRequest, ServerError, None}
  /\ asked = None => answer = None
  /\ Answered => IF asked.q.to = None THEN answer.to = asked.at
                                      ELSE answer.to = asked.q.to.at

(* AN ANSWERED WINDOW IS USABLE. It is not empty and its buckets have a    *)
(* length, for every combination of parameters, and a length that fits a   *)
(* time.Duration is the length asked for: a number of seconds whose        *)
(* product wraps to a negative duration is refused, one that wraps to a    *)
(* short positive one is not (handlers.go:87-98, 121-154, 185-199).        *)
WindowIsUsable ==
  Answered =>
    LET q == asked.q
    IN  /\ answer.from < answer.to
        /\ answer.bucket > 0
        /\ (/\ q.from = None
            /\ q.range \in Seconds
            /\ q.range.n * Second \in 0..MaxDuration)
           => answer.to - answer.from = q.range.n * Second

(* THE TOTALS ARE WHAT WAS STORED. They are the traffic of the selected    *)
(* source, or of its one peer, stored from the one time to the other,      *)
(* whatever form the request writes its times in (sqlite.go:61-111,        *)
(* handlers.go:173-183, 215-235).  They are not: a start in a zone of its  *)
(* own is compared by its text.                                            *)
TotalsMatchSamples ==
  Answered =>
    LET I == {i \in 1..asked.rows :
                /\ samples[i].source = answer.source
                /\ answer.peer \in {samples[i].peer, None}
                /\ samples[i].at \in answer.from .. answer.to}
    IN  answer.rx = Rx(samples, I) /\ answer.tx = Tx(samples, I)

(* THE CHART ADDS UP AND RUNS FORWARD. Its points add up to the totals     *)
(* next to it and come in order of time, one for each time, whichever      *)
(* buckets merge when their starts are rounded to seconds and in whatever  *)
(* order the map hands them out (handlers.go:222-241, 268-278).            *)
PointsAddUp ==
  Answered =>
    LET ps == answer.points
    IN  /\ SumFunction([j \in DOMAIN ps |-> ps[j].rx]) = answer.rx
        /\ SumFunction([j \in DOMAIN ps |-> ps[j].tx]) = answer.tx
        /\ \A i, j \in DOMAIN ps : i < j => ps[i].at < ps[j].at

(* TRAFFIC IS SHOWN WHERE IT HAPPENED. A sample has a point that starts no *)
(* later than it and, but for the second lost in rounding, less than a     *)
(* bucket earlier; and no point is without samples (handlers.go:222-235).  *)
PointsSpanTheirSamples ==
  Answered =>
    LET Near(p, i) == /\ p.at <= samples[i].at
                      /\ samples[i].at < p.at + answer.bucket + Second
    IN  /\ \A i \in FoundThen : \E p \in Range(answer.points) : Near(p, i)
        /\ \A p \in Range(answer.points) : \E i \in FoundThen : Near(p, i)

(* A CLOSED WINDOW SETTLES. What is found at any later time of a window    *)
(* that was over when it was asked for is what the answer sums, and at     *)
(* most one sample more: the one that was stamped inside the window and    *)
(* still waited for its insert when the query ran.  The clock that stamps  *)
(* the samples does not go back here (handlers.go:87-105, 218-221,         *)
(* traffic.go:104-110, sqlite.go:22).                                      *)
ClosedWindowSettles ==
  Answered /\ answer.to < asked.at =>
    LET late == {i \in FoundNow : i > asked.rows}
    IN  /\ late \subseteq {asked.rows + 1}
        /\ \A i \in late : samples[i] = asked.waiting
        /\ answer.rx = Rx(samples, FoundNow \ late)
        /\ answer.tx = Tx(samples, FoundNow \ late)
=============================================================================
