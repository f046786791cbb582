--------------------------- MODULE MCTrafficQuery ---------------------------
(* TrafficQuery with a minute as long as a second, an hour of sixty of     *)
(* them and durations of sixteen bits.                                     *)
EXTENDS TrafficQuery, TLC

CONSTANTS s1, s2, p1, p2

MCSourceOrder == <<s1, s2>>
MCDeltas == {[rx |-> 1, tx |-> 2]}

InSeconds(n) == [unit |-> "second", n |-> n]
Duration(n) == [unit |-> "duration", n |-> n]

(* One second, one that wraps to a negative and one that wraps to a short  *)
(* positive length, three half seconds, nothing, and a few default buckets.*)
Ranges == {InSeconds(1), InSeconds(16384), InSeconds(32769),
           Duration(3), Duration(0), Duration(2880), Duration(20161)}

(* Less than a second, more than one but no whole number of them, and none.*)
Buckets == {Duration(1), Duration(3), InSeconds(0)}

(* Times in UTC, and one in a zone to the east and one to the west of it.  *)
UTC(t) == [at |-> t, zone |-> 0]
MCZones == {-2, 0, 2}
Abroad == {[at |-> 1, zone |-> 2], [at |-> 3, zone |-> -2]}

Ends == {UTC(1), UTC(40000), None, Bad} \union Abroad
Ids == {s2, None, UnknownSource}

RequestsWith(source, peer, from, to, range, bucket) ==
  [source : source, peer : peer, from : from, to : to,
   range : range, bucket : bucket]

(* Every form of window, and every source, peer and bucket on a few. *)
MCRequests ==
  RequestsWith({None}, {None}, {None}, Ends, Ranges \union {None, Bad}, {None})
    \union RequestsWith({None}, {None}, Ends \ {None}, Ends, {None}, {None})
    \union RequestsWith(Ids, Peers \union {None}, {None, UTC(1)}, {None, UTC(3)},
                        {Duration(4)}, Buckets \union {None, Bad})

Symmetry == Permutations({p1, p2})
=============================================================================
