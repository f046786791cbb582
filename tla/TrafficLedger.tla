--------------------------- MODULE TrafficLedger ---------------------------
(***************************************************************************)
(* What the panel's traffic history promises, with no process, no memory   *)
(* and no database in it: a byte is carried by a VPN interface, and later  *)
(* it may be recorded, at most once.  Bytes may stay unrecorded for ever   *)
(* (the collector was down when the container restarted), but the history  *)
(* never shows a byte nobody carried and never takes a byte back.          *)
(*                                                                         *)
(* TrafficCollector implements this module; see TrafficCollectorProofs.    *)
(***************************************************************************)
EXTENDS Naturals

CONSTANTS
  Keys,        \* (source, peer) pairs, the "source_id|public_key" of the code
  Directions   \* the counters of a peer

Amount == [Directions -> Nat]
Nothing == [d \in Directions |-> 0]

VARIABLES
  carried,     \* bytes the VPN interfaces carried, per key and direction
  recorded     \* bytes the stored samples add up to

vars == <<carried, recorded>>

Init ==
  /\ carried = [k \in Keys |-> Nothing]
  /\ recorded = [k \in Keys |-> Nothing]

(* The interface of a peer moves one more unit of traffic. *)
Carry(k, d) ==
  /\ carried' = [carried EXCEPT ![k][d] = @ + 1]
  /\ UNCHANGED recorded

(* One sample enters the history: both directions at once, and never more  *)
(* than was carried.                                                       *)
Record(k, amounts) ==
  /\ \A d \in Directions : recorded[k][d] + amounts[d] <= carried[k][d]
  /\ recorded' = [recorded EXCEPT ![k] = [d \in Directions |-> @[d] + amounts[d]]]
  /\ UNCHANGED carried

(* A sample never exceeds what is still unrecorded, so these are all the   *)
(* amounts Record can be taken with.                                       *)
Unrecorded(k) ==
  {a \in [Directions -> UNION {0..carried[k][d] : d \in Directions}] :
     \A d \in Directions : recorded[k][d] + a[d] <= carried[k][d]}

Next ==
  \/ \E k \in Keys, d \in Directions : Carry(k, d)
  \/ \E k \in Keys : \E a \in Unrecorded(k) : Record(k, a)

Spec == Init /\ [][Next]_vars
=============================================================================
