------------------------- MODULE MCTrafficCollector -------------------------
(* TrafficCollector on small instances.  The peers are interchangeable in  *)
(* the safety runs: Init, Next and the invariants treat them alike.        *)
EXTENDS TrafficCollector, TLC

CONSTANTS p1, p2

PeerSymmetry == Permutations({p1, p2})
=============================================================================
