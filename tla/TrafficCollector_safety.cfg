\* One source, two peers, one direction; the clock may step back once.
CONSTANTS
  p1 = p1
  p2 = p2
  NumSources = 1
  Peers = {p1, p2}
  Directions = {"rx"}
  MaxCarried = 2
  MaxRows = 3
  MaxFaults = 2
  MaxClockSteps = 1
SPECIFICATION Spec
SYMMETRY PeerSymmetry
INVARIANTS TypeOK NoOvercount OnlyClockMisleads RowsChain MemoryMatchesDb
