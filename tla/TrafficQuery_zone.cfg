\* The same requests against what is stored between the times they name.
CONSTANTS
  s1 = s1
  s2 = s2
  p1 = p1
  p2 = p2
  None = None
  Bad = Bad
  UnknownSource = UnknownSource
  SourceOrder <- MCSourceOrder
  Peers = {p1, p2}
  Second = 2
  Minute = 2
  Hour = 120
  Zones <- MCZones
  MaxDuration = 32767
  Deltas <- MCDeltas
  Times = {0, 1, 5}
  Requests <- MCRequests
  MaxSamples = 2
SPECIFICATION Spec
SYMMETRY Symmetry
INVARIANT TotalsMatchSamples
CHECK_DEADLOCK FALSE
