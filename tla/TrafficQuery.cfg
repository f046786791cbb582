\* Every form of request, with few windows and buckets, on up to two samples.
CONSTANTS
  s1 = s1
  s2 = s2
  p1 = p1
  p2 = p2
  None = None
  Bad = Bad
  UnknownSource = UnknownSource
  SourceOrder <- MCSourceOrder
  Peers = {p1, p2}
  Second = 2
  Minute = 2
  Hour = 120
  Zones <- MCZones
  MaxDuration = 32767
  Deltas <- MCDeltas
  Times = {0, 1, 5}
  Requests <- MCRequests
  MaxSamples = 2
SPECIFICATION Spec
SYMMETRY Symmetry
INVARIANTS TypeOK WindowIsUsable ClosedWindowSettles
  PointsAddUp PointsSpanTheirSamples
CHECK_DEADLOCK FALSE
