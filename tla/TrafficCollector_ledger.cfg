\* Two sources, one peer, with the fairness of the scheduler; the clock never
\* steps back.
CONSTANTS
  p1 = p1
  p2 = p2
  NumSources = 2
  Peers = {p1}
  Directions = {"rx"}
  MaxCarried = 2
  MaxRows = 3
  MaxFaults = 2
  MaxClockSteps = 0
SPECIFICATION FairSpec
PROPERTIES ImplementsLedger SourceNotStarved
