\* A source, a peer, two buttons, four inputs, two rectangles.
CONSTANTS
  s1 = s1
  p1 = p1
  day = day
  week = week
  Sources = {s1}
  Peers = {p1}
  Presets = {day, week}
  FirstPreset = day
  Areas <- MCAreas
  Inputs <- MCInputs
  Times <- MCTimes
  MaxDate = 500000000
  Invalid = Invalid
  Throws = Throws
  None = None
  MaxFetches = 2
SPECIFICATION FairSpec
INVARIANTS TypeOK PanelShowsSelection RectangleIsSelected
PROPERTY SettledIsShown
CHECK_DEADLOCK FALSE
