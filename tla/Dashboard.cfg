\* Two sources with two peers, two names.
CONSTANTS
  s1 = s1
  s2 = s2
  ada = ada
  Ada = Ada
  Keys = {1, 2}
  SourceOf <- MCSourceOf
  Sources = {s1, s2}
  FirstSource = s1
  Names = {ada, Ada}
  Rank <- MCRank
  Nameless = Nameless
  None = None
  MaxChanges = 1
SPECIFICATION Spec
INVARIANTS TypeOK RenameStaysInSource
PROPERTIES PickedPeerIsRenamed OrderIsStable ConfirmedNameStays
CHECK_DEADLOCK FALSE
