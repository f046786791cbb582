\* Every file of up to three entries over two clients and two names.
CONSTANTS
  a = a
  b = b
  x = x
  y = y
  NoId = NoId
  BadId = BadId
  BadName = BadName
  Ids = {a, b}
  Names = {x, y}
  MaxEntries = 3
SPECIFICATION Spec
SYMMETRY Symmetry
INVARIANTS TypeOK ShownClientCanBeRenamed RenamesCommute
PROPERTY RenameKeepsEverything
CHECK_DEADLOCK FALSE
