\* Two panels and an external editor, two requests, two faults.
CONSTANTS
  r1 = r1
  r2 = r2
  p1 = p1
  p2 = p2
  a = a
  b = b
  x = x
  y = y
  Absent = Absent
  Cut = Cut
  Free = Free
  Panels = {p1, p2}
  Requests = {r1, r2}
  Clients = {a, b}
  Names = {x, y}
  MaxFaults = 2
SPECIFICATION Spec
SYMMETRY Symmetry
INVARIANTS TypeOK LockDiscipline WriteIsFresh AnswerSettles
CHECK_DEADLOCK FALSE
PROPERTY RegisterWhileUndisturbed
