\* Two profiles on two hosts.
CONSTANTS
  v1 = v1
  v2 = v2
  x = x
  default = default
  work = work
  Default = default
  Profiles = {default, work}
  VPSs = {v1, v2}
  Ports = {x}
  Tag = Tag
  None = None
  MaxHalves = 1
  MaxVersion = 1
  s = s
  t = t
  Tokens = {s, t}
SPECIFICATION Spec
SYMMETRY Symmetry
PROPERTY TunnelFollowsProfile
CHECK_DEADLOCK FALSE
