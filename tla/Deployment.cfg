\* Two profiles, one of them the default, two hosts, one port, two
\* tokens, two versions, one interrupted save of a profile.
CONSTANTS
  v1 = v1
  v2 = v2
  x = x
  default = default
  work = work
  Default = default
  Profiles = {default, work}
  VPSs = {v1, v2}
  Ports = {x}
  Tag = Tag
  None = None
  MaxHalves = 1
  MaxVersion = 2
  s = s
  t = t
  Tokens = {s, t}
SPECIFICATION Spec
SYMMETRY Symmetry
VIEW WithoutSocket
INVARIANTS TypeOK TokensAgree CollectorBehindForTwoReasons
PROPERTIES PanelFitsRun DeclineKeeps AcceptUpdatesBoth
CHECK_DEADLOCK FALSE
