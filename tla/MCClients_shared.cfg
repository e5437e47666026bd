SPECIFICATION MCSpec
CONSTANTS
  Requests = {p1, p2, p3}
  Transports = {1}
  Rules = {1, 2}
  MaxBuilds = 3
  MaxResets = 2
  MaxDials = 4
  MaxVersions = 2
  Attrs = {x, y}
  Nobody = Nobody
  MaxHandlers = 4
  MaxBuffers = 2
SYMMETRY Symmetry
CHECK_DEADLOCK FALSE
INVARIANTS ClientsInv LinesWhole
PROPERTIES ForgetsOnlyDead
