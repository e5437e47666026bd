SPECIFICATION MCSpec
CONSTANTS
  Services = {web, otel, s3}
  Web = web
  Otel = otel
  MaxConns = 1
  WithoutPrometheus = FALSE
  Nil = Nil
  MaxList = 3
  Starters = {s1, s2}
  Users = {u1, u2}
  Checkers = {k1, k2}
  InitWithoutPing = FALSE
  Messages = {m1, m2, m3}
  MaxHandles = 3
CHECK_DEADLOCK FALSE
INVARIANTS HostInv HandlesInv
PROPERTIES RunReturns WebGoesQuiet CallsReturn
