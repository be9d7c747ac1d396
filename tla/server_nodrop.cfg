SPECIFICATION Spec
CONSTANTS
  f1 = f1
  f2 = f2
  c1 = c1
  c2 = c2
  c3 = c3
  w1 = w1
  w2 = w2
  None = None
  Fds = {f1, f2}
  Conns = {c1, c2}
  Workers = {w1, w2}
  MAX_FD = 2
  MaxRequests = 1
  Slots = 1
  Outcomes = {"more", "reply"}
  Linger = {TRUE, FALSE}
  Prompt = FALSE
  Stoppable = TRUE
  MaxSends = 1
SYMMETRY Perms
INVARIANTS
  OneTimerPerConnection
  UserCountExact
PROPERTIES
  TickClosesOnlyInactive
CHECK_DEADLOCK FALSE
