SPECIFICATION Spec
CONSTANTS
  f1 = f1
  f2 = f2
  c1 = c1
  c2 = c2
  c3 = c3
  w1 = w1
  w2 = w2
  None = None
  Fds = {f1}
  Conns = {c1, c2}
  Workers = {w1, w2}
  MAX_FD = 1
  MaxRequests = 1
  Slots = 2
  Outcomes = {"more", "reply"}
  Linger = {TRUE}
  Prompt = TRUE
  Stoppable = TRUE
  MaxSends = 2
SYMMETRY Perms
INVARIANTS
  Exclusive
  NoCrossTalk
PROPERTIES
  HandsOff
CHECK_DEADLOCK FALSE
