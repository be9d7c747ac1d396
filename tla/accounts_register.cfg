SPECIFICATION Spec
CONSTANTS
  w1 = w1
  w2 = w2
  alice = alice
  p1 = p1
  p2 = p2
  None = None
  Workers = {w1, w2}
  Jobs = {1, 2}
  Names = {alice}
  Passwords = {p1, p2}
  Kinds = {"register"}
  Sizes = {2}
  ConnectFails = FALSE
  MaxAlarms = 0
  MaxRequests = 1
PROPERTY
  NameTakenOnce
CHECK_DEADLOCK FALSE
