SPECIFICATION Spec
CONSTANTS
  w1 = w1
  w2 = w2
  alice = alice
  p1 = p1
  p2 = p2
  None = None
  Workers = {w1, w2}
  Jobs = {1, 2, 3}
  Names = {alice}
  Passwords = {p1, p2}
  Kinds = {"register", "login", "page"}
  Sizes = {1, 2}
  ConnectFails = TRUE
  MaxAlarms = 2
  MaxRequests = 2
INVARIANTS
  TypeOK
  OneHolder
  SemaphoreCounts
  EnoughNeverBlocks
  AnswersTrue
  RegisteredAtMostThreads
  NoLostWakeup
  JobOnce
  NobodyStuck
SYMMETRY Perms
CHECK_DEADLOCK FALSE
