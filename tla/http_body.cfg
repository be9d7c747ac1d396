SPECIFICATION Spec
CONSTANTS
  READ_BUFFER_SIZE = 14
  HeaderLength = 3
  PageLength = 2
  FileLength = 2
  HeaderSplits = 1
  Kinds = {"post"}
  MaxAsked = 1
  MaxConnects = 1
  BodyCuts = TRUE
INVARIANT
  NoRequestOverlooked
CHECK_DEADLOCK FALSE
