SPECIFICATION Spec
CONSTANTS
  READ_BUFFER_SIZE = 14
  HeaderLength = 3
  PageLength = 2
  FileLength = 2
  HeaderSplits = 1
  Kinds = {"file", "once", "post", "missing", "empty", "forbidden", "dir",
           "junk", "long", "bareLF", "bareCR"}
  MaxAsked = 2
  MaxConnects = 2
  BodyCuts = FALSE
INVARIANTS
  TypeOK
  ParsedRight
  NoRequestOverlooked
  SentIsPrefix
  MappingReleased
PROPERTIES
  ImplementsService
  Served
CHECK_DEADLOCK FALSE
