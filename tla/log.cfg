SPECIFICATION Spec
CONSTANTS
  Threads = {1, 2}
  MaxLines = 4
  Items = {1, 2, 3, 4}
  QueueSizes = {0, 1, 2}
  MaxDay = 1
  m_split_lines = 2
INVARIANTS
  TypeOK
  EachLineInOnePlace
  OnlyDirectOvertakes
  ConsumerAwake
  SplitBound
PROPERTIES
  QueueIsFifo
  EveryLineSettles
CHECK_DEADLOCK FALSE
