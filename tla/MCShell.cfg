SPECIFICATION Spec
CONSTANTS
  MAXARGS = 3
  NPROC = 7
  NOFILE = 5
  Script <- MCScript
INVARIANTS
  RightStreams
  ListsInOrder
PROPERTIES
  ParsedAsWritten
  CommandsEnd
CHECK_DEADLOCK FALSE
