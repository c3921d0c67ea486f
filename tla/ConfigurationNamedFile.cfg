SPECIFICATION Spec
CONSTANTS
  Words <- MCWords
  MaxWords = 4
  Files <- MCFiles
  NULL = NULL
INVARIANTS
  NamedFileIsRead
CHECK_DEADLOCK FALSE
