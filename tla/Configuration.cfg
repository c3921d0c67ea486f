SPECIFICATION Spec
CONSTANTS
  Words <- MCWords
  MaxWords = 4
  Files <- MCFiles
  NULL = NULL
INVARIANTS
  TypeOK
  ArgumentsSurvive
  TasksCountOnce
  LaterFileOverrides
  CredentialsOfOneSource
  SuccessMeansConfigured
  SecondPassSucceeds
CHECK_DEADLOCK FALSE
