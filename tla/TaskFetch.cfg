SPECIFICATION FairSpec
CONSTANTS
  Tasks = {t1, t2, t3, t4}
  InitialLists <- MCInitialLists
  Lists <- MCLists
  PageSize = 2
  NULL = NULL
  MaxCalls = 2
  MaxEdits = 1
INVARIANTS
  TypeOK
  CompleteWhenQuiet
  PrefixWhenQuiet
  DepthBounded
  OwnReplyOnly
PROPERTIES
  CallsEnd
