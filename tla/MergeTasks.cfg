SPECIFICATION Spec
CONSTANTS
  Ids = {a, b, c, d}
  NULL = NULL
  TodoTrees <- MCTodoTrees
  TaskTrees <- MCTaskTrees
INVARIANTS
  TypeOK
  NoGoogleTaskLost
  UnmatchedTodosHaveNoTask
  ProblemsAreMatches
  InTreeOrder
