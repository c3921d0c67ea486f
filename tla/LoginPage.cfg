SPECIFICATION Spec
CONSTANTS
  NULL = NULL
  Trees <- MCTrees
  UserNames <- MCUserNames
  MaxNodes = 4
INVARIANTS
  FormsInDocumentOrder
  InputsOfForms
  FirstLoginForm
  FilledIn
  PostedInOrder
