SPECIFICATION Spec
CONSTANTS
  NULL = NULL
  UNSET = UNSET
  Objects <- MCObjects
  Texts <- MCTexts
  IcalFiles <- MCIcalFiles
  MaxReads = 3
  MaxMembers = 3
INVARIANTS
  CarriedOver
  StringsOwned
  TodosInFileOrder
