SPECIFICATION Spec
CONSTANTS
  NULL = NULL
  UNSET = UNSET
  Objects <- MCObjects
  Texts <- MCTexts
  IcalFiles <- MCIcalFiles
  MaxReads = 1
  MaxMembers = 0
INVARIANTS
  TodosOutliveFile
