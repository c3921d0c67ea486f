SPECIFICATION Spec
CONSTANTS
  NULL = NULL
  LoginPages <- MCLoginPages
  ConsentPages <- MCConsentPages
  Now = 1000
  ExpiresIn = 3600
INVARIANTS
  LoginReturns
