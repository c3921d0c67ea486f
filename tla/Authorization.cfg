SPECIFICATION FairSpec
CONSTANTS
  NULL = NULL
  LoginPages <- MCLoginPages
  ConsentPages <- MCConsentPages
  Now = 1000
  ExpiresIn = 3600
INVARIANTS
  TypeOK
  LoginIsReal
  PasswordOnlyToLogin
  TokenIsIssued
PROPERTIES
  SignedInBeforeConsent
  IsSession
  Terminates
