SPECIFICATION Spec
CONSTANTS
  Words <- MCWords
  MaxWords = 3
  Files <- MCFiles
  LoginPages <- MCLoginPages
  ConsentPages <- MCConsentPages
  Now = 1000
  ExpiresIn = 3600
  NULL = NULL
INVARIANTS
  CredentialsAsConfigured
  TokensAsConfigured
