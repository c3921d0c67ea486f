SPECIFICATION Spec
CONSTANTS
  Bytes = {b1, b2}
  Nul = nul
  MaxRequests = 3
  MaxBody = 2
INVARIANTS
  TypeOK
  NoDanglingOption
  RequestAsCalled
  Ipv4OnlyHonoured
  BufferIsBody
