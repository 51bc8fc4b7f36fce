CONSTANTS
  a1 = a1
  a2 = a2
  NoAddress = NoAddress
  Addresses <- Servers
  NMAX = 3
  RETRIES = 3
  HEAP = 9
SPECIFICATION Spec
INVARIANTS
  TypeOK
  OneFailureSilencesAll
PROPERTIES
  StartUpEnds
CHECK_DEADLOCK FALSE
