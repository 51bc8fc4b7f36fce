CONSTANTS
  NMAX = 2
  SECOND = 2
  SMALL = 2
  TIMEOUT = 3
  Base = 40
  EPOCH = 30
  Unreliable = FALSE
  MaxT = 16
  MaxRequests = 4
  MaxCorrection = 2
SPECIFICATION Spec
INVARIANTS
  TypeOK
  OnlyNewCorrections
PROPERTIES
  ImplementsOnWire
  AnswerAccepted
  ExchangeEnds
  PollingStarts
CHECK_DEADLOCK FALSE
