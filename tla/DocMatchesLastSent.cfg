CONSTANTS
  NMAX = 2
  SECOND = 2
  SMALL = 2
  TIMEOUT = 3
  Base = 40
  EPOCH = 30
  Unreliable = TRUE
  MaxT = 16
  MaxRequests = 4
  MaxCorrection = 2
SPECIFICATION Spec
PROPERTIES
  MatchesLastSent
CHECK_DEADLOCK FALSE
