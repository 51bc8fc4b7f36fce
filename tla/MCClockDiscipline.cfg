CONSTANTS
  p1 = p1
  p2 = p2
  NaN = NaN
  Peers = {p1, p2}
  FREQ_EXISTS = {TRUE, FALSE}
  Offsets <- OffsetClasses
  STEPT = 8
  PANICT = 20
  PREC = 1
  WATCH = 2
  LIMIT = 10
  MINPOLL = 6
  MAXPOLL = 8
  FLLPOLL = 8
  MAXFREQ = 2
  TICKRATE = 5
  MAXSTRAT = 3
  Strata = {1}
  MaxT = 6
SYMMETRY PeerSymmetry
SPECIFICATION Spec
INVARIANTS
  TypeOK
  CountInBand
  StepsAtMostOnce
  SyncFreqInTolerance
PROPERTIES
  UpdateTimeMonotone
  SyncForever
  FreqFrozenAtShortPoll
  PollChangeIsEarned
  ImplementsHostClock
CHECK_DEADLOCK FALSE
