CONSTANTS
  NMAX = 2
  MINPOLL = 1
  MAXPOLL = 2
  Interval <- PowersOfTwo
  PeerPolls = {0, 3}
  UNREACH = 4
  INTBITS = 4
  WORD = 128
  Gap = 1
  MaxT = 11
SPECIFICATION Spec
INVARIANTS
  TypeOK
  NextPollBounded
  NobodyOverdue
PROPERTIES
  PollSpacing
  BackOffIsEarned
  DueDatePasses

CHECK_DEADLOCK FALSE
