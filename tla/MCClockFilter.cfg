CONSTANTS
  UNIT = 16
  Short = 4096
  MAXDISP = 256
  MAXDISPAlg = 8
  MAXDIST = 80
  Wander = 32
  MINDISP = 0
  PREC = 1
  SGATE = 3
  Polls <- PollExtremes
  Replies <- SampleReplies
  MaxT = 8
SPECIFICATION Spec
INVARIANTS
  TypeOK
  TwoSamplesKept
  SilentServerUnfit
PROPERTIES
  EveryAnswerCounts
  JitterRatchets
  SampleUsedOnce
CHECK_DEADLOCK FALSE
