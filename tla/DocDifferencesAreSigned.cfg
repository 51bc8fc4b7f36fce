CONSTANTS
  HALF = 8
  HZ = 5
  SMALL = 2
  TICKS = 8
  Base = 236
  Offsets <- StepOffsets
  Adjustments <- LoopAdjustments
  MaxT = 9
  MaxRequests = 3
  MaxAdjusts = 1
SPECIFICATION Spec
INVARIANT DifferencesAreSigned
CHECK_DEADLOCK FALSE
