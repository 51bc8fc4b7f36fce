CONSTANTS
  p1 = p1
  p2 = p2
  p3 = p3
  NULL = NULL
  gps = gps
  up = up
  NoRef = NoRef
  Peers = {p1, p2, p3}
  Samples <- FewSamples
  Second = 100
  MAXDIST = 5
  MAXSTRAT = 16
  NSANE = 1
  NMIN = 3
  MaxPackets = 4
SYMMETRY PeerSymmetry
SPECIFICATION Spec
INVARIANT FalsetickersCulled
CHECK_DEADLOCK FALSE
