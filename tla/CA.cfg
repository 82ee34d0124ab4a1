SPECIFICATION Spec
CONSTANTS
  NoBlock = NoBlock
  NoAddr = NoAddr
  Threads = {t1, t2}
  BlockIds = {b1, b2, b3, b4}
  Sizes = {1, 3, 7, 13}
  kRoundBlockSize = 2
  bin_ranges <- MCBinRanges
  DevBases = {1, 13}
  DevEnd = 25
  Hints = {5}
  Faults = {"rtFree", "new"}
INVARIANT NoOverlap
INVARIANT Accounted
SYMMETRY Symmetry
