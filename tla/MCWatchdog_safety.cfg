\* Two requests, overlapping loops and three monitors at once.
SPECIFICATION SpecH
CONSTANTS
  Requests = {r1, r2}
  Loops = {l1, l2}
  Triggerers = {g1}
  NoLoop = NoLoop
  Times = 2
  DraftTimes = 2
  HardOn = TRUE
  DraftOn = TRUE
  HasCommand = TRUE
  MaxDecoded = 1
  MaxDelta = 0
SYMMETRY Perms
INVARIANTS OwnerInv SamplingCovered
PROPERTIES StreakIsConsecutive OwnerStays BaselineAfterCleanPause DraftOutsidePause
