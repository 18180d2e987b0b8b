\* Sampling under fair scheduling, every monitor on: one request that ends and is
\* sent again while the loop of before is still in a fetch or a command.
SPECIFICATION FairSpec
CONSTANTS
  Requests = {r1}
  Loops = {l1, l2}
  Triggerers = {g1}
  NoLoop = NoLoop
  Times = 1
  DraftTimes = 1
  HardOn = TRUE
  DraftOn = TRUE
  HasCommand = TRUE
  MaxDecoded = 1
  MaxDelta = 0
PROPERTIES OrphanRetires SamplingContinues
