\* Can hardRepeat run the command once more in a pause whose command still runs?
SPECIFICATION Spec
CONSTANTS
  Requests = {r1, r2}
  Loops = {l1, l2}
  Triggerers = {g1, g2}
  NoLoop = NoLoop
  Times = 2
  DraftTimes = 2
  HardOn = TRUE
  DraftOn = FALSE
  HasCommand = TRUE
  MaxDecoded = 1
  MaxDelta = 0
PROPERTIES HardOutsidePause
