\* Three concurrent error reports; every cut of every content of 7 runes and of
\* every answer of 4 + 4; every request under every configuration.
SPECIFICATION UnitsSpec
CONSTANTS
  Reporters = {p1, p2, p3}
  Configured = 3
  DefaultCooldown = 2
  HasCommand = TRUE
  MaxTime = 8
  MaxFired = 5
  Runes = {slash, letter, cjk}
  Counted = {slash, cjk}
  WideRunes = {cjk}
  WideBytes = 3
  NoRune = NoRune
  RepeatLimit = 2
  HardRepeat = 3
  SuccessLimit = 5
  MaxPiece = 4
  MaxContent = 7
  MaxEvent = 2
  MaxAnswer = 4
INVARIANTS UnitsTypeOK MarkIsExact OneAlarmPerRun VerdictIsExact RateBound BodyWhole RewritesAreDue
PROPERTIES PersistentFaultActs
CHECK_DEADLOCK FALSE
