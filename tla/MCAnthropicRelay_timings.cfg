\* Is the usage accounted when draft timings come first?
SPECIFICATION RelaySpec
CONSTANTS
  Guard = FALSE
  EarlyTimings = TRUE
  MaxEvents = 3
INVARIANTS UsageCounted
