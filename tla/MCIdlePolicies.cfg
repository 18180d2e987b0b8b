\* Three requests, a restart window of three ticks and a probe window of two.
SPECIFICATION LiveSpec
CONSTANTS
  Handlers = {h1, h2, h3}
  RestartInterval = 3
  ProbeInterval = 2
  HasProbeCommand = TRUE
INVARIANTS ActivityIsTimed
PROPERTIES ProbesSpaced RestartNeedsRequest IdleRestartHappens WaitingEnds
