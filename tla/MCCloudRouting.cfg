\* Two requests for one cloud slot, two control commands.
SPECIFICATION FairSpec
CONSTANTS
  Handlers = {h1, h2}
  Controllers = {c1, c2}
  Nobody = Nobody
  MaxConcurrency = 1
  Fallback = TRUE
INVARIANTS CountersExact
PROPERTIES SlotWaitEnds HealthSettles
