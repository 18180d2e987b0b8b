\* Two callers, so that one can be queued behind the probe of the other; a
\* back-off that is doubled twice; two context windows, told by one endpoint.
SPECIFICATION FairSpec
CONSTANTS
  Callers = {c1, c2}
  Windows = {1, 2}
  Paths = {"models"}
  TTL = 3
  MinBackoff = 1
  MaxBackoff = 4
  FetchTime = 1
INVARIANTS CacheSettles
PROPERTIES StaleBeatsNothing CallsReturn
