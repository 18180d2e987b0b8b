\* Up to four events, for a client of the completion or of a message, with the
\* error guard attached.
SPECIFICATION RelaySpec
CONSTANTS
  Guard = TRUE
  EarlyTimings = FALSE
  MaxEvents = 4
INVARIANTS ClientStreamFaithful InterruptionIsTold UsageCounted ConsumersFed
INVARIANTS MessageTerminated StopIsEarned
PROPERTIES DeliversResponse GoneClientReleases MessageEnds
