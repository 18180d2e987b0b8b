\* Does an event reach the client while the backend is silent?
SPECIFICATION RelaySpec
CONSTANTS
  Guard = TRUE
  EarlyTimings = FALSE
  MaxEvents = 2
PROPERTIES EventsArrive
