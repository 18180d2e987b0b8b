\* Does the fallback keep non-chat paths local?
SPECIFICATION Spec
CONSTANTS
  Handlers = {h1}
  Controllers = {c1}
  Nobody = Nobody
  MaxConcurrency = 1
  Fallback = TRUE
INVARIANTS OnlyChatToCloud
