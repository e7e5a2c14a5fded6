SPECIFICATION CallsLiveSpec

CONSTANTS
  Callers = {c1, c2}
  Threshold = 3
  Cooldown = 3
  MaxAttempts = 3
  Credentials = TRUE
  Listings = 2
  MaxPages = 2
  Streamed = FALSE

INVARIANTS
  CallsTypeOK
  ClosedBelowThreshold
  FlagHasAProbe
PROPERTIES
  ProbedOncePerCooldown
  Recovers
  EverySettles
  ImplementsBreaker
