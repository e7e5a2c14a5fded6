SPECIFICATION LiveSpec

CONSTANTS
  NumEvents = 3
  Exported = {1, 2}
  Workers = {w1, w2}
  BatchSize = 2
  MaxAttempts = 2
  Faults = TRUE

CHECK_DEADLOCK FALSE

INVARIANTS
  DeliveredWasReceived
  PostsBounded
PROPERTIES
  ImplementsDurableDelivery
  EverySettles
