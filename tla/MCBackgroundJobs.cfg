SPECIFICATION Spec

CONSTANTS
  Replicas = {p1, p2}
  Redis = Redis
  Limit = 1
  Window = 2
  Exports = {e1, e2}
  Prewarm = w1
  Combinations = 2

SYMMETRY JobSymmetry

INVARIANTS
  UnfinishedIsWorkedOn
  PrewarmAddsUp
  WindowHonoured
  NeverLockedOut

PROPERTIES
  ImplementsJobLife
