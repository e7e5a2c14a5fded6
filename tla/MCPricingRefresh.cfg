SPECIFICATION Spec

CONSTANTS
  Skus = {s1}
  Dates = {d1, d2}
  Refreshes = {l1}
  Etl = etl
  MaxTime = 2
  CacheTTL = 2
  FreshNum = 1
  FreshDen = 2

CHECK_DEADLOCK FALSE

INVARIANTS
  RateGapExplained

PROPERTIES
  PruneKeepsMost
  RejectedSurvive
