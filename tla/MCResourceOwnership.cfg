SPECIFICATION Spec

CONSTANTS
  Resources = {c1, w1}
  Comparisons = {c1}
  Teams = {t1, t2}
  Requests = {r1, r2}
  NoTeam = NoTeam
  NoKey = NoKey
  None = None
  SweepLimit = 1
  DeleteExpired = TRUE

SYMMETRY RequestSymmetry

CHECK_DEADLOCK FALSE

PROPERTIES
  ClaimedStays
  NotRevived
  SweepSparesTeams
