SPECIFICATION FairSpec

CONSTANTS
  Resources = {c1, c2}
  Comparisons = {c1, c2}
  Teams = {t1}
  Requests = {r1}
  NoTeam = NoTeam
  NoKey = NoKey
  None = None
  SweepLimit = 1
  DeleteExpired = TRUE

CHECK_DEADLOCK FALSE

INVARIANTS
  KeyOnlyAnonymous

PROPERTIES
  AnonymousExpires
