SPECIFICATION Spec

CONSTANTS
  Accounts = {a1, a2}
  Founders = {a1, a2}
  HasDirectory = FALSE
  Directory = {}
  Requests = {r1, r2}
  NumInvites = 0
  NumTokens = 0

CHECK_DEADLOCK FALSE

INVARIANTS
  OwnerRemains
