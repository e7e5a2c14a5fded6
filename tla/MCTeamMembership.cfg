SPECIFICATION Spec

CONSTANTS
  Accounts = {a1, a2}
  Founders = {a1}
  HasDirectory = TRUE
  Directory = {a2}
  Requests = {r1, r2}
  NumInvites = 1
  NumTokens = 2

SYMMETRY RequestSymmetry

CHECK_DEADLOCK FALSE

PROPERTIES
  JoinsByInvitation
  InvitationIsFinal
