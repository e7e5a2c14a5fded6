SPECIFICATION DirSpec

CONSTANTS
  a1 = a1
  a2 = a2
  us = us
  them = them
  ours = ours
  shared = shared
  Accounts = {a1, a2}
  Founders = {a1}
  HasDirectory = TRUE
  Directory = {a2}
  Requests = {r1}
  NumInvites = 0
  NumTokens = 0
  NoAccount = NoAccount
  Domains = {ours, shared}
  Ownable = {ours}
  DomainOf <- MCDomainOf
  Teams = {us, them}
  Us = us
  Controls <- MCControls
  Claims = {c1, c2}
  Users = {u1}
  Calls = {k1}

SYMMETRY MCSymmetry

INVARIANTS
  DirTypeOK

PROPERTIES
  ImplementsTeam
  ImplementsDomainClaims
  DisabledStaysOut
