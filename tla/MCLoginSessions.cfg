SPECIFICATION Spec

CONSTANTS
  Accounts = {a1, a2}
  Emails = {e1, e2}
  Passwords = {p1, p2}
  Sessions = {s1, s2}
  Requests = {r1, r2}
  MaxFailed = 2
  Lockout = 1
  TTL = 1

SYMMETRY Interchangeable

CHECK_DEADLOCK FALSE

INVARIANTS
  LockedByFailures

PROPERTIES
  LockOnlyCutByEarlier
  GuardedByOwnPassword
  NoRevival
  DisabledIsFinal
