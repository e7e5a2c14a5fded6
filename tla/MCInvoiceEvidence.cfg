SPECIFICATION Spec

CONSTANTS
  Artifacts = {a1, a2}
  Contents = {c1, c2}
  NoContent = NoContent
  Requests = {r1, r2}
  Sweeps = {s1}
  Days = {0, 1}
  External = TRUE
  Decisions = {"none", "approved"}
  Controls = {"none", "matched"}
  MaxTime = 1
  MaxWrites = 4

SYMMETRY Interchangeable

CHECK_DEADLOCK FALSE

INVARIANTS
  NoLostUpdate
  DocumentMatchesRows

PROPERTIES
  WriteOnce
  VerifiedIsKept
  PurgeHonoursHold
