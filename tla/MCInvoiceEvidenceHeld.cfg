SPECIFICATION Spec

CONSTANTS
  Artifacts = {a1}
  Contents = {c1}
  NoContent = NoContent
  Requests = {r1}
  Sweeps = {s1}
  Days = {0, 1}
  External = TRUE
  Decisions = {"none", "approved"}
  Controls = {"none", "matched"}
  MaxTime = 1
  MaxWrites = 3

CHECK_DEADLOCK FALSE

INVARIANT HeldBytesKept
