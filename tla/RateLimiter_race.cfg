\* Two workers, three requests of one caller, three windows of one tick.
CONSTANTS
  Unset = Unset
  p1 = p1
  p2 = p2
  k1 = k1
  r1 = r1
  r2 = r2
  r3 = r3
  Environment <- MCEnvironment
  Key = {k1}
  Worker = {p1, p2}
  Request = {r1, r2, r3}
  Window = 1
  Grace = 1
  MaxTime = 2
SPECIFICATION Spec
SYMMETRY Symmetry
INVARIANTS
  AdmittedWithinLimit
  OverLimitOnlyByLostHits
  RefusedForCause
\* The clock is bounded and each request is made once.
CHECK_DEADLOCK FALSE
