\* Every operation, two requests racing on one account.
CONSTANTS
  a1 = a1
  a2 = a2
  a3 = a3
  r1 = r1
  r2 = r2
  r3 = r3
  u1 = u1
  u2 = u2
  k1 = k1
  k2 = k2
  k3 = k3
  Account = {a1}
  Request = {r1, r2}
  Subject = {u1, u2}
  Secret = {k1, k2}
  None = None
  Threshold = 3
  LockTime = 1
  MaxTime = 2
  MaxFailed = 5
  Op = {"login", "sso", "mfa_setup", "mfa_verify"}
  AutoProvision = {a1}
  InitialKind = {"none", "local"}
SPECIFICATION Spec
SYMMETRY Symmetry
INVARIANTS
  TypeOK
  GuessesBounded
PROPERTIES
  LockStands
  UnverifiedOnlyByOvertaking
  ReboundOnlyByOvertaking
  SignUpIsFinal
CHECK_DEADLOCK FALSE
