\* Two updates in flight: e-mail, department and role, and the trail read by its stamps.
CONSTANTS
  e1 = e1
  e2 = e2
  r1 = r1
  r2 = r2
  m1 = m1
  m2 = m2
  m3 = m3
  d1 = d1
  d2 = d2
  ra = ra
  rb = rb
  rc = rc
  Employee = {e1, e2}
  Request = {r1, r2}
  Email = {m1, m2, m3}
  Department = {d1, d2}
  Role = {ra, rc}
  RoleDept <- MCRoleDept
  Free = {1}
  None = None
  HR = HR
  Field = {"email", "dept", "role"}
  MaxAudit = 2
  MaxTime = 1
SPECIFICATION Spec
CONSTRAINT NoManagers
SYMMETRY Symmetry
INVARIANTS
  AuditReplays
  EmailsUnique
  OldValuesWereHeld
  PrivilegedByHR
PROPERTIES
  MixedOnlyByOvertaking
