\* Three requests in flight on two sessions: refreshes, logouts and calls race.
CONSTANTS
  s1 = s1
  s2 = s2
  r1 = r1
  r2 = r2
  r3 = r3
  Session = {s1, s2}
  Request = {r1, r2, r3}
  Jti = {1, 2, 3}
  NoJti = NoJti
SPECIFICATION Spec
SYMMETRY Symmetry
INVARIANTS
  LoggedOutStaysOut
  ActiveSessionRefreshable
  AuditComplete
PROPERTIES
  DeadTokenStaysDead
  ImplementsLifecycle
