\* Two requests in flight on one session.
CONSTANTS
  s1 = s1
  s2 = s2
  r1 = r1
  r2 = r2
  r3 = r3
  Session = {s1}
  Request = {r1, r2}
  Jti = {1, 2, 3}
  NoJti = NoJti
SPECIFICATION Spec
INVARIANTS
  RefreshTokenSingleUse
