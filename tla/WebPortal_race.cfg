\* Two sessions, four token pairs and two requests in flight.
CONSTANTS
  s1 = s1
  s2 = s2
  j1 = j1
  j2 = j2
  j3 = j3
  j4 = j4
  c1 = c1
  c2 = c2
  Session = {s1, s2}
  Jti = {j1, j2, j3, j4}
  NoJti = NoJti
  Call = {c1, c2}
  Empty = Empty
SPECIFICATION Spec
SYMMETRY Symmetry
INVARIANTS
  TypeOK
  CarriedOutOnce
  SignedOutMeansOut
  Custody
