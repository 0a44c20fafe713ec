\* Two runs over three employees, reports cut off after one row.
CONSTANTS
  e1 = e1
  e2 = e2
  e3 = e3
  d1 = d1
  d2 = d2
  n1 = n1
  n2 = n2
  Employee = {e1, e2, e3}
  Department = {d1, d2}
  Run = {n1, n2}
  HomeOf <- MCHomeOf
  Scores <- MCScores
  Target <- MCTarget
  MaxRows = 1
  MaxTime = 1
SPECIFICATION AttritionSpec
CONSTRAINT OneAway
SYMMETRY Symmetry
INVARIANTS
  LimitOnlyAlarms
  AttritionTypeOK
  NewestReviewShown
