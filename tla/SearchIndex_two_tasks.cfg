\* Two employees, two updates, two tasks, one fault.
CONSTANTS
  None = None
  e1 = e1
  e2 = e2
  d1 = d1
  d2 = d2
  t1 = t1
  t2 = t2
  org = org
  word = word
  Org = org
  TokensOf <- MCTokensOf
  Employee = {e1, e2}
  Department = {d1, d2}
  HomeOf <- MCHomeOf
  Task = {t1, t2}
  MaxRows = 2
  MaxEdits = 2
  MaxFaults = 1
SPECIFICATION Spec
INVARIANTS
  SearchKeepsToRights
PROPERTIES
  OlderOnlyByOverlap
  LoneTaskPrevails
