\* The GUI and the CLI at the same time.
CONSTANTS
  p1 = p1
  p2 = p2
  Proc = {p1, p2}
  LastMutation = 2
  Want <- MCWant
  Value = {0, 1}
  Forbidden = {}
  Limit = 2
  MaxPair = 3
  Fault = {"unavailable", "unanswered", "crash", "expire", "rival"}
SPECIFICATION Spec
SYMMETRY Symmetry
INVARIANTS
  TypeOK
  SyncedMeansApplied
  StoredPairUsable
