\* One process, every fault.
CONSTANTS
  p1 = p1
  p2 = p2
  Proc = {p1}
  LastMutation = 4
  Want <- MCWant
  Value = {0, 1}
  Forbidden = {1}
  Limit = 3
  MaxPair = 3
  Fault = {"unavailable", "unanswered", "crash", "expire", "rival"}
SPECIFICATION RepeatSpec
PROPERTIES
  SyncedStaysSynced
  OvertakenOnlyWhenFailed
  FlushTerminates
  EventuallyTried
