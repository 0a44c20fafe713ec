\* One process, no fault, and a mutation the server refuses fills the list.
CONSTANTS
  p1 = p1
  p2 = p2
  Proc = {p1}
  LastMutation = 2
  Want <- MCWant
  Value = {0, 1}
  Forbidden = {1}
  Limit = 1
  MaxPair = 1
  Fault = {}
SPECIFICATION RepeatSpec
PROPERTIES
  QueuedIsSent
