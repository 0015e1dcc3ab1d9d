SPECIFICATION FairSpec
CONSTANTS
  m1 = m1
  a1 = a1
  a2 = a2
  east = east
  west = west
  none = none
  Calls = {m1, a1, a2}
  Agents = {a1, a2}
  Cancellable = {a1, a2}
  Domains = {east, west}
  Direct = none
  MaxGen = 2
  MaxAttempts = 3
CHECK_DEADLOCK FALSE
INVARIANTS InputFrozenInFlight LoserClosed NothingLeftBehind
PROPERTIES CallsReturn
