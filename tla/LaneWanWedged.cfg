CONSTANTS
  Routes = {"wan"}
  Lanes = {"reliable"}
  Scopes = 1
  MaxEvents = 3
  Window = 2
  Faults = FALSE
SPECIFICATION Spec
INVARIANTS FreshIsNoReplay
CHECK_DEADLOCK FALSE
