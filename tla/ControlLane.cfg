CONSTANTS
  Routes = {"lan", "wan"}
  Lanes = {"reliable", "realtime"}
  Scopes = 2
  MaxEvents = 4
  Window = 2
  Faults = TRUE
SPECIFICATION Spec
INVARIANTS InjectedInOrder FinalReleaseWins OkMeansInjected
CHECK_DEADLOCK FALSE
