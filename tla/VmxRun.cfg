CONSTANTS
  MaxSent = 2
  MaxNmi = 1
  MaxCalls = 1
  VectoringExits = TRUE
  UserBlocked = {"bounce", "other"}
SPECIFICATION Spec
CHECK_DEADLOCK FALSE
INVARIANTS InjectionLegal NoSpuriousEvent ExitIsExplained GuestNeverSeesRestart
