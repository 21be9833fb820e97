CONSTANTS
  Budgets <- Mixed
  UserBlocked = {"bounce", "other"}
SPECIFICATION Spec
CHECK_DEADLOCK FALSE
INVARIANTS InjectionLegal NoSpuriousEvent  ExitIsExplained GuestNeverSeesRestart
