CONSTANTS
  MaxSent = 2
  MaxNmi = 1
  MaxCalls = 1
  VectoringExits = FALSE
  UserBlocked = {"bounce", "other"}
SPECIFICATION Spec
CHECK_DEADLOCK FALSE
INVARIANTS BounceNeverLost
