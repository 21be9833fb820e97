CONSTANTS
  Budgets <- Single
  UserBlocked = {"bounce", "other"}
SPECIFICATION FairSpec
CHECK_DEADLOCK FALSE
INVARIANTS BounceNeverLost NmiNeverLost
PROPERTIES BounceDelivered NmiDelivered
