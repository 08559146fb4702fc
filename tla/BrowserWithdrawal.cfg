\* The ids of a behaviour run out, so it ends.
CHECK_DEADLOCK FALSE
CONSTANTS
  Actors = {"ana"}
  Scenarios <- MCLateWithdrawal
  MaxOperations = 2
  MaxEffects = 2
  MaxContexts = 0
  MaxRevision = 2
  MaxText = 1
SPECIFICATION Spec
INVARIANT
  HeardAcceptanceIsShown
