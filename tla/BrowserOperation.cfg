\* The ids of a behaviour run out, so it ends.
CHECK_DEADLOCK FALSE
CONSTANTS
  Actors = {"ana", "bob"}
  Scenarios <- MCScenarios
  MaxOperations = 2
  MaxEffects = 4
  MaxContexts = 1
  MaxRevision = 2
  MaxText = 1
SPECIFICATION Spec
INVARIANTS
  OneRequestPerIdentity
  RecordOutlivesDoubt
  ConfirmedWhereReviewed
  FactsHaveFreshProof
  HeardAcceptanceIsShown
PROPERTIES
  DoubtIsSticky
  AuthoredTextSurvives
  LocksRelease
