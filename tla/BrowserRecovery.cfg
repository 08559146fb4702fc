\* A page that nobody uses and that hears of no change may rest.
CHECK_DEADLOCK FALSE
CONSTANTS
  Actors = {"ana", "bob"}
  Records <- MCRecords
  Own <- MCOwn
  MaxEpochs = 2
  MaxLists = 2
SPECIFICATION Spec
INVARIANTS
  OneCheckPerOwner
  ShownIsOwn
  QuietListAgrees
PROPERTIES
  RemovalIsEarned
