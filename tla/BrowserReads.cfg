SPECIFICATION Spec
CONSTANTS
  Users <- OneUser
  Views <- Contexts
  Stable = {}
  LastPage = 2
  maximumConcurrentReads = 2
  MaxDay = 1
  MaxResumes = 1
  MaxEpochs = 3
  MaxReads = 3
INVARIANTS SlotsAreHeld ShownIsFresh RepliesHaveOnePlace
PROPERTIES ReadsSettle
