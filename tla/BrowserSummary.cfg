SPECIFICATION Spec
CONSTANTS
  Users <- OneUser
  Views <- MCViews
  Stable <- Memoised
  LastPage = 0
  maximumConcurrentReads = 2
  MaxDay = 0
  MaxResumes = 2
  MaxEpochs = 1
  MaxReads = 2
PROPERTIES ReadsSettle
CHECK_DEADLOCK FALSE
