CONSTANTS
  ann = ann
  ben = ben
  o1 = o1
  o2 = o2
  o3 = o3
  o4 = o4
  r1 = r1
  r2 = r2
  NoReference = NoReference
  NoWorker = NoWorker
  Workers = {w1, w2}
  References = {r1, r2}
  Days <- MCDays
  Amounts <- MCAmounts
  Particulars <- MCParticulars
  Actors <- MCActors
  Grants <- MCGrants
  Operations <- HistoryOperations
  Requests <- HistoryRequests
  MaxGeneration = 0
SPECIFICATION Spec
INVARIANTS
  HistoryReplays
  ProjectionsAgree
  ErasureIsComplete
PROPERTIES
  AppendOnly
