CONSTANTS
  Days        <- MCDays
  Amounts     <- MCAmounts
  Particulars <- MCParticulars
  MaxRevision = 6
SPECIFICATION Spec
INVARIANTS
  TypeOK
  Chronological
  PaymentHasDecision
  OfferedBareActsSucceed
  NoUnreachedDay
PROPERTIES
  SetAsideIsKept
