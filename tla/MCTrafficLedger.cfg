CONSTANTS
  KeyCount = 3
  UidOf <- MCUidOf
  MaxReportUsers = 2
  MaxCount = 2
  Amounts = {1}
  Receipts = {TRUE, FALSE}
  MaxRecoveries = 1
  MaxRecorded = 3
  MaxFaults = 3
SPECIFICATION Spec
INVARIANTS ReportIsValid BillingBalance ArchiveSound OneChain
PROPERTIES ForgetsOnlyBilled InTurn ImplementsBilling ImplementsRotation
