CONSTANTS
  KeyCount = 3
  UidOf <- MCUidOf
  MaxReportUsers = 2
  MaxCount = 2
  Amounts = {1}
  Receipts = {TRUE}
  MaxRecoveries = 1
  MaxRecorded = 3
  MaxFaults = 3
SPECIFICATION FairSpec
INVARIANTS ReplayComplete
PROPERTIES AllUsageBilled
