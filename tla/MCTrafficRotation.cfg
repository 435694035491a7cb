CONSTANTS
  KeyCount = 4
  UidOf <- MCUidOf
  MaxReportUsers = 2
  MaxCount = 2
SPECIFICATION Spec
PROPERTIES EveryAccountReported
