CONSTANTS
  Reports = {r1, r2}
  Users <- MCUsers
  Metas = {"a", "b"}
  Receipts <- MCReceipts
  MaxReceipts = 3
SPECIFICATION Spec
INVARIANTS EveryReceiptCovered EntriesComplete
PROPERTIES ProofsSurvive ProofsMerged
CHECK_DEADLOCK FALSE
