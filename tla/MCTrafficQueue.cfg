CONSTANTS
  Callers = {c1, c2, c3}
  Writers = {w1, w2}
  Keys = {k1}
  Amounts = {2}
  MaxCount = 5
  MaxRepairs = 1
  MaxCalls = 4
  MaxFaults = 1
SPECIFICATION Spec
INVARIANTS AckedIsKept OneWriter NoCallOnClosedFile
PROPERTIES EveryCallReturns CloseCompletes
