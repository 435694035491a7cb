CONSTANTS
  n1 = n1
  n2 = n2
  a = a
  b = b
  Nodes = {n1, n2}
  Devices = {a, b}
  Watched = {}
  Limits = {1, 2}
  Expiry = 1
  MaxEdits = 1
  MaxFaults = 1
SPECIFICATION Spec
INVARIANTS TypeOK KickedStaysOut
PROPERTIES TakesWithinLimit EvictsOnlyForRoom
SYMMETRY Symmetry
