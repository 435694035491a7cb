CONSTANTS
  i = i
  j = j
  k = k
  u1 = u1
  u2 = u2
  Infos = {i, j, k}
  TagOf <- MCTagOf
  Users = {u1, u2}
  Variants = {1, 2}
  Bad = {2}
  MaxEdits = 3
  MaxFaults = 3
SPECIFICATION Spec
INVARIANTS TypeOK NodeIsBuilt ServesOnlyListed
PROPERTY Converges
