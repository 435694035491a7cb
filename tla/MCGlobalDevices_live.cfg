CONSTANTS
  n1 = n1
  n2 = n2
  a = a
  b = b
  Nodes = {n1, n2}
  Devices = {a, b}
  Watched <- MCWatched
  Limits = {1}
  Expiry = 1
  MaxEdits = 0
  MaxFaults = 1
SPECIFICATION FairSpec
PROPERTIES OustedIsClosed
