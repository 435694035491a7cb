CONSTANTS
  i1 = i1
  i2 = i2
  odd = odd
  bad = bad
  u = u
  Kinds = {"anytls", "tuic", "hysteria2"}
  Infos = {i1, i2, odd, bad}
  Refused = {odd}
  Broken = {bad}
  Users = {u}
  MaxEdits = 2
  MaxFaults = 1
  MaxReloads = 1
SPECIFICATION FairSpec
INVARIANTS NodeIsBuilt KnowsBuiltUsers NothingOutlivesPanel
PROPERTIES Converges
CHECK_DEADLOCK FALSE
