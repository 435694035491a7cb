CONSTANTS
  phone = phone
  laptop = laptop
  Kinds = {"anytls", "hysteria2"}
  Creds <- MCCreds
  DeviceOf <- MCDeviceOf
  Conns <- MCConns
  CredOf <- MCCredOf
  HostOf <- MCHostOf
  Lists <- MCLists
  Limits = {1}
  Expiry = 1
  MaxLive = 2
  Books = {1, 2, 3, 4, 5, 6, 7}
SPECIFICATION Spec
INVARIANTS OneLedger HoldersListed
PROPERTIES SlotsFit SilentIsFreed
