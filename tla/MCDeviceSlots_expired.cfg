CONSTANTS
  a = a
  b = b
  c = c
  a1 = a1
  b1 = b1
  c1 = c1
  Devices = {b, c}
  Conns = {b1, c1}
  DeviceOf <- MCDeviceOf
  Entries <- MCEntries
  Limits = {1}
  Expiry = 0
SPECIFICATION Spec
INVARIANT FreshWithinLimit
