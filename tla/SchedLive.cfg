SPECIFICATION FairSpec
CONSTANTS
  a = a
  c = c
  d = d
  p = p
  Actor = {a, c}
  Device = {d}
  Root = root
  Peers = {p}
  Beh = {b}
  Steps = 2
  Quota = 2
  NoMem = FALSE
  DeviceError = {"limit"}
  Event <- DeviceEvents
PROPERTIES
  Delivered ActivitySuspended
