SPECIFICATION Spec
CONSTANTS
  a = a
  c = c
  d = d
  p = p
  Actor = {a, c}
  Device = {d}
  Root = root
  Peers = {p}
  Beh = {b}
  Steps = 1
  Quota = 1
  NoMem = TRUE
  DeviceError = {"limit"}
  Event <- DeviceEvents
INVARIANTS
  BusyHasContinuation
