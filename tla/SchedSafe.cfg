SPECIFICATION Spec
CONSTANTS
  a = a
  c = c
  d = d
  p = p
  Actor = {a, c}
  Device = {d}
  Root = root
  Peers = {p}
  Beh = {b, b2}
  Steps = 2
  Quota = 2
  NoMem = TRUE
  DeviceError = {"limit"}
  Event <- SafeEvents
SYMMETRY Symmetry
INVARIANTS
  OneHome
  OneTransaction
  SponsorReady
PROPERTIES
  Transactions
  NoOvertaking
  QuotaConserved
  SuspendedKept
