SPECIFICATION Spec
CONSTANTS
  RamBase = 1
  RamMax = 3
  GcStride = 2
  Fields = 1
  Locals = 2
  Stubs = 0
  HostGc = {"idle", "suspended"}
INVARIANTS WaitingKept
