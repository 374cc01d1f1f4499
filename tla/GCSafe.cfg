SPECIFICATION Spec
CONSTANTS
  RamBase = 1
  RamMax = 4
  GcStride = 1
  Fields = 1
  Locals = 2
  Stubs = 0
  HostGc = {"idle"}
INVARIANTS NoDangling FreeListSound ScanAhead LiveProtected
