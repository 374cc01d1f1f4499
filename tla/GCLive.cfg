SPECIFICATION FairSpec
CONSTANTS
  RamBase = 1
  RamMax = 3
  GcStride = 2
  Fields = 1
  Locals = 2
  Stubs = 1
  HostGc = {"idle"}
INVARIANTS IInv
PROPERTIES GarbageCollected
