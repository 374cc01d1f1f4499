SPECIFICATION SpecParts
CONSTANTS
  Considered = {"signals", "driver", "transfer", "requests"}
  Callers = {c1}
  Listeners = {l1, l2}
  Stayers = {l1}
  Lossy = FALSE
  None = None
  Client = "debugger"
  Work = 3
  Quota = 2
  MaxCommands = 3
  Packets = 3
  MaxRetries = 2
  SeqModulus = 3
  MaxFaults = 1
  MaxAsks = 1
  Size = 3
  MaxCalls = 2
  Throws = FALSE
INVARIANTS TransferComplete Outcomes NothingLeft
PROPERTIES PromiseKept WorkDone EverythingSettles
CHECK_DEADLOCK FALSE
