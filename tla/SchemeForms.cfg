SPECIFICATION Spec
CONSTANTS
  Programs <- FormPrograms
INVARIANTS CompiledRight
CHECK_DEADLOCK FALSE
