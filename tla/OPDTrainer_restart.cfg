CONSTANTS
  Total = 3
  Window = 2
  Keep = 2
  None = None
SPECIFICATION Spec
INVARIANTS
  RestartContinues
