SPECIFICATION Spec
CONSTANTS
  MaxBytes = 2
  Connections = 2
  Records = {r1}
  Root = root
  WaitsForBoot = TRUE
  Faults <- OneCut
INVARIANTS
  PreviousOrNone
