SPECIFICATION Spec
CONSTANTS
  MaxBytes = 2
  Connections = 2
  Records = {r1, r2}
  Root = root
  WaitsForBoot = TRUE
  Faults <- OneOfEach
INVARIANTS
  NeverWider
  AnsweredHolds
  NeverAFragment
  DeliveredSurvives
  NoStray
  SealedNotOlder
PROPERTIES
  Converges
  KeepsItsPromise
