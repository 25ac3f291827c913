SPECIFICATION Spec
CONSTANTS
  Versions <- MCVersions
  UserScope = TRUE
  MaxBytes = 2
  Faults <- Everything
INVARIANTS
  OneImage
  AttachedIsPlaced
  PoolIsSwept
  LeavesWhatMatches
  StoppedStaysStopped
  ReadsWhatIsThere
PROPERTIES
  Converges
