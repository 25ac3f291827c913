SPECIFICATION Spec
CONSTANTS
  Versions <- MCVersions
  UserScope = FALSE
  MaxBytes = 1
  Faults <- BreaksOnly
INVARIANTS
  RunsWhatIsThere
