SPECIFICATION MCSpec
CONSTANTS
  Size = 3
  Keys <- MCKeys
  Placed <- MCKeys
INVARIANTS
  WaitingCounts
  ProviderFirst
  PassedOverOnlyWaiting
  RefusesOnlyCycles
