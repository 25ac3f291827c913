SPECIFICATION WholeSpec
CONSTANTS
  Machines <- MCMachines
  Entries <- MCEntries
  Values <- MCValues
  On <- MCOn
  Reads <- MCReads
  Delivery <- MCDelivery
  Sealing <- MCSealing
  UserScope <- MCUserScope
  Flakelet <- MCFlakelet
  Unitless <- MCUnitless
  Artifact <- MCArtifact
  At <- MCAt
  MaxBytes = 2
  MaxOnly = 1
  Faults <- OneBreak
INVARIANTS
  RecoveryReachesReaders
