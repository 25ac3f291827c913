SPECIFICATION Spec
CONSTANTS
  Records <- MCRecords
  Sources <- MCSources
  Machines <- MCMachines
  Selections <- MCSelections
  MaxMints = 2
INVARIANTS
  RefusedUnchanged
  CompletedMint
PROPERTIES
  InviteKeepsSourceFit
