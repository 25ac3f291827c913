SPECIFICATION MCSpec
CONSTANTS
  Machines <- MCMachines
  Entries <- MCEntries
  Values <- MCValues
  Files <- MCFiles
  On <- MCOn
  RealiserOf <- MCRealiserOf
  Named <- MCNamed
  Realised <- MCRealised
  Addressed <- MCAddressed
  FilesOf <- MCFilesOf
  Delivery <- MCDelivery
  Sealing <- MCSealing
  Reaches <- MCReaches
  Begins <- MCBegins
  MachineStates <- MCMachineStates
  MaxChanges = 1
INVARIANTS
  ExitZeroMeansAsked
PROPERTIES
  AnswersAreTrue
  OnlyBoundsMachines
