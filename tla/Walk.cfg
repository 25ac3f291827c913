SPECIFICATION MCSpec
CONSTANTS
  Keys <- MCKeys
  Placed <- MCPlaced
  ValueKeys <- MCValueKeys
  ReaderSets <- MCReaderSets
INVARIANTS
  OrderHonoursReads
  AnnouncesExactly
  ComponentsFound
  NoReadUnaccounted
  Legible
PROPERTIES
  Terminates
