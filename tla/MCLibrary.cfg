SPECIFICATION LibrarySpec
CONSTANTS
  Sizes = {0, 1, 8, 40, 100}
  Counts = {0, 2}
  BaseBlock = 64
  MaxDoublings = 2
  MaxBlocks = 3
  MaxEntries = 4
  MaxAfterFailure = 3
  FileBytes <- MCFileBytes
  ItemSizes = {0, 1, 2}
  ItemCounts = {0, 1, 3}
  Formats <- MCFormats
  Rooms = {0, 1, 4, 8}
  LongBits = 8
  MaxCalls = 3
  Capacities = {0, 1}
  ElementSizes = {1, 2}
  MaxSize = 4
  PoolBlock = 8
  PoolSizes = {0, 3, 5, 8, 11}
  MaxPieces = 4
  WordLog = 2
  BitCounts = {3, 4, 5, 8}
  Keys = {1, 2, 3}
  MaxSorted = 5
CONSTRAINT FewEntries
INVARIANTS
  HeapInv
  StreamsRight
  ContainersRight
PROPERTY OwnersKeepEntries
