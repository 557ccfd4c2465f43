SPECIFICATION Spec
CONSTANTS
  Length = 1
  Programs <- GotoPrograms
  Pinnings = {"none"}
INVARIANT RangeCoversLife
