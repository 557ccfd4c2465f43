SPECIFICATION FrameSpec
CONSTANTS
  NumVRegs = 3
  Length = 4
  CallSets <- MCCallSets
  General = {c1, c2, s1}
  Vector = {x1}
  CallerSave = {c1, c2}
  CalleeSave = {s1}
  NoReg = NoReg
  FrameBase = 0
  Depth = 2
  Widths = {32, 64}
  Programs <- MCPrograms
  Placements <- MCPlacements
  MaxArgs = 4
  IntRegs = 2
  FloatRegs = 4
  IntLimit = 16
  FloatLimit = 80
  Calls <- MCCalls
  Frames <- MCFrames
SYMMETRY Symmetric
INVARIANTS
  ReachedAreSaved
  SupportedKeepValues
  ArgumentsArrive
  StackAligned
  CallerUndisturbed
