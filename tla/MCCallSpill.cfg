SPECIFICATION Spec
CONSTANTS
  NumVRegs = 2
  Length = 4
  CallSets = {{2}, {3}}
  General = {c1, c2, s1}
  Vector = {x1}
  CallerSave = {c1, c2}
  CalleeSave = {s1}
  NoReg = NoReg
  FrameBase = 0
INVARIANT PinnedAreNotCounted
