SPECIFICATION FloatCallSpec
CONSTANTS
  VRegs = {v1, v2, v3}
  v1 = v1
  v2 = v2
  v3 = v3
  a = a
  b = b
  x = x
  Unindexed = {y}
  NoReg = NoReg
  NoVReg = NoVReg
  MaxPC = 3
  FrameBase = 4
  IntOrder <- MCIntOrder
  FloatOrder <- MCFloatOrder
INVARIANT PinnedNeverClash
