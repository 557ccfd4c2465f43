SPECIFICATION LinkSpec
CONSTANTS
  Absent = Absent
  ChunkSize = 2
  MaxFiles = 3
  Files <- MCFiles
  Inputs <- MCObjects
  NameLen <- MCNameLen
  Bits <- MCBits
  Programs <- AllPrograms
  Symbols <- MCSymbols
  InText <- MCInText
  NoSym = "none"
INVARIANTS
  ReadBack
  RelocationsResolve
  OutcomeRight
  SymbolsRight
  LayoutSound
  DecodesBack
  SymbolsReached
  KeptConstsEncode
