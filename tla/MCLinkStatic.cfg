SPECIFICATION LinkSpec
CONSTANTS
  Absent = Absent
  ChunkSize = 2
  MaxFiles = 0
  Files <- MCFiles
  Inputs <- MCObjects
  NameLen <- MCNameLen
  Bits <- MCBits
  Programs <- NoPrograms
  Symbols <- MCSymbols
  InText <- MCInText
  NoSym = "none"
INVARIANT LastLocalKnown
