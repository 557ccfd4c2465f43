SPECIFICATION SyntaxSpec
CONSTANTS
  Programs <- MCPrograms
  MaxDepth = 4
  Sources <- MCSources
  Macros <- MCMacros
  MaxFrames = 8
  Texts <- MCTexts
  Inputs <- MCInputs
  IfLines <- MCLines
  Width = 4
  LexTexts <- MCLexTexts
  IntBits = 9
  WordBits = 11
  SignificandLimit = 16
  MaxExponent = 3
INVARIANTS
  OutputRight
  ExpansionRight
  LocationsRight
  ParsedAsMeant
  ConditionRight
  LexedRight
PROPERTY Terminates
