SPECIFICATION IrGenSpec
CONSTANTS
  Programs <- MCPrograms
  Objects <- MCObjects
  Units <- MCUnits
  Numbers <- MCNumbers
  Bits <- MCBits
  Pairs <- AllPairs
  Nested <- MCNested
  MaxOuter = 2
  Computed <- MCComputed
  StoredTypes <- MCStoredTypes
  Pointees <- MCPointees
INVARIANTS
  EvaluatesAsC
  InitializedRight
  TypesRight
  ResultRight
  ArithmeticRight
PROPERTY KeepsGoing
