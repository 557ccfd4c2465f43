SPECIFICATION Spec
CONSTANTS
  Length = 5
  Programs <- MCPrograms
  Pinnings = {"A", "D"}
INVARIANTS
  AnalysisInv
PROPERTY Terminates
