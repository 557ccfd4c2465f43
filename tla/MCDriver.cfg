SPECIFICATION Spec
CONSTANTS
  Procs = {"ncc1", "ncc2"}
  CommandLines <- MCCommandLines
  RandCycle <- MCRandCycle
  Seeds = {1, 2}
  Leftovers <- MCLeftovers
INVARIANTS
  SuccessMeansDone
PROPERTY EveryoneExits
