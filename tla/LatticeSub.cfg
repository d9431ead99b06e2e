SPECIFICATION Spec
CONSTANTS
  Objects <- ThreeObjects
  K = 1
  InitConcepts <- SortedLists
  MaxCalls = 1
  MaxStart = 3
  Iterations = 2
INVARIANTS
  IsSublattice
CHECK_DEADLOCK FALSE
