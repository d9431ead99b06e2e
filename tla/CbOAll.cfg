SPECIFICATION FairSpec
CONSTANTS
  o1 = o1
  o2 = o2
  o3 = o3
  Objects = {o1, o2, o3}
  NAttr = 4
  K = 2
  CheckEvery = 2
  InitContexts <- BinaryAndGraded
  InitLogics <- ZadehOnly
INVARIANTS
  TypeOK
  OnlyConcepts
  PruningSound
PROPERTIES
  ImplementsMiner
  Termination
CHECK_DEADLOCK FALSE
