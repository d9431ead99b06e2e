SPECIFICATION FairSpec
CONSTANTS
  Objects = {o1, o2}
  NAttr = 2
  K = 3
  MaxConcepts = 20
  InitContexts <- AllContexts
  InitLogics <- AllLogics
  InitConnections <- AllConnections
INVARIANTS
  TypeOK
  OnlyConcepts
  LecticOrder
  NoneSkipped
  SearchSucceeds
PROPERTIES
  ImplementsMiner
  Termination
CHECK_DEADLOCK FALSE
