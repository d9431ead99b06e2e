SPECIFICATION FairSpec
CONSTANTS
  o1 = o1
  o2 = o2
  o3 = o3
  Objects = {o1, o2, o3}
  NAttr = 4
  WordLength = 2
  CheckEvery = 3
  InitContexts <- SortedContexts
INVARIANTS
  TypeOK
  LinClosureLeast
PROPERTIES
  ImplementsConceptMiner
  ImplementsImplicationMiner
  Termination
CHECK_DEADLOCK FALSE
