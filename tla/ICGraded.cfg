SPECIFICATION FairSpec
CONSTANTS
  Objects = {o1, o2}
  NAttr = 2
  K = 3
  save_concepts = TRUE
  InitContexts <- GradedContexts
  InitLogics <- DistinctLogics
  InitConnections <- ClosureConnections
INVARIANTS
  TypeOK
  NonRedundant
  ClosureRespectsBasis
PROPERTIES
  ImplementsConceptMiner
  ImplementsImplicationMiner
  Termination
CHECK_DEADLOCK FALSE
