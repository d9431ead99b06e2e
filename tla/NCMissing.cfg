SPECIFICATION Spec
CONSTANTS
  Objects = {o1, o2}
  NAttr = 2
  K = 3
  MaxConcepts = 20
  InitContexts <- GappedContexts
  InitLogics <- LukasiewiczOnly
  InitConnections <- StandardOnly
INVARIANTS
  ClosuresListed
CHECK_DEADLOCK FALSE
