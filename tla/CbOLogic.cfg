SPECIFICATION Spec
CONSTANTS
  o1 = o1
  o2 = o2
  o3 = o3
  Objects = {o1, o2, o3}
  NAttr = 4
  K = 2
  CheckEvery = 2
  InitContexts <- BinaryAndGraded
  InitLogics <- LukasiewiczOnly
INVARIANTS
  ConceptsOfLogic
CHECK_DEADLOCK FALSE
