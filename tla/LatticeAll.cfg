SPECIFICATION FairSpec
CONSTANTS
  Objects <- ThreeObjects
  K = 1
  InitConcepts <- AllLists
  MaxCalls = 2
  MaxStart = 3
  Iterations = 2
INVARIANTS
  TypeOK
  BoundsRight
  CoverRight
  PropertiesRight
  IrreduciblesGenerate
  JoinsTaken
  Drawn
PROPERTIES
  Returns
CHECK_DEADLOCK FALSE
