SPECIFICATION Spec
CONSTANTS
  K = 2
  InitContexts <- AllContexts
  InitFiles <- EarlierFiles
  UsedLogics = {"Zadeh", "Lukasiewicz"}
  UsedConnections = {"standard", "benevolent2"}
  MaxCalls = 3
INVARIANTS
  TypeOK
PROPERTIES
  StaysRight
  LatticeKept
CHECK_DEADLOCK FALSE
