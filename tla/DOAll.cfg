SPECIFICATION FairSpec
CONSTANTS
  K = 2
  NAttr = 4
  InitColumns <- MixedColumns
  InitLogics <- BothLogics
INVARIANTS
  TypeOK
  Sound
  NothingLost
  Optimal
PROPERTIES
  Direct
  Termination
CHECK_DEADLOCK TRUE
