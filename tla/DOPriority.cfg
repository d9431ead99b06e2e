SPECIFICATION Spec
CONSTANTS
  K = 1
  NAttr = 4
  InitColumns <- OnlyPurged
  InitLogics <- OnlyGodel
INVARIANTS
  Equivalent
CHECK_DEADLOCK TRUE
