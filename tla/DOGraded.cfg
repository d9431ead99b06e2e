SPECIFICATION Spec
CONSTANTS
  K = 2
  NAttr = 2
  InitColumns <- GradedColumns
  InitLogics <- OnlyGodel
INVARIANTS
  Equivalent
CHECK_DEADLOCK TRUE
