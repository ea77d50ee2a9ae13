SPECIFICATION Spec
CONSTANTS
  InitCount = 4
  MaxCreates = 2
  WalkLimit = 2
  RawPages <- SomePages
  RawLimits <- SomeLimits
  DefaultLimit = 2
  MaxLimit = 3
  MaxInt = 31
  Faults = TRUE
INVARIANT TypeOK MissesBoundedByDeletions RepeatsBoundedByCreations
PROPERTY PageIsSlice
CHECK_DEADLOCK FALSE
