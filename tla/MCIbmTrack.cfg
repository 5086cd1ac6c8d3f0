SPECIFICATION IbmSpec
CONSTANTS
  Media <- MCMedia
  Revs = 3
  MaxBad = 2
INVARIANTS GoodReadingKept CopyKeeps
CHECK_DEADLOCK FALSE
