SPECIFICATION Spec
CONSTANTS
  NPROC = 3
  Segs = 3
  MinSize = 1
  MaxSize = 2
  MINRUN = 0
  SwapSize = 3
  IoErrors = FALSE
INVARIANTS CoreConserved InOnePlace SleeperWantsMemory
