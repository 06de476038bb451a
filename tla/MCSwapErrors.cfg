SPECIFICATION FairSpec
CONSTANTS
  NPROC = 2
  Segs = 3
  MinSize = 1
  MaxSize = 3
  MINRUN = 1
  SwapSize = 3
  IoErrors = TRUE
INVARIANTS CoreConserved InOnePlace
PROPERTIES MemorySleeperWakes
