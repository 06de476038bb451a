SPECIFICATION FairSpec
CONSTANTS
  Proc = {p1, p2}
  NoProc = NoProc
  NBUF = 3
  SB = SB
  X = X
  Y = Y
  Root = Root
  Floppy = Floppy
  Block <- MCBlock
  DevOf <- MCDevOf
  NoBlock = NoBlock
  SuperBlock = SB
  TimeMod = 2
  Shared = FALSE
  MaxErrors = 0
  Ops = {"update", "alloc", "sync", "flush"}
INVARIANTS OneBufferPerBlock NothingLost
PROPERTIES FlushLeavesNothing SyncStartsAll CallsReturn
