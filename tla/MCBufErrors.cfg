SPECIFICATION Spec
CONSTANTS
  Proc = {p1, p2}
  NoProc = NoProc
  NBUF = 2
  SB = SB
  X = X
  Y = Y
  Root = Root
  Floppy = Floppy
  Block <- MCBlock
  DevOf <- MCDevOf
  NoBlock = NoBlock
  SuperBlock = SB
  TimeMod = 1
  Shared = FALSE
  MaxErrors = 1
  Ops = {"read", "update", "fill", "ahead", "alloc", "chain", "sync", "flush"}
SYMMETRY Symmetry
INVARIANTS TypeOK BusyHasOneOwner NoLostWakeup CandidateStaysFree SuperBlockInCore NothingLost
CHECK_DEADLOCK FALSE
