SPECIFICATION FairSpec
CONSTANTS
  Readers = {r}
  Writers = {w1, w2}
  NoProc = NoProc
  Signalled = {w1}
  PIPSIZE = 2
  MaxReq = 3
  ByteMod = 3
INVARIANTS LockSafe PipeInOrder FreedWhenUnused
PROPERTIES ReadReturns ClosedIsFreed
CHECK_DEADLOCK FALSE
