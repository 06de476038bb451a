SPECIFICATION Spec
CONSTANTS
  Proc = {p1, p2}
  NoProc = NoProc
  NBUF = 3
  SB = SB
  X = X
  Y = Y
  Root = Root
  Floppy = Floppy
  Block <- MCBlock
  DevOf <- MCDevOf
  NoBlock = NoBlock
  SuperBlock = SB
  TimeMod = 2
  Shared = FALSE
  MaxErrors = 1
  Ops = {"read", "fill"}
INVARIANTS WriteOutBeforeUsing
