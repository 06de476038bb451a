SPECIFICATION FairSpec
CONSTANTS
  p1 = p1
  p2 = p2
  Proc = {p1, p2}
  NoProc = NoProc
  Modes = {"cooked", "cbreak"}
  TTYHOG = 2
  LOWATER = 0
  BSIZE = 1
  NBLOCKS = 9
  Others = {0, 8}
  BreakMod = 4
  Reads <- MCReads
  Writes <- MCWrites
  Heed = {p1}
INVARIANTS TypeOK ReaderNotStranded OutputGoesOn
PROPERTIES CallsReturn
