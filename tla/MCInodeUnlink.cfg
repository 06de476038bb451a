SPECIFICATION FullSpec
CONSTANTS
  a = a
  b = b
  c = c
  F = F
  N = N
  New = New
  Proc = {a, b, c}
  NoProc = NoProc
  Root = Root
  Mnt = Mnt
  MntRoot = MntRoot
  Ino = {Root, Mnt, MntRoot, F, N}
  Free = {N}
  NoIno = NoIno
  NINODE = 4
  Path <- UnlinkPath
  Ops <- UnlinkOps
  CountMod = 16
  MaxErrors = 0
INVARIANTS OpenFileAllocated
