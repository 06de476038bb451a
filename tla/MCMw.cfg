SPECIFICATION FairSpec
CONSTANTS
  r1 = r1
  r2 = r2
  r3 = r3
  r4 = r4
  d1 = d1
  d2 = d2
  Req = {r1, r2, r3, r4}
  Drive = {d1, d2}
  NoDrive = NoDrive
  DriveOf <- MCDriveOf
  CylOf <- MCCylOf
  Count <- MCCount
  Beyond = {r4}
  RETRIES = 4
  RetryMod = 6
  MaxDj = 1
  Prompt = FALSE
INVARIANTS BusExclusive NotForgotten RightDrive
PROPERTIES Implements HeadAnswered
