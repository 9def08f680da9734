SPECIFICATION Spec
CONSTANTS
  BLOCKSIZE = 2
  MaxBlockCount = 3
  MaxHostFDs = 3
  InitialLength = 1
  d1 = d1
  d2 = d2
  DiskFile <- MCDiskFiles
  DiskBytes <- MCDiskBytes
  ForeignFiles <- MCForeign
INVARIANTS ListMatchesHost NothingOldSurvives MountedDiskReady
PROPERTY OnlyMkfsLeaks
VIEW DiskView
