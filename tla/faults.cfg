SPECIFICATION FaultSpec
CONSTANTS
  NumBlocks = 5
  MaxBlockCount = 255
  DataPerBlock = 1
  MaxFileNameLength = 1
  MaxFD = 2
  MaxFaults = 2
  nameA = nameA
  nameB = nameB
  Char <- MCChars
  UserNames <- MCNames
  Buffers <- MCBuffers
  WriteBytes <- MCBytes
  SeekOffsets <- MCOffsets
  Habits = {}
  CrashPoints <- MCCrashPoints
  FailPoints <- MCFailPoints
INVARIANTS FewBlocksFloat FilesKeepBlocks MendedIsWhole
PROPERTIES OthersUntouched DefragKeepsFiles NoFileInherited
SYMMETRY Symmetry
VIEW FaultView
