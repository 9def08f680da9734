SPECIFICATION ClientSpec
CONSTANTS
  NumBlocks = 5
  MaxBlockCount = 5
  DataPerBlock = 2
  MaxFileNameLength = 1
  MaxFD = 2
  nameA = nameA
  nameB = nameB
  other = other
  Char <- MCChars
  UserNames <- MCNames
  Buffers <- MCBuffers
  WriteBytes <- MCBytes
  SeekOffsets <- MCOffsets
  Habits = {}
PROPERTY NoSpaceMeansFull
