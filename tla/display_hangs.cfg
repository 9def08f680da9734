SPECIFICATION FairClientSpec
CONSTANTS
  NumBlocks = 3
  MaxBlockCount = 255
  DataPerBlock = 2
  MaxFileNameLength = 1
  MaxFD = 2
  nameA = nameA
  nameB = nameB
  other = other
  Char <- MCChars
  UserNames <- MCNames
  Buffers <- MCBuffersAndEmpty
  WriteBytes <- MCBytes
  SeekOffsets <- MCOffsets
  Habits = {"emptyWrite", "overflow", "defragOpen", "reuseName"}
PROPERTY DisplayReturns
