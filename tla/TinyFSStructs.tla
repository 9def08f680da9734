--------------------------- MODULE TinyFSStructs ---------------------------
(***************************************************************************)
(* The on-disk block formats (tinyFSStructs.h), the limits (tinyFS.h), the *)
(* error codes (tinyFS_errno.h) and the conversions of names and buffers   *)
(* that TinyFS performs.  Everything here is constant-level.               *)
(*                                                                         *)
(* A block is a record whose blockID says which struct it holds.  The      *)
(* magic number and the padding byte are left out: safeWriteBlock sets     *)
(* both on every write, so no write of the file system changes them.  The  *)
(* three timestamps of an inode are left out as well.                      *)
(***************************************************************************)
EXTENDS Integers, Sequences

CONSTANTS
  NumBlocks,         \* superBlock.numBlocks: blocks of the disk, super block included
  MaxBlockCount,     \* maxBlockCount, 255 in tinyFS.h
  DataPerBlock,      \* dataPerBlock, 252 in tinyFSStructs.h
  MaxFileNameLength, \* maxFileNameLength, 8 in tinyFS.h
  Char,              \* the characters of names
  UserNames,         \* the names clients pass, sequences of characters
  Buffers,           \* the buffers clients write, sequences of bytes
  WriteBytes,        \* the bytes clients pass to tfs_writeByte
  SeekOffsets,       \* the offsets clients pass to tfs_seek
  MaxFD              \* bound of the model on the descriptors handed out per mount

Byte == 0..255

ASSUME DiskAssumption ==
  /\ NumBlocks \in Nat /\ NumBlocks >= 1
  /\ MaxBlockCount \in Nat /\ NumBlocks <= MaxBlockCount
  /\ DataPerBlock \in Nat \ {0}
  /\ MaxFileNameLength \in Nat \ {0}
  /\ MaxFD \in Nat

ASSUME ClientAssumption ==
  /\ \A name \in UserNames : name \in Seq(Char)
  /\ \A buffer \in Buffers : buffer \in Seq(Byte)
  /\ WriteBytes \subseteq Byte
  /\ SeekOffsets \subseteq Int

-----------------------------------------------------------------------------

\* tinyFS_errno.h
ENOSPC   == -1
ERANGE   == -2
EIO      == -3
ENOENT   == -4
EALREADY == -5
ENODEV   == -6
ECORRUPT == -7
EPARAM   == -8
EPERM    == -9
tinyFS_errno == EPERM..ENOSPC

\* inodeIndices has maxFiles = 251 entries, but the loops over it run to numBlocks.
\* On a disk of more blocks they read behind the array, which is not modelled.
noBlockLink == 0
Blocks      == 1..(NumBlocks - 1)      \* every block but the super block
BlockLink   == 0..(NumBlocks - 1)      \* noBlockLink or a block
Slots       == 0..(NumBlocks - 1)      \* the indices of inodeIndices the code scans

\* blockType
INODE_ID       == "INODE_ID"
FILE_EXTENT_ID == "FILE_EXTENT_ID"
FREE_ID        == "FREE_ID"

\* readFlag
readOnly     == 1
readAndWrite == 2
readFlag     == {readOnly, readAndWrite}

\* The name as inodes store it.  The C code pads short names with zero bytes;
\* cutting at the limit is the part two names can be confused by.
formatName(name) ==
  SubSeq(name, 1, IF Len(name) < MaxFileNameLength THEN Len(name) ELSE MaxFileNameLength)

Name == {formatName(name) : name \in UserNames}

BlockData == [0..(DataPerBlock - 1) -> Byte]

\* A free block is all zeros behind its header; readMode is its byte 40, which
\* changePermissions writes without looking at the block's type.
freeBlock == [blockID |-> FREE_ID, nextBlock |-> noBlockLink, readMode |-> 0]

inodeBlock(name, size, next, mode) ==
  [blockID |-> INODE_ID, nextBlock |-> next, fileName |-> name,
   fileSize |-> size, readMode |-> mode]

fileExtentBlock(next, data) ==
  [blockID |-> FILE_EXTENT_ID, nextBlock |-> next, data |-> data]

Block ==
  [blockID : {FREE_ID}, nextBlock : {noBlockLink}, readMode : {0} \cup readFlag]
  \cup [blockID : {INODE_ID}, nextBlock : BlockLink, fileName : Name,
        fileSize : Nat, readMode : readFlag]
  \cup [blockID : {FILE_EXTENT_ID}, nextBlock : BlockLink, data : BlockData]

\* The data of the next block written from a buffer: a last block that is not
\* full is filled up with zeros.
blockOf(buffer) ==
  [i \in 0..(DataPerBlock - 1) |-> IF i < Len(buffer) THEN buffer[i + 1] ELSE 0]

\* A mutant of restOf: the text pointer is not moved up.
restOf_notMoved(buffer) == SubSeq(buffer, 1, Len(buffer) - DataPerBlock)

\* What is left of a buffer behind its next block.
restOf(buffer) == SubSeq(buffer, DataPerBlock + 1, Len(buffer))

\* The file extents that hold size bytes.
blocksFor(size) == (size + DataPerBlock - 1) \div DataPerBlock

=============================================================================
