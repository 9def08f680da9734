------------------------------- MODULE TinyFS -------------------------------
(***************************************************************************)
(* The TinyFS program: a client that makes any sequence of API calls on a  *)
(* disk that tfs_mkfs has just formatted.                                  *)
(***************************************************************************)
EXTENDS TinyFSExtraFeatures

FDs == 1..MaxFD

\* tfs_mkfs: all links of the super block unused, all other blocks free.
Format ==
  /\ disk = [b \in Blocks |-> freeBlock]
  /\ inodeIndices = [s \in Slots |-> noBlockLink]

Init ==
  /\ Format
  /\ mounted = FALSE
  /\ openFiles = [fd \in {} |-> NoResult]
  /\ currentFD = 1
  /\ call = NoCall
  /\ ret = NoResult

\* tfs_mkfs on the disk file that is mounted, with the size it has.  It neither looks
\* whether the file is mounted nor at the open list, which goes on to stand for files
\* that are gone.  (Formatting a disk that is not mounted leads back to Init; the
\* writes of tfs_mkfs one by one, and other sizes, are in TinyFSDisks.)
FormatMounted ==
  /\ Ready
  /\ disk' = [b \in Blocks |-> freeBlock]
  /\ inodeIndices' = [s \in Slots |-> noBlockLink]
  /\ Return(0)
  /\ UNCHANGED <<mounted, openList>>

\* Calls that a client may make whatever else it does.
SafeCall ==
  \/ Mount
  \/ Unmount
  \/ CallUnmounted
  \/ NullName
  \/ Readdir
  \/ DisplayFragments
  \/ \E name \in UserNames : \/ OpenFile(name)
                             \/ MakeRO(name)
                             \/ MakeRW(name)
  \/ \E fd \in FDs : \/ CloseFile(fd)
                     \/ DeleteFile(fd)
                     \/ ReadByte(fd)
                     \/ ReadFileInfo(fd)
                     \/ \E offset \in SeekOffsets : Seek(fd, offset)
                     \/ \E byte \in WriteBytes : WriteByte(fd, byte)

\* The next step of the call in progress.
Continue ==
  \/ LinkInode
  \/ EraseBlock
  \/ UpdateInode
  \/ WriteBlock
  \/ RemoveInode
  \/ FreeInode
  \/ DisplayBlock
  \/ DefragInode
  \/ SwapInodeLink
  \/ FreeOldInode
  \/ IterateFEs
  \/ SwapExtentLink
  \/ FreeOldExtent

Next ==
  \/ SafeCall
  \/ \E fd \in FDs, buffer \in Buffers : WriteFile(fd, buffer)
  \/ \E fd \in FDs, name \in UserNames : Rename(fd, name)
  \/ Defrag
  \/ FormatMounted
  \/ Continue

Spec == Init /\ [][Next]_vars

-----------------------------------------------------------------------------

DiskOK ==
  /\ disk \in [Blocks -> Block]
  /\ inodeIndices \in [Slots -> BlockLink]

OpenListOK ==
  /\ mounted \in BOOLEAN
  /\ currentFD \in 1..(MaxFD + 1)
  /\ DOMAIN openFiles \subseteq 1..(currentFD - 1)
  /\ \A fd \in DOMAIN openFiles : openFiles[fd] \in TinyOpenFile

Locals ==
  [op   : {"none", "openFile", "writeFile", "deleteFile", "displayFragments", "defrag"},
   pc   : {"idle", "linkInode", "eraseFileData", "writeBlocks", "freeInode", "display",
           "defragInode", "swapInodeLink", "freeOldInode",
           "iterateFEs", "swapExtentLink", "freeOldExtent"},
   fd   : Nat,
   slot : Nat,
   cur  : BlockLink,
   prev : BlockLink,
   free : BlockLink \cup {ENOSPC},
   buf  : Seq(Byte),
   name : Name \cup {<<>>}]

\* The locals a call is about to use have been set.
LocalsOK ==
  /\ call \in Locals
  /\ call.pc = "linkInode" =>
       /\ call.cur \in Blocks /\ call.slot \in Slots /\ call.name \in Name
       /\ currentFD <= MaxFD
  /\ call.pc \in {"eraseFileData", "writeBlocks", "freeInode"} => isOpen(call.fd)
  /\ call.pc \in {"writeBlocks", "swapInodeLink", "freeOldInode", "swapExtentLink",
                  "freeOldExtent"} => call.cur \in Blocks
  /\ call.pc \in {"swapInodeLink", "freeOldInode", "iterateFEs", "swapExtentLink",
                  "freeOldExtent"} => call.slot \in Slots /\ call.free \in Blocks
  /\ call.pc \in {"iterateFEs", "swapExtentLink"} => call.prev \in Blocks

\* What the program keeps in memory and on disk has the declared types whatever
\* sequence of calls led here: every block is an inode, an extent or a free block
\* whose link stays inside the disk, every open file has a slot of the super
\* block, and a call in progress has set the locals its next step uses.
TypeOK ==
  /\ DiskOK
  /\ OpenListOK
  /\ LocalsOK
  /\ ret \in [code : Int, byte : Byte]

=============================================================================
