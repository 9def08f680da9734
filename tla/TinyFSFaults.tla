---------------------------- MODULE TinyFSFaults ----------------------------
(***************************************************************************)
(* TinyFS and its client when the process dies or a block cannot be read   *)
(* or written.  A restarted process knows nothing but the disk.  A block   *)
(* access that fails has no effect, and each call takes its own error path. *)
(*                                                                         *)
(* The client is the careful one, with one more rule: when a write or a    *)
(* deletion was cut off, it first writes or deletes that file again.       *)
(***************************************************************************)
EXTENDS Clients

CONSTANTS
  CrashPoints,  \* the values of call.pc at which the process may die
  FailPoints,   \* those at which a block access may fail; "idle" is a call's first step,
                \* "findFreeBlock" the search for a free block behind swapInode's and
                \* swapFileExtent's last write
  MaxFaults     \* bound of the model on the faults

ASSUME FaultsAssumption == MaxFaults \in Nat

VARIABLES
  faults,  \* the faults so far
  torn     \* the file whose write or deletion was cut off: its name, or none

faultVars == <<disk, inodeIndices, mounted, openFiles, currentFD, call, ret, faults, torn>>

\* The static variables of a new process: no disk is mounted, no file is open.
Restart ==
  /\ call.pc \in CrashPoints
  /\ mounted' = FALSE
  /\ openFDs_Reset
  /\ call' = NoCall
  /\ ret' = NoResult
  /\ UNCHANGED diskVars

-----------------------------------------------------------------------------
(* The error paths of the calls                                            *)

\* checkPermission hands on the -1 of readBlock, which is ENOSPC.
CheckPermissionFails ==
  /\ Ready
  /\ \E fd \in FDs : isOpen(fd) /\ Fail(ENOSPC)

\* When its first search for a free block fails, tfs_defrag goes on to the first file,
\* which it cannot move to a block of that number.
DefragSearchFails ==
  LET err == safeReadBlock(inodeIndices[Min(usedSlots)], {INODE_ID})
  IN /\ Ready
     /\ \/ usedSlots = {} /\ Fail(0)
        \/ usedSlots # {} /\ Fail(IF err # 0 THEN err ELSE EIO)

\* A call that fails before its first block is written.
CallFails ==
  \/ Ready /\ Fail(EIO)
  \/ CheckPermissionFails
  \/ DefragSearchFails

\* changePermissions returns the -1 of readBlock and writeBlock, which is ENOSPC,
\* and does not close the file it has opened.
ChangePermissionsFails(name) ==
  LET fname == formatName(name)
      found == searchSB(fname)
      in    == disk[inodeIndices[found.slot]]
  IN /\ Ready
     /\ \/ openUnder(fname) # {} /\ Fail(ENOSPC)
        \/ /\ openUnder(fname) = {} /\ found.code = 1
           /\ currentFD <= MaxFD
           /\ openFDs_add(in.fileSize, fname, found.slot, in.nextBlock)
           /\ Return(ENOSPC)
           /\ UNCHANGED <<diskVars, mounted>>

\* A mutant of StepFails: tfs_defrag does not look at the error of swapInode.
StepFails_ignored ==
  \/ /\ call.pc \in {"linkInode", "eraseFileData", "writeBlocks", "freeInode"}
     /\ Fail(EIO)
  \/ /\ call.pc = "swapInodeLink"
     /\ call' = [call EXCEPT !.pc = "freeOldInode"]
     /\ UNCHANGED <<diskVars, mounted, openList, ret>>

\* createInode, eraseFileData, updateInode, removeInode, swapInode and the writes
\* of tfs_writeFile give up with what they have written.
StepFails ==
  /\ \/ call.pc \in {"linkInode", "eraseFileData", "writeBlocks", "freeInode",
                     "swapInodeLink", "freeOldInode"}
     \/ call.pc = "defragInode" /\ slotsFrom(call.slot) # {}
  /\ Fail(EIO)

\* The map is handed out as far as it was drawn.
DisplayFails ==
  /\ call.pc = "display" /\ call.cur # noBlockLink
  /\ Fail(0)

\* tfs_defrag does not look at the error of iterateFEs and goes on with the next
\* slot and the same free block, which swapFileExtent may have filled.
IterateFEsFails ==
  /\ \/ call.pc \in {"swapExtentLink", "freeOldExtent"}
     \/ call.pc = "iterateFEs" /\ call.cur # noBlockLink
  /\ call' = nextSlot
  /\ UNCHANGED <<diskVars, mounted, openList, ret>>

\* The old block was freed, but the search for the next free block fails.
FindFreeBlockFails ==
  /\ call.pc \in {"freeOldInode", "freeOldExtent"}
  /\ disk' = [disk EXCEPT ![call.cur] = freeBlock]
  /\ IF call.pc = "freeOldInode"
     THEN Return(EIO)
     ELSE call' = [nextSlot EXCEPT !.free = EIO] /\ UNCHANGED ret
  /\ UNCHANGED <<inodeIndices, mounted, openList>>

AccessFails ==
  \/ /\ call.pc \in FailPoints
     /\ \/ CallFails
        \/ \E name \in UserNames : ChangePermissionsFails(name)
        \/ StepFails
        \/ DisplayFails
        \/ IterateFEsFails
  \/ "findFreeBlock" \in FailPoints /\ FindFreeBlockFails

-----------------------------------------------------------------------------

\* A name no file has, on disk or in the open list.
gone(name) ==
  /\ openUnder(name) = {}
  /\ \A s \in usedSlots : isFile(s) => inodeOf(s).fileName # name

\* The file a fault tears.
tearing ==
  IF call.pc \in {"eraseFileData", "writeBlocks", "freeInode"}
  THEN {openFiles[call.fd].fileName}
  ELSE {}

\* What the client knows of the torn file: it is whole again when a write or a
\* deletion of it succeeds, and forgotten when no descriptor is left of it either.
mended ==
  IF call.op \in {"writeFile", "deleteFile"} /\ idle' /\ ret'.code = 0
  THEN {}
  ELSE {n \in torn : ~gone(n)'}

\* There is room for the buffer once the blocks of the torn file are free.
fitsAgain(fd, buffer) ==
  blocksFor(Len(buffer)) <= Cardinality(freeBlocks \cup chainBlocks(openFiles[fd].nextBlockIndex))

\* The calls a client with a torn file makes.
Mend ==
  \/ Mount
  \/ Unmount
  \/ \E name \in UserNames : formatName(name) \in torn /\ OpenFile(name)
  \/ \E fd \in DOMAIN openFiles :
       /\ openFiles[fd].fileName \in torn
       /\ \/ CloseFile(fd)
          \/ DeleteFile(fd)
          \/ \E buffer \in Buffers \ {<<>>} : fitsAgain(fd, buffer) /\ WriteFile(fd, buffer)
  \/ Continue

FaultInit == Init /\ faults = 0 /\ torn = {}

FaultNext ==
  \/ /\ IF torn = {} THEN ClientNext ELSE Mend
     /\ torn' = mended
     /\ UNCHANGED faults
  \/ /\ faults < MaxFaults
     /\ faults' = faults + 1
     /\ Restart \/ AccessFails
     /\ torn' = {n \in torn \cup tearing : ~gone(n)'}

FaultSpec == FaultInit /\ [][FaultNext]_faultVars

-----------------------------------------------------------------------------

\* Blocks in use that no file leads to.
floatingBlocks == {b \in Blocks \ freeBlocks : \A s \in usedSlots : b \notin fileBlocks(s)}

\* The most blocks one fault can leave: createInode, removeInode, swapInode and
\* swapFileExtent are one block away from where they began or where they end,
\* eraseFileData loses the rest of the chain.
mostFloating == Max({1} \cup {blocksFor(Len(buffer)) - 1 : buffer \in Buffers})

\* "floating blocks" (tinyFSHelper.c:204) are all that faults leave behind, and
\* there are only so many of them.
FewBlocksFloat ==
  (idle /\ torn = {}) => Cardinality(floatingBlocks) <= faults * mostFloating

\* At every moment, and so wherever a call is cut off, no file has lost a block to
\* another file or to the free blocks: createInode and swapFileExtent write a block
\* before the link to it, removeInode and swapInode take the link away before they
\* free the block.  Only a file that is being written or deleted, or was when it
\* was cut off, may lead to free blocks.
FilesKeepBlocks ==
  /\ \A s \in usedSlots \ busySlots :
       fileBlocks(s) \cap freeBlocks = {} \/ (isFile(s) /\ inodeOf(s).fileName \in torn)
  /\ \A s, t \in usedSlots : s # t => fileBlocks(s) \cap fileBlocks(t) = {}

\* Once the torn file is mended, every file is whole again and the open list agrees
\* with the disk, the descriptor changePermissions leaves open included.
MendedIsWhole ==
  torn = {} => ChainsMatchSizes /\ OpenTableFresh

=============================================================================
