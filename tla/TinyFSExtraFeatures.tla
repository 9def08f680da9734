------------------------ MODULE TinyFSExtraFeatures ------------------------
(***************************************************************************)
(* The add-ons of tinyFSExtraFeatures.c: renaming and listing files, read- *)
(* only files, writing one byte, file information, the fragmentation map   *)
(* and defragmentation.  As in TinyFSCalls, a call that writes several     *)
(* blocks is a chain of actions, one block write each; the map is a chain  *)
(* of block reads.                                                         *)
(***************************************************************************)
EXTENDS TinyFSCalls

\* The used slots the loop over inodeIndices has still to visit.
slotsFrom(slot) == {s \in usedSlots : s >= slot}

-----------------------------------------------------------------------------

\* tfs_readdir stops at the first slot that does not lead to an inode.
Readdir ==
  /\ Ready
  /\ IF \E s \in usedSlots : safeReadBlock(inodeIndices[s], {INODE_ID}) # 0
     THEN Fail(ECORRUPT)
     ELSE Fail(0)

\* tfs_rename does not look whether another file has the new name.
Rename(fd, newName) ==
  LET file == openFiles[fd]
      err  == safeReadBlock(inodeLink(file), {INODE_ID})
  IN /\ Ready
     /\ \/ ~isOpen(fd) /\ Fail(ENOENT)
        \/ isOpen(fd) /\ err # 0 /\ Fail(err)
        \/ /\ isOpen(fd) /\ err = 0
           /\ disk' = [disk EXCEPT ![inodeLink(file)].fileName = formatName(newName)]
           /\ openFiles' = [openFiles EXCEPT ![fd].fileName = formatName(newName)]
           /\ Return(0)
           /\ UNCHANGED <<inodeIndices, mounted, currentFD>>

\* changePermissions' unchecked write of the inode it reached through a slot.
setReadMode(slot, mode) ==
  LET b == inodeIndices[slot]
  IN IF b = noBlockLink
     THEN /\ inodeIndices' = IF readModeLink \in Slots
                             THEN [inodeIndices EXCEPT ![readModeLink] = mode]
                             ELSE inodeIndices
          /\ UNCHANGED disk
     ELSE /\ disk' = IF disk[b].blockID = FILE_EXTENT_ID
                     THEN [disk EXCEPT ![b].data[readModeData] = mode]
                     ELSE [disk EXCEPT ![b].readMode = mode]
          /\ UNCHANGED inodeIndices

\* tfs_makeRO and tfs_makeRW.  A file that is not open is opened for the call
\* and closed again, which uses up a descriptor.
ChangePermissions(name, mode) ==
  LET fname == formatName(name)
      found == searchSB(fname)
  IN /\ Ready
     /\ \/ /\ openUnder(fname) # {}
           /\ setReadMode(openFiles[openFDs_searchByName(fname)].inodeLinkIndex, mode)
           /\ Return(0)
           /\ UNCHANGED <<mounted, openList>>
        \/ openUnder(fname) = {} /\ found.code < 0 /\ Fail(found.code)
        \/ openUnder(fname) = {} /\ found.code = 0 /\ Fail(ENOENT)
        \/ /\ openUnder(fname) = {} /\ found.code = 1
           /\ currentFD <= MaxFD
           /\ setReadMode(found.slot, mode)
           /\ currentFD' = currentFD + 1
           /\ Return(0)
           /\ UNCHANGED <<mounted, openFiles>>

MakeRO(name) == ChangePermissions(name, readOnly)
MakeRW(name) == ChangePermissions(name, readAndWrite)

\* tfs_writeByte leaves the file pointer where it is.
WriteByte(fd, byte) ==
  LET file  == openFiles[fd]
      err   == locateByte(file)
      block == extentAt(file.nextBlockIndex, file.location \div DataPerBlock)
  IN /\ Ready
     /\ \/ ~isOpen(fd) /\ Fail(ENOENT)
        \/ isOpen(fd) /\ checkPermission(file) # 0 /\ Fail(EPERM)
        \/ isOpen(fd) /\ checkPermission(file) = 0 /\ err # 0 /\ Fail(err)
        \/ /\ isOpen(fd) /\ checkPermission(file) = 0 /\ err = 0
           /\ disk' = [disk EXCEPT ![block].data[file.location % DataPerBlock] = byte]
           /\ Return(0)
           /\ UNCHANGED <<inodeIndices, mounted, openList>>

\* tfs_readFileInfo hands out a copy of the inode, or an error code as its length.
ReadFileInfo(fd) ==
  LET err == safeReadBlock(inodeLink(openFiles[fd]), {INODE_ID})
  IN /\ Ready
     /\ \/ ~isOpen(fd) /\ Fail(ENOENT)
        \/ isOpen(fd) /\ err # 0 /\ Fail(err)
        \/ isOpen(fd) /\ err = 0 /\ Fail(0)

-----------------------------------------------------------------------------

\* tfs_displayFragments: for each used slot it follows the links from the inode
\* until it reads noBlockLink.
DisplayFragments ==
  /\ Ready
  /\ Begin([NoCall EXCEPT !.op = "displayFragments", !.pc = "display"])
  /\ UNCHANGED <<diskVars, mounted, openList>>

DisplayBlock ==
  /\ call.pc = "display"
  /\ \/ /\ call.cur # noBlockLink
        /\ call' = [call EXCEPT !.cur = disk[call.cur].nextBlock]
        /\ UNCHANGED <<diskVars, mounted, openList, ret>>
     \/ /\ call.cur = noBlockLink /\ slotsFrom(call.slot) # {}
        /\ LET s == Min(slotsFrom(call.slot))
           IN call' = [call EXCEPT !.slot = s + 1, !.cur = inodeIndices[s]]
        /\ UNCHANGED <<diskVars, mounted, openList, ret>>
     \/ call.cur = noBlockLink /\ slotsFrom(call.slot) = {} /\ Fail(0)

-----------------------------------------------------------------------------

\* tfs_defrag.  call.free is freeBlockIndex, call.slot the loop's i, call.prev
\* and call.cur are iterateFEs' fePrevIndex and feIndex.
Defrag ==
  LET free == findFreeBlock(disk, 0)
  IN /\ Ready
     /\ \/ free < 0 /\ Fail(0)
        \/ /\ free > 0
           /\ Begin([NoCall EXCEPT !.op = "defrag", !.pc = "defragInode", !.free = free])
           /\ UNCHANGED <<diskVars, mounted, openList>>

\* The next used slot.  An inode behind the free block is copied into it.
DefragInode ==
  LET s    == Min(slotsFrom(call.slot))
      link == inodeIndices[s]
      err  == safeReadBlock(link, {INODE_ID})
      next == disk[link].nextBlock
  IN /\ call.pc = "defragInode"
     /\ \/ slotsFrom(call.slot) = {} /\ Fail(0)
        \/ slotsFrom(call.slot) # {} /\ err # 0 /\ Fail(err)
        \/ slotsFrom(call.slot) # {} /\ err = 0 /\ call.free < 0 /\ Fail(EIO)
        \/ /\ slotsFrom(call.slot) # {} /\ err = 0 /\ 0 < call.free /\ call.free < link
           /\ disk' = [disk EXCEPT ![call.free] = disk[link]]
           /\ call' = [call EXCEPT !.pc = "swapInodeLink", !.slot = s, !.cur = link]
           /\ UNCHANGED <<inodeIndices, mounted, openList, ret>>
        \/ /\ slotsFrom(call.slot) # {} /\ err = 0 /\ link <= call.free
           /\ call' = [call EXCEPT !.pc = "iterateFEs", !.slot = s, !.prev = link, !.cur = next]
           /\ UNCHANGED <<diskVars, mounted, openList, ret>>

\* swapInode's write of the super block.
SwapInodeLink ==
  /\ call.pc = "swapInodeLink"
  /\ inodeIndices' = [inodeIndices EXCEPT ![call.slot] = call.free]
  /\ call' = [call EXCEPT !.pc = "freeOldInode"]
  /\ UNCHANGED <<disk, mounted, openList, ret>>

\* A mutant of FreeOldInode: iterateFEs is given the inode's old block.
FreeOldInode_oldPrev ==
  LET free == findFreeBlock(disk', call.free)
  IN /\ call.pc = "freeOldInode"
     /\ disk' = [disk EXCEPT ![call.cur] = freeBlock]
     /\ \/ free < 0 /\ Return(free)
        \/ /\ free > 0
           /\ call' = [call EXCEPT !.pc = "iterateFEs", !.free = free, !.prev = call.cur,
                                   !.cur = disk[call.cur].nextBlock]
           /\ UNCHANGED ret
     /\ UNCHANGED <<inodeIndices, mounted, openList>>

\* swapInode's last write, and the search for the next free block behind it.
FreeOldInode ==
  LET free == findFreeBlock(disk', call.free)
  IN /\ call.pc = "freeOldInode"
     /\ disk' = [disk EXCEPT ![call.cur] = freeBlock]
     /\ \/ free < 0 /\ Return(free)
        \/ /\ free > 0
           /\ call' = [call EXCEPT !.pc = "iterateFEs", !.free = free, !.prev = call.free,
                                   !.cur = disk[call.cur].nextBlock]
           /\ UNCHANGED ret
     /\ UNCHANGED <<inodeIndices, mounted, openList>>

\* A mutant of nextSlot: a slot is skipped.
nextSlot_skips == [call EXCEPT !.pc = "defragInode", !.slot = @ + 2, !.prev = 0, !.cur = 0]

nextSlot == [call EXCEPT !.pc = "defragInode", !.slot = @ + 1, !.prev = 0, !.cur = 0]

\* One turn of iterateFEs' loop.  tfs_defrag does not look at the error it may
\* return, and goes on with the next slot; a write to block -1 is such an error.
IterateFEs ==
  LET err == safeReadBlock(call.cur, {FILE_EXTENT_ID})
  IN /\ call.pc = "iterateFEs"
     /\ \/ /\ call.cur = noBlockLink \/ err # 0 \/ call.free < 0
           /\ call' = nextSlot
           /\ UNCHANGED <<diskVars, mounted, openList, ret>>
        \/ /\ call.cur # noBlockLink /\ err = 0 /\ 0 < call.free /\ call.free < call.cur
           /\ disk' = [disk EXCEPT ![call.free] = disk[call.cur]]
           /\ call' = [call EXCEPT !.pc = "swapExtentLink"]
           /\ UNCHANGED <<inodeIndices, mounted, openList, ret>>
        \/ /\ call.cur # noBlockLink /\ err = 0 /\ call.cur <= call.free
           /\ call' = [call EXCEPT !.prev = call.cur, !.cur = disk[call.cur].nextBlock]
           /\ UNCHANGED <<diskVars, mounted, openList, ret>>

\* swapFileExtent's write of the block before: it writes back the copy it read
\* before the free block was written.
SwapExtentLink ==
  /\ call.pc = "swapExtentLink"
  /\ disk' = [disk EXCEPT ![call.prev].nextBlock = call.free]
  /\ call' = [call EXCEPT !.pc = "freeOldExtent"]
  /\ UNCHANGED <<inodeIndices, mounted, openList, ret>>

\* swapFileExtent's last write, and the search for the next free block.  Without
\* one iterateFEs ends, and freeBlockIndex keeps the error code.  The walk goes on
\* with the link iterateFEs read before the swap, which the copy still has.
FreeOldExtent ==
  LET free == findFreeBlock(disk', call.free)
  IN /\ call.pc = "freeOldExtent"
     /\ disk' = [disk EXCEPT ![call.cur] = freeBlock]
     /\ call' = IF free < 0
                THEN [nextSlot EXCEPT !.free = free]
                ELSE [call EXCEPT !.pc = "iterateFEs", !.free = free, !.prev = call.free,
                                  !.cur = disk[call.free].nextBlock]
     /\ UNCHANGED <<inodeIndices, mounted, openList, ret>>

=============================================================================
