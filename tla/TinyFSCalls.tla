---------------------------- MODULE TinyFSCalls ----------------------------
(***************************************************************************)
(* The API calls of tinyFS.c.  An action named like a tfs_ function is the *)
(* call up to its first block write; the actions behind it continue the    *)
(* call, one block write each, until it returns.                           *)
(***************************************************************************)
EXTENDS TinyFSHelper

\* tfs_mount creates the open list, empty, the first time it runs; later the
\* list is the one the last unmount left.  A disk file that does not exist, or
\* whose length is not a number of blocks, is ENOENT.
Mount ==
  /\ idle
  /\ \/ mounted /\ Fail(EALREADY)
     \/ ~mounted /\ Fail(ENOENT)
     \/ /\ ~mounted
        /\ mounted' = TRUE
        /\ Return(0)
        /\ UNCHANGED <<diskVars, openList>>

Unmount ==
  /\ idle
  /\ mounted' = FALSE
  /\ IF mounted THEN openFDs_Reset ELSE UNCHANGED openList
  /\ Return(0)
  /\ UNCHANGED diskVars

\* Every other call returns at once while no disk is mounted.
CallUnmounted ==
  /\ idle
  /\ ~mounted
  /\ Fail(ENODEV)

\* tfs_openFile, tfs_makeRO and tfs_makeRW refuse a null name.
NullName ==
  /\ Ready
  /\ Fail(EPARAM)

-----------------------------------------------------------------------------

\* tfs_openFile.  A new file gets its inode block here and its link in the
\* super block in LinkInode.
OpenFile(name) ==
  LET fname  == formatName(name)
      isNew  == openUnder(fname) = {}
      found  == searchSB(fname)
      target == findFreeBlock(disk, 0)
  IN /\ Ready
     /\ currentFD <= MaxFD
     /\ \/ ~isNew /\ Fail(openFDs_searchByName(fname))
        \/ isNew /\ found.code < 0 /\ Fail(found.code)
        \/ /\ isNew /\ found.code = 1
           /\ LET in == disk[inodeIndices[found.slot]]
              IN openFDs_add(in.fileSize, fname, found.slot, in.nextBlock)
           /\ Return(currentFD)
           /\ UNCHANGED <<diskVars, mounted>>
        \/ isNew /\ found.code = 0 /\ target < 0 /\ Fail(target)
        \/ /\ isNew /\ found.code = 0 /\ target > 0
           /\ disk' = [disk EXCEPT ![target] = inodeBlock(fname, 0, noBlockLink, readAndWrite)]
           /\ Begin([NoCall EXCEPT !.op = "openFile", !.pc = "linkInode", !.cur = target,
                                   !.slot = found.slot, !.name = fname])
           /\ UNCHANGED <<inodeIndices, mounted, openList>>

LinkInode ==
  /\ call.pc = "linkInode"
  /\ inodeIndices' = [inodeIndices EXCEPT ![call.slot] = call.cur]
  /\ openFDs_add(0, call.name, call.slot, noBlockLink)
  /\ Return(currentFD)
  /\ UNCHANGED <<disk, mounted>>

CloseFile(fd) ==
  /\ Ready
  /\ \/ ~isOpen(fd) /\ Fail(ENOENT)
     \/ /\ isOpen(fd)
        /\ openFDs_removeByFD(fd)
        /\ Return(0)
        /\ UNCHANGED <<diskVars, mounted>>

-----------------------------------------------------------------------------

WriteFile(fd, buffer) ==
  /\ Ready
  /\ \/ ~isOpen(fd) /\ Fail(ENOENT)
     \/ isOpen(fd) /\ checkPermission(openFiles[fd]) # 0 /\ Fail(EPERM)
     \/ /\ isOpen(fd) /\ checkPermission(openFiles[fd]) = 0
        /\ Begin([NoCall EXCEPT !.op = "writeFile", !.pc = "eraseFileData", !.fd = fd,
                                !.buf = buffer, !.cur = openFiles[fd].nextBlockIndex])
        /\ UNCHANGED <<diskVars, mounted, openList>>

DeleteFile(fd) ==
  /\ Ready
  /\ \/ ~isOpen(fd) /\ Fail(ENOENT)
     \/ /\ isOpen(fd)
        /\ Begin([NoCall EXCEPT !.op = "deleteFile", !.pc = "eraseFileData", !.fd = fd,
                                !.cur = openFiles[fd].nextBlockIndex])
        /\ UNCHANGED <<diskVars, mounted, openList>>

\* Mutants of EraseBlock: one that frees the first block only, one that leaves the
\* link of the block it frees.
EraseBlock_firstOnly ==
  /\ call.pc = "eraseFileData"
  /\ call.cur # noBlockLink
  /\ disk' = [disk EXCEPT ![call.cur] = freeBlock]
  /\ call' = [call EXCEPT !.cur = noBlockLink]
  /\ UNCHANGED <<inodeIndices, mounted, openList, ret>>

EraseBlock_keepsLink ==
  /\ call.pc = "eraseFileData"
  /\ call.cur # noBlockLink
  /\ disk' = [disk EXCEPT ![call.cur] = [freeBlock EXCEPT !.nextBlock = disk[call.cur].nextBlock]]
  /\ call' = [call EXCEPT !.cur = disk[call.cur].nextBlock]
  /\ UNCHANGED <<inodeIndices, mounted, openList, ret>>

\* One turn of eraseFileData's loop.  The read accepts an inode, an extent or a
\* free block, so it cannot fail.
EraseBlock ==
  /\ call.pc = "eraseFileData"
  /\ call.cur # noBlockLink
  /\ disk' = [disk EXCEPT ![call.cur] = freeBlock]
  /\ call' = [call EXCEPT !.cur = disk[call.cur].nextBlock]
  /\ UNCHANGED <<inodeIndices, mounted, openList, ret>>

\* tfs_writeFile behind eraseFileData: find the first data block and rewrite the
\* inode.  The inode is built in an uninitialized local, so the permission it
\* stores is whatever the stack held; every value but readOnly acts like
\* readAndWrite.
UpdateInode ==
  LET file  == openFiles[call.fd]
      first == findFreeBlock(disk, 0)
  IN /\ call.pc = "eraseFileData" /\ call.op = "writeFile"
     /\ call.cur = noBlockLink
     /\ \/ first < 0 /\ Fail(first)
        \/ first > 0 /\ inodeLink(file) = noBlockLink /\ Fail(EIO)
        \/ /\ first > 0 /\ inodeLink(file) # noBlockLink
           /\ \E mode \in readFlag :
                disk' = [disk EXCEPT ![inodeLink(file)] =
                           inodeBlock(file.fileName, Len(call.buf), first, mode)]
           /\ openFiles' = [openFiles EXCEPT
                              ![call.fd] = [file EXCEPT !.nextBlockIndex = first,
                                                        !.fileSize = Len(call.buf),
                                                        !.location = 0]]
           /\ IF call.buf = <<>>
              THEN Return(0)
              ELSE Begin([call EXCEPT !.pc = "writeBlocks", !.cur = first])
           /\ UNCHANGED <<inodeIndices, mounted, currentFD>>

\* One turn of tfs_writeFile's loop.
WriteBlock ==
  LET isLast == Len(call.buf) <= DataPerBlock
      next   == IF isLast THEN noBlockLink ELSE findFreeBlock(disk, call.cur)
  IN /\ call.pc = "writeBlocks"
     /\ \/ next < 0 /\ Fail(next)
        \/ /\ next >= 0
           /\ disk' = [disk EXCEPT ![call.cur] = fileExtentBlock(next, blockOf(call.buf))]
           /\ IF isLast
              THEN Return(0)
              ELSE Begin([call EXCEPT !.cur = next, !.buf = restOf(call.buf)])
           /\ UNCHANGED <<inodeIndices, mounted, openList>>

\* A mutant of RemoveInode: the inode is freed before the link to it goes.
RemoveInode_inodeFirst ==
  LET b == inodeLink(openFiles[call.fd])
  IN /\ call.pc = "eraseFileData" /\ call.op = "deleteFile"
     /\ call.cur = noBlockLink
     /\ disk' = [disk EXCEPT ![b] = freeBlock]
     /\ Begin([call EXCEPT !.pc = "freeInode", !.cur = b])
     /\ UNCHANGED <<inodeIndices, mounted, openList>>

\* tfs_deleteFile behind eraseFileData: removeInode's write of the super block,
\* then its write of the inode block, after which the descriptor is gone.
RemoveInode ==
  LET file == openFiles[call.fd]
  IN /\ call.pc = "eraseFileData" /\ call.op = "deleteFile"
     /\ call.cur = noBlockLink
     /\ inodeIndices' = [inodeIndices EXCEPT ![file.inodeLinkIndex] = noBlockLink]
     /\ Begin([call EXCEPT !.pc = "freeInode", !.cur = inodeLink(file)])
     /\ UNCHANGED <<disk, mounted, openList>>

FreeInode ==
  /\ call.pc = "freeInode"
  /\ \/ call.cur = noBlockLink /\ Fail(EIO)
     \/ /\ call.cur # noBlockLink
        /\ disk' = [disk EXCEPT ![call.cur] = freeBlock]
        /\ openFDs_removeByFD(call.fd)
        /\ Return(0)
        /\ UNCHANGED <<inodeIndices, mounted>>

-----------------------------------------------------------------------------

\* tfs_readByte also rewrites the inode with a new access time, which fails
\* first when the inode cannot be read.
ReadByte(fd) ==
  LET file  == openFiles[fd]
      inErr == safeReadBlock(inodeLink(file), {INODE_ID})
      err   == locateByte(file)
      block == extentAt(file.nextBlockIndex, file.location \div DataPerBlock)
  IN /\ Ready
     /\ \/ ~isOpen(fd) /\ Fail(ENOENT)
        \/ isOpen(fd) /\ inErr # 0 /\ Fail(inErr)
        \/ isOpen(fd) /\ inErr = 0 /\ err # 0 /\ Fail(err)
        \/ /\ isOpen(fd) /\ inErr = 0 /\ err = 0
           /\ openFiles' = [openFiles EXCEPT ![fd].location = @ + 1]
           /\ ret' = [code |-> 0, byte |-> disk[block].data[file.location % DataPerBlock]]
           /\ UNCHANGED <<diskVars, mounted, currentFD, call>>

\* A mutant of Seek: the offset is not compared with the size.
Seek_unbounded(fd, offset) ==
  /\ Ready
  /\ \/ ~isOpen(fd) /\ Fail(ENOENT)
     \/ isOpen(fd) /\ offset < 0 /\ Fail(ERANGE)
     \/ /\ isOpen(fd) /\ offset >= 0
        /\ openFiles' = [openFiles EXCEPT ![fd].location = offset]
        /\ Return(0)
        /\ UNCHANGED <<diskVars, mounted, currentFD>>

Seek(fd, offset) ==
  LET file == openFiles[fd]
  IN /\ Ready
     /\ \/ ~isOpen(fd) /\ Fail(ENOENT)
        \/ isOpen(fd) /\ (offset < 0 \/ offset > file.fileSize) /\ Fail(ERANGE)
        \/ /\ isOpen(fd) /\ offset \in 0..file.fileSize
           /\ openFiles' = [openFiles EXCEPT ![fd].location = offset]
           /\ Return(0)
           /\ UNCHANGED <<diskVars, mounted, currentFD>>

=============================================================================
