---------------------------- MODULE TinyFSHelper ----------------------------
(***************************************************************************)
(* The state of a TinyFS process and its disk, and the helpers the API     *)
(* calls are built from: safeDiskUtil.c, tinyFSHelper.c, tinyFSOpenList.c. *)
(*                                                                         *)
(* The program is sequential, but a call writes several blocks one after   *)
(* the other.  An action of this specification makes at most one block     *)
(* write; "call" holds the locals of a call that has more to do, and no    *)
(* other call starts before it is idle again.                              *)
(***************************************************************************)
EXTENDS TinyFSStructs, FiniteSetsExt

VARIABLES
  disk,          \* [Blocks -> Block]: every block but the super block
  inodeIndices,  \* [Slots -> BlockLink]: the super block's links to the inodes
  mounted,       \* mountedDiskFD >= 0
  openFiles,     \* the list of tinyOpenFiles, as a function from open descriptors
  currentFD,     \* openFDList->currentFD, the next descriptor
  call,          \* the API call in progress and its locals
  ret            \* what the last call returned: its code, and the byte readByte read

diskVars == <<disk, inodeIndices>>
openList == <<openFiles, currentFD>>
vars     == <<disk, inodeIndices, mounted, openFiles, currentFD, call, ret>>

TinyOpenFile ==
  [location : Nat, inodeLinkIndex : Slots, nextBlockIndex : BlockLink,
   fileSize : Nat, fileName : Name]

\* Which call is running (op), where it is (pc), and its local variables.
NoCall ==
  [op |-> "none", pc |-> "idle", fd |-> 0, slot |-> 0, cur |-> 0, prev |-> 0,
   free |-> 0, buf |-> <<>>, name |-> <<>>]

NoResult == [code |-> 0, byte |-> 0]

idle  == call.pc = "idle"
Ready == idle /\ mounted

\* A call ends; the first form of it leaves the caller's other effects open.
Return(code) ==
  /\ call' = NoCall
  /\ ret' = [code |-> code, byte |-> 0]

Fail(code) ==
  /\ Return(code)
  /\ UNCHANGED <<disk, inodeIndices, mounted, openFiles, currentFD>>

\* A call that is not over after its first step.
Begin(locals) ==
  /\ call' = locals
  /\ ret' = NoResult

-----------------------------------------------------------------------------

\* safeReadBlock: what reading block b as one of the types returns.  Link 0 is
\* the super block, which only SUPER_ID may name.
safeReadBlock(b, types) ==
  IF b \notin Blocks THEN EIO
  ELSE IF disk[b].blockID \notin types THEN ECORRUPT
  ELSE 0

\* Mutants of findFreeBlock: one that starts the search at start itself, one that
\* stops it before the last block, one that takes whatever is not an inode.
findFreeBlock_inclusive(d, start) ==
  LET free == {b \in Blocks : b >= start /\ d[b].blockID = FREE_ID}
  IN IF free = {} THEN ENOSPC ELSE Min(free)

findFreeBlock_notLast(d, start) ==
  LET free == {b \in Blocks : b > start /\ b < NumBlocks - 1 /\ d[b].blockID = FREE_ID}
  IN IF free = {} THEN ENOSPC ELSE Min(free)

findFreeBlock_notInode(d, start) ==
  LET free == {b \in Blocks : b > start /\ d[b].blockID # INODE_ID}
  IN IF free = {} THEN ENOSPC ELSE Min(free)

\* The first free block of disk d behind start, or ENOSPC.
findFreeBlock(d, start) ==
  LET free == {b \in Blocks : b > start /\ d[b].blockID = FREE_ID}
  IN IF free = {} THEN ENOSPC ELSE Min(free)

usedSlots   == {s \in Slots : inodeIndices[s] # noBlockLink}
unusedSlots == Slots \ usedSlots

\* A mutant of slotHits: the scan stops at the first unused slot.
slotHits_beforeGap(name) ==
  {s \in usedSlots : /\ \A t \in unusedSlots : s < t
                     /\ \/ safeReadBlock(inodeIndices[s], {INODE_ID}) # 0
                        \/ disk[inodeIndices[s]].fileName = name}

\* The slots that would end searchSB's scan: the block is not an inode, or it is
\* the inode of the file.
slotHits(name) ==
  {s \in usedSlots : \/ safeReadBlock(inodeIndices[s], {INODE_ID}) # 0
                     \/ disk[inodeIndices[s]].fileName = name}

\* searchSB: scans the slots in order.  The scan ends at the first slot whose
\* block is not an inode (ECORRUPT) or whose inode has the name (code 1, with
\* its slot); otherwise the file is absent (code 0, with the first unused slot).
searchSB(name) ==
  LET hits   == slotHits(name)
      unused == unusedSlots
  IN CASE NumBlocks = MaxBlockCount -> [code |-> ENOSPC, slot |-> 0]
       [] NumBlocks # MaxBlockCount /\ hits # {} ->
            LET err == safeReadBlock(inodeIndices[Min(hits)], {INODE_ID})
            IN [code |-> IF err = 0 THEN 1 ELSE err, slot |-> Min(hits)]
       [] NumBlocks # MaxBlockCount /\ hits = {} /\ unused = {} ->
            [code |-> ENOSPC, slot |-> 0]
       [] OTHER -> [code |-> 0, slot |-> Min(unused)]

-----------------------------------------------------------------------------

\* The list has its newest element first and descriptors only grow, so the
\* first match of a search by name is the one with the largest descriptor.
openUnder(name) == {fd \in DOMAIN openFiles : openFiles[fd].fileName = name}
openFDs_searchByName(name) == Max(openUnder(name))

isOpen(fd) == fd \in DOMAIN openFiles

\* A mutant of openFDs_add: the next descriptor is not counted up.
openFDs_add_sameFD(size, name, slot, next) ==
  /\ openFiles' = [fd \in DOMAIN openFiles \cup {currentFD} |->
                     IF fd = currentFD
                     THEN [location |-> 0, inodeLinkIndex |-> slot, nextBlockIndex |-> next,
                           fileSize |-> size, fileName |-> name]
                     ELSE openFiles[fd]]
  /\ UNCHANGED currentFD

openFDs_add(size, name, slot, next) ==
  /\ openFiles' = [fd \in DOMAIN openFiles \cup {currentFD} |->
                     IF fd = currentFD
                     THEN [location |-> 0, inodeLinkIndex |-> slot, nextBlockIndex |-> next,
                           fileSize |-> size, fileName |-> name]
                     ELSE openFiles[fd]]
  /\ currentFD' = currentFD + 1

\* Mutants of openFDs_removeByFD: one that does not unlink the head of the list,
\* one that hands the descriptor back.
openFDs_removeByFD_notHead(fd) ==
  /\ openFiles' = IF fd = Max(DOMAIN openFiles)
                  THEN openFiles
                  ELSE Restrict(openFiles, DOMAIN openFiles \ {fd})
  /\ UNCHANGED currentFD

openFDs_removeByFD_reuses(fd) ==
  /\ openFiles' = Restrict(openFiles, DOMAIN openFiles \ {fd})
  /\ currentFD' = currentFD - 1

openFDs_removeByFD(fd) ==
  /\ openFiles' = Restrict(openFiles, DOMAIN openFiles \ {fd})
  /\ UNCHANGED currentFD

openFDs_Reset ==
  /\ openFiles' = [fd \in {} |-> NoResult]
  /\ currentFD' = 1

\* The block of the inode of an open file, as the super block has it now.
inodeLink(file) == inodeIndices[file.inodeLinkIndex]

-----------------------------------------------------------------------------

\* readMode is byte 40 of an inode block.  checkPermission and changePermissions
\* reach it with the unchecked readBlock and writeBlock, so in a file extent the
\* same byte is file data, and in the super block it is a link.
readModeData == 36 % DataPerBlock
readModeLink == 35

checkPermission(file) ==
  LET b == inodeLink(file)
      mode == IF b = noBlockLink
              THEN IF readModeLink \in Slots THEN inodeIndices[readModeLink] ELSE 0
              ELSE IF disk[b].blockID = FILE_EXTENT_ID
                   THEN disk[b].data[readModeData]
                   ELSE disk[b].readMode
  IN IF mode = readOnly THEN EPERM ELSE 0

\* The k-th block of the chain that starts at block start, found by reading the
\* blocks before it: noBlockLink right behind the end, -1 if a read fails.
extentAt(start, k) ==
  LET walk[n \in 0..k] ==
        IF n = 0 THEN start
        ELSE IF safeReadBlock(walk[n - 1], {FILE_EXTENT_ID}) = 0
             THEN disk[walk[n - 1]].nextBlock
             ELSE -1
  IN walk[k]

\* What reading the byte at the file pointer returns, before it is read.
locateByte(file) ==
  LET b == extentAt(file.nextBlockIndex, file.location \div DataPerBlock)
  IN IF file.location > file.fileSize THEN ERANGE
     ELSE IF b = -1 THEN ECORRUPT
     ELSE safeReadBlock(b, {FILE_EXTENT_ID})

=============================================================================
