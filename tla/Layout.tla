------------------------------- MODULE Layout -------------------------------
(***************************************************************************)
(* Where the blocks of the files lie, as an inductive invariant of the     *)
(* careful client.  BlocksPartitioned and ChainsMatchSizes speak of whole  *)
(* chains and of the states between two calls; the invariant speaks of one *)
(* block and its link at a time, and of every state.                       *)
(*                                                                         *)
(* A layout says of every block in use that it is block number pos[b] of   *)
(* the file in slot own[b], the inode being number 0.  A call between two  *)
(* of its writes may hold blocks that no file has (floating), and one file *)
(* block whose link it has still to set (tail, 0 if there is none).        *)
(*                                                                         *)
(* The invariant has two parameters for what faults leave behind: the      *)
(* blocks they took from every file for good (lost), and whether the walks *)
(* of tfs_defrag have always come to their end (tidy).  Without faults it  *)
(* is CarefulInv({}, TRUE).  NamesOK is all that a client which reuses     *)
(* names breaks, and says nothing of that one.                             *)
(***************************************************************************)
EXTENDS Clients

\* The blocks of disk d that a layout places.
placed(d, float) == {b \in Blocks : d[b].blockID # FREE_ID} \ float

\* The number of extents of the file in a slot.
extents(d, ix, s) == blocksFor(d[ix[s]].fileSize)

\* Every block has a place in a file; the places of a file are its inode and as
\* many extents as its size calls for.  Since extents link forward, no block lies
\* in front of its number.
Placed(d, ix, own, pos, float) ==
  \A b \in placed(d, float) :
    /\ own[b] \in Slots /\ pos[b] \in 0..extents(d, ix, own[b])
    /\ ix[own[b]] # noBlockLink
    /\ (pos[b] = 0 <=> d[b].blockID = INODE_ID)
    /\ pos[b] = 0 => ix[own[b]] = b
    /\ pos[b] <= b

\* No two blocks have the same place.
Apart(d, own, pos, float) ==
  \A b, c \in placed(d, float) : (own[b] = own[c] /\ pos[b] = pos[c]) => b = c

\* Every used slot leads to the inode of its file.
Rooted(d, ix, own, pos, float) ==
  \A s \in Slots : ix[s] # noBlockLink =>
    ix[s] \in placed(d, float) /\ own[ix[s]] = s /\ pos[ix[s]] = 0

\* Every block but the tail leads to the next block of its file, and the last one
\* nowhere.
Linked(d, ix, own, pos, float, tail) ==
  \A b \in placed(d, float) \ {tail} :
    LET next == d[b].nextBlock
    IN IF pos[b] = extents(d, ix, own[b])
       THEN next = noBlockLink
       ELSE next \in placed(d, float) /\ own[next] = own[b] /\ pos[next] = pos[b] + 1

IsLayout(d, ix, own, pos, float, tail) ==
  /\ Placed(d, ix, own, pos, float)
  /\ Apart(d, own, pos, float)
  /\ Rooted(d, ix, own, pos, float)
  /\ Linked(d, ix, own, pos, float, tail)

-----------------------------------------------------------------------------
(* The call in progress                                                    *)

\* The steps of a call, by the call's name.
phases ==
  [none |-> {"idle"}, openFile |-> {"linkInode"}, writeFile |-> {"eraseFileData", "writeBlocks"},
   deleteFile |-> {"eraseFileData", "freeInode"}, displayFragments |-> {"display"},
   defrag |-> {"defragInode", "swapInodeLink", "freeOldInode", "iterateFEs",
               "swapExtentLink", "freeOldExtent"}]

\* Blocks in use that no file has: the new or the unlinked inode, and one of the
\* two copies of a block that is being moved.
floating ==
  CASE call.pc \in {"linkInode", "freeInode", "freeOldInode", "freeOldExtent"} -> {call.cur}
    [] call.pc \in {"swapInodeLink", "swapExtentLink"} -> {call.free}
    [] OTHER -> {}

\* All blocks in use that no file has.
afloat(lost) == lost \cup floating

LostOK(lost) == lost \subseteq Blocks \ freeBlocks /\ lost \cap floating = {}

busySlot == openFiles[call.fd].inodeLinkIndex

\* The extents eraseFileData has still to free, and the blocks tfs_writeFile has
\* still to write.
toErase(pos) ==
  IF call.cur = noBlockLink THEN 0 ELSE extents(disk, inodeIndices, busySlot) - pos[call.cur] + 1
toWrite == blocksFor(Len(call.buf))

Linking ==
  call.pc = "linkInode" =>
    /\ disk[call.cur].blockID = INODE_ID
    /\ disk[call.cur].fileSize = 0 /\ disk[call.cur].nextBlock = noBlockLink
    /\ disk[call.cur].fileName = call.name /\ disk[call.cur].readMode = readAndWrite
    /\ inodeIndices[call.slot] = noBlockLink
    /\ \A s \in usedSlots : inodeOf(s).fileName # call.name

\* The file's extents are erased in order, and a write has room for its buffer in
\* what is free and what is still to be erased.  Until it is rewritten the inode leads
\* to the first block, or to a free one in its place.
Erasing(lost, own, pos, tail) ==
  call.pc = "eraseFileData" =>
    /\ tail = inodeIndices[busySlot]
    /\ call.cur # noBlockLink =>
         /\ call.cur \in placed(disk, lost) /\ own[call.cur] = busySlot /\ pos[call.cur] # 0
         /\ pos[call.cur] = 1 => inodeOf(busySlot).nextBlock = call.cur
    /\ \A b \in placed(disk, lost) :
         (own[b] = busySlot /\ pos[b] # 0) => call.cur # noBlockLink /\ pos[call.cur] <= pos[b]
    /\ inodeOf(busySlot).nextBlock \in freeBlocks \cup {call.cur}
    /\ call.op = "writeFile" =>
         /\ call.buf # <<>>
         /\ \/ toWrite <= Cardinality(freeBlocks) + toErase(pos)
            \/ /\ freeBlocks = {} /\ call.cur = noBlockLink
               /\ inodeOf(busySlot).fileSize = 0 /\ inodeOf(busySlot).nextBlock = noBlockLink

\* The blocks written so far are the file's first ones; the last of them leads to
\* the block to be written next, the lowest free one, and there is room for the rest.
Writing(lost, own, pos, tail) ==
  call.pc = "writeBlocks" =>
    /\ call.buf # <<>> /\ toWrite <= Cardinality(freeBlocks)
    /\ call.cur \in freeBlocks /\ \A b \in freeBlocks : call.cur <= b
    /\ tail \in placed(disk, lost) /\ own[tail] = busySlot
    /\ pos[tail] + toWrite = extents(disk, inodeIndices, busySlot)
    /\ inodeOf(busySlot).fileSize = DataPerBlock * pos[tail] + Len(call.buf)
    /\ disk[tail].nextBlock = call.cur
    /\ \A b \in placed(disk, lost) : (own[b] = busySlot) => pos[b] <= pos[tail]

\* What tfs_defrag has compacted: the files of the slots behind it, and the current
\* one up to the block before call.cur.
Compacted(lost, tidy, own, pos, upTo) ==
  tidy => \A b \in placed(disk, afloat(lost)) :
    (own[b] < call.slot \/ (own[b] = call.slot /\ pos[b] <= upTo)) => b < call.free

Moving(lost, tidy, own, pos) ==
  /\ call.op = "defrag" => DOMAIN openFiles = {}
  /\ call.pc = "defragInode" => Compacted(lost, tidy, own, pos, -1)
  /\ call.pc \in {"swapInodeLink", "freeOldInode"} =>
       disk[call.cur] = disk[call.free] /\ disk[call.cur].blockID = INODE_ID
  /\ call.pc = "swapInodeLink" =>
       /\ inodeIndices[call.slot] = call.cur
       /\ Compacted(lost, tidy, own, pos, -1)
  /\ call.pc = "freeOldInode" =>
       /\ inodeIndices[call.slot] = call.free
       /\ tidy => \A b \in placed(disk, afloat(lost)) : own[b] < call.slot => b < call.free
  /\ call.pc \in {"iterateFEs", "swapExtentLink"} =>
       /\ call.prev \in placed(disk, afloat(lost)) /\ own[call.prev] = call.slot
       /\ disk[call.prev].nextBlock = call.cur
       /\ Compacted(lost, tidy, own, pos, pos[call.prev])
  /\ call.pc \in {"swapExtentLink", "freeOldExtent"} =>
       disk[call.cur] = disk[call.free] /\ disk[call.cur].blockID = FILE_EXTENT_ID
  /\ call.pc = "freeOldExtent" =>
       /\ call.free \in placed(disk, afloat(lost)) /\ own[call.free] = call.slot
       /\ Compacted(lost, tidy, own, pos, pos[call.free] - 1)

LayoutOK(lost, tidy) ==
  \E own \in [Blocks -> Slots], pos \in [Blocks -> Nat], tail \in BlockLink :
    /\ IsLayout(disk, inodeIndices, own, pos, afloat(lost), tail)
    /\ call.pc \notin {"eraseFileData", "writeBlocks"} => tail = noBlockLink
    /\ Erasing(lost, own, pos, tail)
    /\ Writing(lost, own, pos, tail)
    /\ Moving(lost, tidy, own, pos)

\* What the open list keeps of a file agrees with its inode in the middle of a call,
\* too; only a file being deleted has lost its inode.
TableOK ==
  /\ \A fd \in DOMAIN openFiles :
       ~(call.pc = "freeInode" /\ fd = call.fd) =>
       LET file == openFiles[fd]
       IN /\ file.inodeLinkIndex \in usedSlots
          /\ inodeOf(file.inodeLinkIndex).nextBlock = file.nextBlockIndex
          /\ inodeOf(file.inodeLinkIndex).fileSize = file.fileSize
          /\ inodeOf(file.inodeLinkIndex).fileName = file.fileName
  /\ \A fd1, fd2 \in DOMAIN openFiles :
       openFiles[fd1].inodeLinkIndex = openFiles[fd2].inodeLinkIndex => fd1 = fd2

\* Only a client that reuses names gives one to two files.
NamesOK ==
  "reuseName" \notin Habits =>
    \A s, t \in usedSlots : inodeOf(s).fileName = inodeOf(t).fileName => s = t

PhaseOK ==
  /\ call.pc \in phases[call.op]
  /\ idle => call = NoCall
  /\ call.pc = "freeInode" =>
       /\ call.cur \in Blocks /\ disk[call.cur].blockID = INODE_ID
       /\ busySlot \in unusedSlots
       /\ openFiles[call.fd].nextBlockIndex \in freeBlocks \cup {noBlockLink}
       /\ "reuseName" \notin Habits =>
            \A s \in usedSlots : inodeOf(s).fileName # openFiles[call.fd].fileName

CarefulInv(lost, tidy) ==
  PhaseOK /\ Linking /\ TableOK /\ NamesOK /\ LostOK(lost) /\ LayoutOK(lost, tidy)

=============================================================================
