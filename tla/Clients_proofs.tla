--------------------------- MODULE Clients_proofs ---------------------------
(***************************************************************************)
(* What holds of every client that keeps all the rules of module Clients,  *)
(* on every disk.  CarefulInv, with the invariant of TinyFS_proofs, is     *)
(* inductive; there is one lemma per action, which also says which files   *)
(* the action leaves as they are.                                          *)
(***************************************************************************)
EXTENDS Layout_proofs

\* The files a step may change are at most the one in a slot.
OnlyChanges(slots) == \A s \in Slots \ slots : fileIn(s)' = fileIn(s)

-----------------------------------------------------------------------------
(* Lemmas about steps                                                      *)

\* What the type invariant says of the variables, before a step and after it.
LEMMA Types ==
  ASSUME Inv
  PROVE  /\ disk \in [Blocks -> Block] /\ inodeIndices \in [Slots -> BlockLink]
         /\ \A fd \in DOMAIN openFiles : openFiles[fd] \in TinyOpenFile
         /\ call \in Locals
BY DEF Inv, TypeOK, DiskOK, OpenListOK, LocalsOK

LEMMA TypesAfter ==
  ASSUME Inv'
  PROVE  /\ disk' \in [Blocks -> Block] /\ inodeIndices' \in [Slots -> BlockLink]
         /\ \A fd \in DOMAIN openFiles' : openFiles'[fd] \in TinyOpenFile
         /\ call' \in Locals
BY DEF Inv, TypeOK, DiskOK, OpenListOK, LocalsOK

\* Without faults the blocks afloat are those the call in progress holds.
LEMMA NothingLost == afloat({}) = floating
BY DEF afloat

\* Between two calls, and while the fragmentation map is drawn, no block floats and
\* there is no tail.
LEMMA Settled ==
  ASSUME NEW CONSTANT lost, NEW CONSTANT tidy,
         CarefulInv(lost, tidy), call.pc \in {"idle", "display"}
  PROVE  \E own \in [Blocks -> Slots], pos \in [Blocks -> Nat] :
           IsLayout(disk, inodeIndices, own, pos, lost, 0)
<1>1. afloat(lost) = lost
  BY DEF floating, afloat
<1>2. PICK own \in [Blocks -> Slots], pos \in [Blocks -> Nat], tail \in BlockLink :
        /\ IsLayout(disk, inodeIndices, own, pos, afloat(lost), tail)
        /\ call.pc \notin {"eraseFileData", "writeBlocks"} => tail = noBlockLink
  BY DEF CarefulInv, LayoutOK
<1> QED
  BY <1>1, <1>2 DEF noBlockLink

\* What it takes to show the invariant of the state behind a step that ends a call, or
\* changes no block of one that only reads.
LEMMA SettledAfter ==
  ASSUME NEW CONSTANT lost, NEW CONSTANT tidy,
         NEW CONSTANT own \in [Blocks -> Slots], NEW CONSTANT pos \in [Blocks -> Nat],
         IsLayout(disk', inodeIndices', own, pos, lost, 0),
         lost \subseteq Blocks \ freeBlocks',
         call'.pc \in {"idle", "display"}, call'.op # "defrag",
         PhaseOK', TableOK', NamesOK'
  PROVE  CarefulInv(lost, tidy)'
<1>1. floating' = {} /\ afloat(lost)' = lost
  BY DEF floating, afloat
<1>2. 0 \in BlockLink
  BY DiskAssumption DEF BlockLink
<1>3. Linking' /\ Erasing(lost, own, pos, 0)' /\ Writing(lost, own, pos, 0)' /\ Moving(lost, tidy, own, pos)'
  BY DEF Linking, Erasing, Writing, Moving
<1>4. LayoutOK(lost, tidy)'
  BY <1>1, <1>2, <1>3 DEF LayoutOK, noBlockLink
<1>5. LostOK(lost)'
  BY <1>1 DEF LostOK
<1> QED
  BY <1>3, <1>4, <1>5 DEF CarefulInv

\* A lost block stays lost as long as no step gives it back.
LEMMA StillLost ==
  ASSUME NEW CONSTANT lost, NEW CONSTANT tidy, CarefulInv(lost, tidy),
         \A b \in lost : disk'[b].blockID = FREE_ID => disk[b].blockID = FREE_ID
  PROVE  lost \subseteq Blocks \ freeBlocks'
BY DEF CarefulInv, LostOK, freeBlocks

\* A free block is not lost.
LEMMA FreeNotLost ==
  ASSUME NEW CONSTANT lost, NEW CONSTANT tidy, CarefulInv(lost, tidy)
  PROVE  \A b \in Blocks : disk[b].blockID = FREE_ID => b \notin lost
BY DEF CarefulInv, LostOK, freeBlocks

\* A call that has returned.
LEMMA Ended ==
  ASSUME NEW CONSTANT lost, NEW CONSTANT tidy,
         NEW CONSTANT own \in [Blocks -> Slots], NEW CONSTANT pos \in [Blocks -> Nat],
         IsLayout(disk', inodeIndices', own, pos, lost, 0),
         lost \subseteq Blocks \ freeBlocks',
         call' = NoCall, TableOK', NamesOK'
  PROVE  CarefulInv(lost, tidy)'
<1>1. call'.pc = "idle" /\ call'.op = "none" /\ PhaseOK'
  BY DEF NoCall, PhaseOK, phases, idle
<1> QED
  BY <1>1, SettledAfter

\* A step that changes neither the disk nor the links changes no file.
LEMMA NoFileChanged ==
  ASSUME UNCHANGED diskVars
  PROVE  OnlyChanges({}) /\ UNCHANGED <<freeBlocks, usedSlots>>
BY DEF diskVars, OnlyChanges, fileIn, isFile, usedSlots, inodeOf, chain, byteAt, freeBlocks

\* A step that only takes entries from the open list, or moves their file pointers.
LEMMA QuietStep ==
  ASSUME NEW CONSTANT lost, NEW CONSTANT tidy,
         CarefulInv(lost, tidy), call.pc \in {"idle", "display"},
         UNCHANGED diskVars,
         call'.pc \in {"idle", "display"}, call'.op # "defrag", PhaseOK',
         \A fd \in DOMAIN openFiles' :
           /\ fd \in DOMAIN openFiles
           /\ openFiles'[fd].inodeLinkIndex = openFiles[fd].inodeLinkIndex
           /\ openFiles'[fd].nextBlockIndex = openFiles[fd].nextBlockIndex
           /\ openFiles'[fd].fileSize = openFiles[fd].fileSize
           /\ openFiles'[fd].fileName = openFiles[fd].fileName
  PROVE  CarefulInv(lost, tidy)' /\ OnlyChanges({})
<1>1. disk' = disk /\ inodeIndices' = inodeIndices
  BY DEF diskVars
<1>2. TableOK'
  BY <1>1 DEF CarefulInv, TableOK, usedSlots, inodeOf
<1>3. NamesOK'
  BY <1>1 DEF CarefulInv, NamesOK, usedSlots, inodeOf
<1>4. PICK own \in [Blocks -> Slots], pos \in [Blocks -> Nat] :
        IsLayout(disk, inodeIndices, own, pos, lost, 0)
  BY Settled
<1>5. IsLayout(disk', inodeIndices', own, pos, lost, 0)
  BY <1>1, <1>4
<1>6. CarefulInv(lost, tidy)'
  BY <1>1, <1>2, <1>3, <1>5, SettledAfter DEF CarefulInv, LostOK, freeBlocks
<1> QED
  BY <1>6, NoFileChanged

\* A call that is refused, or that only asks.
LEMMA Refused ==
  ASSUME NEW CONSTANT lost, NEW CONSTANT tidy, CarefulInv(lost, tidy), idle, NEW code, Fail(code)
  PROVE  CarefulInv(lost, tidy)' /\ OnlyChanges({})
<1>1. call' = NoCall /\ UNCHANGED diskVars /\ UNCHANGED openFiles
  BY DEF Fail, Return, diskVars
<1>2. call'.pc = "idle" /\ call'.op = "none" /\ PhaseOK'
  BY <1>1 DEF NoCall, PhaseOK, phases, idle
<1> QED
  BY <1>1, <1>2, QuietStep DEF idle

-----------------------------------------------------------------------------
(* The calls that leave the disk alone                                     *)

\* A call that returns at once and leaves the disk alone.
LEMMA ReturnedAtOnce ==
  ASSUME NEW CONSTANT lost, NEW CONSTANT tidy,
         CarefulInv(lost, tidy), idle, UNCHANGED diskVars, call' = NoCall,
         \A fd \in DOMAIN openFiles' :
           /\ fd \in DOMAIN openFiles
           /\ openFiles'[fd].inodeLinkIndex = openFiles[fd].inodeLinkIndex
           /\ openFiles'[fd].nextBlockIndex = openFiles[fd].nextBlockIndex
           /\ openFiles'[fd].fileSize = openFiles[fd].fileSize
           /\ openFiles'[fd].fileName = openFiles[fd].fileName
  PROVE  CarefulInv(lost, tidy)' /\ OnlyChanges({})
<1>1. call'.pc = "idle" /\ call'.op = "none" /\ PhaseOK'
  BY DEF NoCall, PhaseOK, phases, idle
<1> QED
  BY <1>1, QuietStep DEF idle

\* tfs_mount and tfs_unmount: files do not notice them.
LEMMA CMount == ASSUME NEW CONSTANT lost, NEW CONSTANT tidy, CarefulInv(lost, tidy), Mount PROVE CarefulInv(lost, tidy)' /\ OnlyChanges({})
<1>1. CASE \E code \in {EALREADY, ENOENT} : Fail(code)
  BY <1>1, Refused DEF Mount
<1>2. CASE call' = NoCall /\ UNCHANGED diskVars /\ UNCHANGED openFiles
  BY <1>2, ReturnedAtOnce DEF Mount
<1> QED
  BY <1>1, <1>2 DEF Mount, Return, openList

LEMMA CUnmount == ASSUME NEW CONSTANT lost, NEW CONSTANT tidy, CarefulInv(lost, tidy), Unmount PROVE CarefulInv(lost, tidy)' /\ OnlyChanges({})
<1>1. idle /\ call' = NoCall /\ UNCHANGED diskVars
  BY DEF Unmount, Return
<1>2. (\A fd \in DOMAIN openFiles' : FALSE) \/ UNCHANGED openFiles
  BY DEF Unmount, openFDs_Reset, openList
<1> QED
  BY <1>1, <1>2, ReturnedAtOnce

\* The calls that only answer.
LEMMA CRefusals ==
  ASSUME NEW CONSTANT lost, NEW CONSTANT tidy,
         CarefulInv(lost, tidy), CallUnmounted \/ NullName \/ Readdir \/ (\E fd \in FDs : ReadFileInfo(fd))
  PROVE  CarefulInv(lost, tidy)' /\ OnlyChanges({})
<1>1. idle /\ \E code : Fail(code)
  BY DEF CallUnmounted, NullName, Readdir, ReadFileInfo, Ready
<1> QED
  BY <1>1, Refused

\* An entry of the open list goes; what the others keep is as fresh as it was.
LEMMA CCloseFile ==
  ASSUME NEW CONSTANT lost, NEW CONSTANT tidy,
         CarefulInv(lost, tidy), NEW CONSTANT fd \in FDs, CloseFile(fd)
  PROVE  CarefulInv(lost, tidy)' /\ OnlyChanges({})
<1>1. idle
  BY DEF CloseFile, Ready
<1>2. CASE Fail(ENOENT)
  BY <1>1, <1>2, Refused
<1>3. CASE isOpen(fd) /\ openFDs_removeByFD(fd) /\ Return(0) /\ UNCHANGED <<diskVars, mounted>>
  <2>1. DOMAIN openFiles' \subseteq DOMAIN openFiles
        /\ \A f \in DOMAIN openFiles' : openFiles'[f] = openFiles[f]
    BY <1>3 DEF openFDs_removeByFD, Restrict
  <2> QED
    BY <1>1, <1>3, <2>1, ReturnedAtOnce DEF Return
<1> QED
  BY <1>2, <1>3 DEF CloseFile

\* A new file pointer is all that tfs_seek and tfs_readByte leave in the open list.
LEMMA PointerMoved ==
  ASSUME Inv, NEW fd, NEW x,
         openFiles' = [openFiles EXCEPT ![fd].location = x]
  PROVE  \A f \in DOMAIN openFiles' :
           /\ f \in DOMAIN openFiles
           /\ openFiles'[f].inodeLinkIndex = openFiles[f].inodeLinkIndex
           /\ openFiles'[f].nextBlockIndex = openFiles[f].nextBlockIndex
           /\ openFiles'[f].fileSize = openFiles[f].fileSize
           /\ openFiles'[f].fileName = openFiles[f].fileName
BY Types DEF TinyOpenFile

\* tfs_seek and tfs_readByte move the file pointer of one entry.
LEMMA CSeek ==
  ASSUME NEW CONSTANT lost, NEW CONSTANT tidy,
         Inv, CarefulInv(lost, tidy), NEW CONSTANT fd \in FDs, NEW CONSTANT offset \in SeekOffsets, Seek(fd, offset)
  PROVE  CarefulInv(lost, tidy)' /\ OnlyChanges({})
<1>1. idle
  BY DEF Seek, Ready
<1>2. CASE \E code : Fail(code)
  BY <1>1, <1>2, Refused
<1>3. CASE openFiles' = [openFiles EXCEPT ![fd].location = offset] /\ Return(0) /\ UNCHANGED diskVars
  <2>1. call' = NoCall
    BY <1>3 DEF Return
  <2> QED
    BY <1>1, <1>3, <2>1, PointerMoved, ReturnedAtOnce
<1> QED
  BY <1>2, <1>3 DEF Seek

LEMMA CReadByte ==
  ASSUME NEW CONSTANT lost, NEW CONSTANT tidy,
         Inv, CarefulInv(lost, tidy), NEW CONSTANT fd \in FDs, ReadByte(fd)
  PROVE  CarefulInv(lost, tidy)' /\ OnlyChanges({})
<1>1. idle
  BY DEF ReadByte, Ready
<1>2. CASE \E code : Fail(code)
  BY <1>1, <1>2, Refused
<1>3. CASE /\ openFiles' = [openFiles EXCEPT ![fd].location = openFiles[fd].location + 1]
           /\ UNCHANGED call /\ UNCHANGED diskVars
  <2>1. call' = NoCall
    BY <1>1, <1>3 DEF CarefulInv, PhaseOK
  <2> QED
    BY <1>1, <1>3, <2>1, PointerMoved, ReturnedAtOnce
<1> QED
  BY <1>2, <1>3 DEF ReadByte

\* tfs_displayFragments reads one block after the other.
LEMMA CDisplayFragments ==
  ASSUME NEW CONSTANT lost, NEW CONSTANT tidy, CarefulInv(lost, tidy), DisplayFragments
  PROVE  CarefulInv(lost, tidy)' /\ OnlyChanges({})
<1>1. idle /\ UNCHANGED diskVars /\ UNCHANGED openFiles
  BY DEF DisplayFragments, Ready, openList
<1>2. call'.pc = "display" /\ call'.op = "displayFragments"
  BY DEF DisplayFragments, Begin, NoCall
<1>3. PhaseOK'
  BY <1>2 DEF PhaseOK, phases, idle
<1> QED
  BY <1>1, <1>2, <1>3, QuietStep DEF idle

LEMMA CDisplayBlock ==
  ASSUME NEW CONSTANT lost, NEW CONSTANT tidy, Inv, CarefulInv(lost, tidy), DisplayBlock
  PROVE  CarefulInv(lost, tidy)' /\ OnlyChanges({})
<1>1. call.pc = "display" /\ UNCHANGED diskVars /\ UNCHANGED openFiles
  BY DEF DisplayBlock, Fail, diskVars, openList
<1>2. call.op = "displayFragments" /\ call \in Locals
  BY <1>1, Types DEF CarefulInv, PhaseOK, phases, Locals
<1>3. CASE call' = NoCall
  <2>1. call'.pc = "idle" /\ call'.op = "none" /\ PhaseOK'
    BY <1>3 DEF NoCall, PhaseOK, phases, idle
  <2> QED
    BY <1>1, <2>1, QuietStep
<1>4. CASE call'.pc = call.pc /\ call'.op = call.op
  <2>1. PhaseOK'
    BY <1>1, <1>2, <1>4 DEF PhaseOK, phases, idle
  <2> QED
    BY <1>1, <1>2, <1>4, <2>1, QuietStep
<1>5. call' = NoCall \/ (call'.pc = call.pc /\ call'.op = call.op)
  BY <1>2 DEF DisplayBlock, Fail, Return, Locals
<1> QED
  BY <1>3, <1>4, <1>5

-----------------------------------------------------------------------------
(* The calls that change one block and no link                             *)

\* A step that leaves a file's link and its blocks alone leaves the file alone.
LEMMA OtherFile ==
  ASSUME Inv, Inv',
         NEW CONSTANT own \in [Blocks -> Slots], NEW CONSTANT pos \in [Blocks -> Nat],
         NEW CONSTANT own2 \in [Blocks -> Slots], NEW CONSTANT pos2 \in [Blocks -> Nat],
         NEW CONSTANT F, NEW CONSTANT F2, NEW CONSTANT tail, NEW CONSTANT tail2,
         IsLayout(disk, inodeIndices, own, pos, F, tail),
         IsLayout(disk', inodeIndices', own2, pos2, F2, tail2),
         NEW CONSTANT s \in Slots,
         inodeIndices'[s] = inodeIndices[s],
         Complete(disk, own, F, tail, s),
         \A c \in placed(disk', F2) : own2[c] = s =>
           /\ c \in placed(disk, F) /\ own[c] = s /\ pos2[c] = pos[c]
           /\ disk'[c] = disk[c] /\ c # tail2
  PROVE  fileIn(s)' = fileIn(s)
<1>1. CASE inodeIndices[s] = noBlockLink
  BY <1>1 DEF fileIn, isFile, usedSlots, noFile
<1>2. CASE inodeIndices[s] # noBlockLink
  <2>1. inodeIndices'[s] \in placed(disk', F2) /\ own2[inodeIndices'[s]] = s
    BY <1>2, InodesPlaced
  <2>2. disk'[inodeIndices'[s]] = disk[inodeIndices[s]]
    BY <2>1
  <2>3. SameData(disk, own, pos, F, disk', own2, pos2, F2, s)
    BY DEF IsLayout, Apart, SameData
  <2>4. Complete(disk', own2, F2, tail2, s)
    BY DEF Complete
  <2>5. /\ disk \in [Blocks -> Block] /\ inodeIndices \in [Slots -> BlockLink]
        /\ disk' \in [Blocks -> Block] /\ inodeIndices' \in [Slots -> BlockLink]
    BY Types, TypesAfter
  <2>6. /\ inodeIndices'[s] # noBlockLink
        /\ disk'[inodeIndices'[s]].fileName = disk[inodeIndices[s]].fileName
        /\ disk'[inodeIndices'[s]].fileSize = disk[inodeIndices[s]].fileSize
        /\ disk'[inodeIndices'[s]].readMode = disk[inodeIndices[s]].readMode
    BY <1>2, <2>2
  <2> QED
    BY <1>2, <2>3, <2>4, <2>5, <2>6, SameFile
<1> QED
  BY <1>1, <1>2

\* A call that returns after one write that leaves the type, the link and the size of
\* a block in use alone changes at most the file of that block.
LEMMA OneBlockTouched ==
  ASSUME NEW CONSTANT lost, NEW CONSTANT tidy,
         Inv, Inv', CarefulInv(lost, tidy), idle, call' = NoCall,
         NEW CONSTANT b \in Blocks, disk[b].blockID # FREE_ID,
         \A c \in Blocks : c # b => disk'[c] = disk[c],
         disk'[b].blockID = disk[b].blockID, disk'[b].nextBlock = disk[b].nextBlock,
         disk[b].blockID = INODE_ID => disk'[b].fileSize = disk[b].fileSize,
         UNCHANGED inodeIndices, TableOK', NamesOK',
         NEW CONSTANT own \in [Blocks -> Slots], NEW CONSTANT pos \in [Blocks -> Nat],
         IsLayout(disk, inodeIndices, own, pos, lost, 0)
  PROVE  CarefulInv(lost, tidy)' /\ OnlyChanges({own[b]})
<1>1. placed(disk', lost) = placed(disk, lost) /\ placed(disk, lost) \subseteq Blocks
  BY DEF placed
<1>2. IsLayout(disk', inodeIndices', own, pos, lost, 0)
  BY <1>1, SameLayout
<1>3. CarefulInv(lost, tidy)'
  <2>1. \A c \in Blocks : disk'[c].blockID = disk[c].blockID
    OBVIOUS
  <2>2. lost \subseteq Blocks \ freeBlocks'
    BY <2>1, StillLost DEF CarefulInv, LostOK
  <2> QED
    BY <1>2, <2>2, Ended
<1>4. ASSUME NEW CONSTANT s \in Slots \ {own[b]}
      PROVE  fileIn(s)' = fileIn(s)
  <2>1. \A c \in placed(disk, lost) : c # 0
    BY <1>1, DiskAssumption DEF Blocks
  <2>2. \A c \in placed(disk', lost) : own[c] = s =>
          /\ c \in placed(disk, lost) /\ disk'[c] = disk[c] /\ c # 0
    BY <1>1, <2>1
  <2>3. Complete(disk, own, lost, 0, s)
    BY <2>1 DEF Complete
  <2> QED
    BY <1>2, <2>2, <2>3, OtherFile
<1> QED
  BY <1>3, <1>4 DEF OnlyChanges

\* Nothing at all happens to the disk.
LEMMA SameDisk ==
  ASSUME NEW CONSTANT lost, NEW CONSTANT tidy,
         CarefulInv(lost, tidy), idle, call' = NoCall, UNCHANGED diskVars, UNCHANGED openFiles
  PROVE  CarefulInv(lost, tidy)' /\ \E s \in Slots : OnlyChanges({s})
<1>1. CarefulInv(lost, tidy)' /\ OnlyChanges({})
  BY ReturnedAtOnce
<1>2. 0 \in Slots
  BY DiskAssumption DEF Slots
<1> QED
  BY <1>1, <1>2 DEF OnlyChanges

\* A step that changes no file changes at most one.
LEMMA AtMostOne ==
  ASSUME OnlyChanges({})
  PROVE  \E s \in Slots : OnlyChanges({s})
BY DiskAssumption DEF OnlyChanges, Slots

\* The entries of the open list lead to inodes between two calls.
LEMMA OpenFilesLinked ==
  ASSUME NEW CONSTANT lost, NEW CONSTANT tidy,
         Inv, CarefulInv(lost, tidy), call.pc # "freeInode", NEW fd \in DOMAIN openFiles
  PROVE  LET slot == openFiles[fd].inodeLinkIndex
             b    == inodeIndices[slot]
         IN /\ slot \in Slots /\ slot \in usedSlots
            /\ b \in Blocks /\ b # noBlockLink /\ b \in placed(disk, afloat(lost))
            /\ disk[b].blockID = INODE_ID
            /\ disk[b].nextBlock = openFiles[fd].nextBlockIndex
            /\ disk[b].fileSize = openFiles[fd].fileSize
            /\ disk[b].fileName = openFiles[fd].fileName
<1> DEFINE slot == openFiles[fd].inodeLinkIndex
<1>1. slot \in usedSlots
      /\ inodeOf(slot).nextBlock = openFiles[fd].nextBlockIndex
      /\ inodeOf(slot).fileSize = openFiles[fd].fileSize
      /\ inodeOf(slot).fileName = openFiles[fd].fileName
  BY DEF CarefulInv, TableOK
<1>2. slot \in Slots /\ inodeIndices[slot] # noBlockLink
  BY <1>1 DEF usedSlots
<1>3. PICK own \in [Blocks -> Slots], pos \in [Blocks -> Nat], tail \in BlockLink :
        IsLayout(disk, inodeIndices, own, pos, afloat(lost), tail)
  BY DEF CarefulInv, LayoutOK
<1>4. inodeIndices[slot] \in placed(disk, afloat(lost)) /\ disk[inodeIndices[slot]].blockID = INODE_ID
  BY <1>2, <1>3, InodesPlaced
<1>5. inodeIndices[slot] \in Blocks
  BY <1>4 DEF placed
<1> QED
  BY <1>1, <1>2, <1>4, <1>5 DEF inodeOf

\* Every used slot leads to an inode.
LEMMA SlotsLinked ==
  ASSUME NEW CONSTANT lost, NEW CONSTANT tidy, CarefulInv(lost, tidy), NEW s \in usedSlots
  PROVE  /\ s \in Slots /\ inodeIndices[s] # noBlockLink /\ inodeIndices[s] \in Blocks
         /\ inodeIndices[s] \in placed(disk, afloat(lost))
         /\ disk[inodeIndices[s]].blockID = INODE_ID
         /\ isFile(s)
<1>1. s \in Slots /\ inodeIndices[s] # noBlockLink
  BY DEF usedSlots
<1>2. PICK own \in [Blocks -> Slots], pos \in [Blocks -> Nat], tail \in BlockLink :
        IsLayout(disk, inodeIndices, own, pos, afloat(lost), tail)
  BY DEF CarefulInv, LayoutOK
<1>3. inodeIndices[s] \in placed(disk, afloat(lost)) /\ disk[inodeIndices[s]].blockID = INODE_ID
  BY <1>1, <1>2, InodesPlaced
<1>4. inodeIndices[s] \in Blocks
  BY <1>3 DEF placed
<1> QED
  BY <1>1, <1>3, <1>4 DEF isFile, inodeOf

\* No two used slots lead to the same block.
LEMMA SlotsApart ==
  ASSUME NEW CONSTANT lost, NEW CONSTANT tidy,
         CarefulInv(lost, tidy), NEW s \in usedSlots, NEW t \in usedSlots, inodeIndices[s] = inodeIndices[t]
  PROVE  s = t
<1>1. s \in Slots /\ inodeIndices[s] # noBlockLink /\ t \in Slots /\ inodeIndices[t] # noBlockLink
  BY DEF usedSlots
<1>2. PICK own \in [Blocks -> Slots], pos \in [Blocks -> Nat], tail \in BlockLink :
        IsLayout(disk, inodeIndices, own, pos, afloat(lost), tail)
  BY DEF CarefulInv, LayoutOK
<1> QED
  BY <1>1, <1>2, InodesPlaced

\* The fields of an inode that a change of its mode or its name leaves alone.
LEMMA InodeTouched ==
  ASSUME NEW bl \in Block, bl.blockID = INODE_ID, NEW x
  PROVE  /\ LET m == [bl EXCEPT !.readMode = x]
            IN /\ m.blockID = bl.blockID /\ m.nextBlock = bl.nextBlock
               /\ m.fileSize = bl.fileSize /\ m.fileName = bl.fileName
         /\ LET m == [bl EXCEPT !.fileName = x]
            IN /\ m.blockID = bl.blockID /\ m.nextBlock = bl.nextBlock
               /\ m.fileSize = bl.fileSize /\ m.fileName = x
               /\ m.readMode = bl.readMode
BY DEF Block, INODE_ID, FREE_ID, FILE_EXTENT_ID

\* The new name is one no file has, and tfs_rename writes it to the inode and to the
\* entry of the open list.
LEMMA CRename ==
  ASSUME NEW CONSTANT lost, NEW CONSTANT tidy,
         Inv, Inv', CarefulInv(lost, tidy), NEW CONSTANT fd \in FDs, NEW CONSTANT newName \in UserNames,
         Rename(fd, newName),
         "reuseName" \notin Habits =>
           \A s \in usedSlots : ~(isFile(s) /\ inodeOf(s).fileName = formatName(newName))
  PROVE  /\ CarefulInv(lost, tidy)'
         /\ \E s \in Slots : /\ OnlyChanges({s})
                             /\ isOpen(fd) => s = openFiles[fd].inodeLinkIndex
<1> DEFINE b == inodeLink(openFiles[fd])
           n == formatName(newName)
<1>1. idle
  BY DEF Rename, Ready
<1>2. CASE \E code : Fail(code)
  <2>1. CarefulInv(lost, tidy)' /\ OnlyChanges({})
    BY <1>1, <1>2, Refused
  <2>2. isOpen(fd) => openFiles[fd].inodeLinkIndex \in Slots
    BY <1>1, OpenFilesLinked DEF isOpen, idle
  <2> QED
    BY <2>1, <2>2, DiskAssumption DEF OnlyChanges, Slots
<1>3. CASE /\ isOpen(fd)
           /\ disk' = [disk EXCEPT ![b].fileName = n]
           /\ openFiles' = [openFiles EXCEPT ![fd].fileName = n]
           /\ Return(0) /\ UNCHANGED inodeIndices
  <2> DEFINE slot == openFiles[fd].inodeLinkIndex
  <2>1. fd \in DOMAIN openFiles /\ call.pc # "freeInode"
    BY <1>1, <1>3 DEF isOpen, idle
  <2>2. /\ slot \in usedSlots /\ slot \in Slots /\ b = inodeIndices[slot]
        /\ b \in Blocks /\ disk[b].blockID = INODE_ID
        /\ disk[b].nextBlock = openFiles[fd].nextBlockIndex
        /\ disk[b].fileSize = openFiles[fd].fileSize
    BY <2>1, OpenFilesLinked DEF inodeLink
  <2>3. disk \in [Blocks -> Block] /\ disk[b] \in Block
    BY <2>2, Types
  <2>4. /\ disk'[b] = [disk[b] EXCEPT !.fileName = n]
        /\ \A c \in Blocks : c # b => disk'[c] = disk[c]
    BY <1>3, <2>2, <2>3
  <2>5. /\ disk'[b].blockID = disk[b].blockID /\ disk'[b].nextBlock = disk[b].nextBlock
        /\ disk'[b].fileSize = disk[b].fileSize /\ disk'[b].fileName = n
    BY <2>2, <2>3, <2>4, InodeTouched
  <2>6. usedSlots' = usedSlots
    BY <1>3 DEF usedSlots
  <2>7. \A s \in usedSlots : s # slot => inodeIndices[s] # b /\ disk'[inodeIndices[s]] = disk[inodeIndices[s]]
    BY <2>2, <2>4, SlotsApart, SlotsLinked
  <2>8. openFiles[fd] \in TinyOpenFile /\ DOMAIN openFiles' = DOMAIN openFiles
    BY <1>3, <2>1, Types
  <2>9. /\ openFiles'[fd] = [openFiles[fd] EXCEPT !.fileName = n]
        /\ \A f \in DOMAIN openFiles : f # fd => openFiles'[f] = openFiles[f]
    BY <1>3, <2>1
  <2>10. /\ openFiles'[fd].inodeLinkIndex = slot
         /\ openFiles'[fd].nextBlockIndex = openFiles[fd].nextBlockIndex
         /\ openFiles'[fd].fileSize = openFiles[fd].fileSize
         /\ openFiles'[fd].fileName = n
    BY <2>8, <2>9 DEF TinyOpenFile
  <2> HIDE DEF slot, b, n
  <2>11. TableOK'
    <3>1. ASSUME NEW f \in DOMAIN openFiles
          PROVE  /\ openFiles'[f].inodeLinkIndex = openFiles[f].inodeLinkIndex
                 /\ openFiles'[f].inodeLinkIndex \in usedSlots
                 /\ disk'[inodeIndices[openFiles'[f].inodeLinkIndex]].nextBlock = openFiles'[f].nextBlockIndex
                 /\ disk'[inodeIndices[openFiles'[f].inodeLinkIndex]].fileSize = openFiles'[f].fileSize
                 /\ disk'[inodeIndices[openFiles'[f].inodeLinkIndex]].fileName = openFiles'[f].fileName
      <4>1. CASE f = fd
        BY <2>2, <2>5, <2>10, <4>1 DEF slot
      <4>2. CASE f # fd
        <5>1. openFiles[f].inodeLinkIndex # slot
          BY <2>1, <4>2 DEF CarefulInv, TableOK, slot
        <5>2. /\ openFiles[f].inodeLinkIndex \in usedSlots
              /\ disk[inodeIndices[openFiles[f].inodeLinkIndex]].nextBlock = openFiles[f].nextBlockIndex
              /\ disk[inodeIndices[openFiles[f].inodeLinkIndex]].fileSize = openFiles[f].fileSize
              /\ disk[inodeIndices[openFiles[f].inodeLinkIndex]].fileName = openFiles[f].fileName
          BY <2>1, OpenFilesLinked
        <5> QED
          BY <2>7, <2>9, <4>2, <5>1, <5>2
      <4> QED
        BY <4>1, <4>2
    <3>2. \A fd1, fd2 \in DOMAIN openFiles :
            openFiles[fd1].inodeLinkIndex = openFiles[fd2].inodeLinkIndex => fd1 = fd2
      BY DEF CarefulInv, TableOK
    <3> QED
      BY <1>3, <2>6, <2>8, <3>1, <3>2 DEF TableOK, inodeOf
  <2>12. NamesOK'
    <3> SUFFICES ASSUME "reuseName" \notin Habits PROVE NamesOK'
      BY DEF NamesOK
    <3>1. \A s \in usedSlots : disk[inodeIndices[s]].fileName # n
      BY SlotsLinked DEF inodeOf, n
    <3>2. \A s, t \in usedSlots : disk[inodeIndices[s]].fileName = disk[inodeIndices[t]].fileName => s = t
      BY DEF CarefulInv, NamesOK, inodeOf
    <3>3. \A s, t \in usedSlots : disk'[inodeIndices[s]].fileName = disk'[inodeIndices[t]].fileName => s = t
      BY <2>2, <2>5, <2>7, <3>1, <3>2
    <3> QED
      BY <1>3, <2>6, <3>3 DEF NamesOK, inodeOf
  <2>13. PICK own \in [Blocks -> Slots], pos \in [Blocks -> Nat] :
           IsLayout(disk, inodeIndices, own, pos, lost, 0)
    BY <1>1, Settled DEF idle
  <2>14. PICK c \in Blocks : c = b
    BY <2>2
  <2>15. own[c] = slot
    BY <2>2, <2>13, <2>14, InodesPlaced, SlotsLinked
  <2>16. CarefulInv(lost, tidy)' /\ OnlyChanges({own[c]})
    BY <1>1, <1>3, <2>2, <2>4, <2>5, <2>11, <2>12, <2>13, <2>14, OneBlockTouched
       DEF Return, INODE_ID, FREE_ID
  <2> QED
    BY <2>2, <2>15, <2>16 DEF slot
<1> QED
  BY <1>2, <1>3 DEF Rename

\* A write that leaves every inode's link, size and name alone agrees with the open
\* list and the names as they were.
LEMMA TableKept ==
  ASSUME NEW CONSTANT lost, NEW CONSTANT tidy,
         CarefulInv(lost, tidy), idle, call' = NoCall, UNCHANGED <<inodeIndices, openFiles>>,
         \A s \in usedSlots :
           /\ disk'[inodeIndices[s]].nextBlock = disk[inodeIndices[s]].nextBlock
           /\ disk'[inodeIndices[s]].fileSize = disk[inodeIndices[s]].fileSize
           /\ disk'[inodeIndices[s]].fileName = disk[inodeIndices[s]].fileName
  PROVE  TableOK' /\ NamesOK'
<1>1. usedSlots' = usedSlots
  BY DEF usedSlots
<1>2. TableOK'
  BY <1>1 DEF CarefulInv, TableOK, inodeOf, idle
<1>3. NamesOK'
  BY <1>1 DEF CarefulInv, NamesOK, inodeOf
<1> QED
  BY <1>2, <1>3

\* changePermissions rewrites one byte of one inode.
LEMMA CSetReadMode ==
  ASSUME NEW CONSTANT lost, NEW CONSTANT tidy,
         Inv, Inv', CarefulInv(lost, tidy), idle, NEW CONSTANT slot \in usedSlots, NEW CONSTANT mode,
         setReadMode(slot, mode), call' = NoCall, UNCHANGED openFiles
  PROVE  CarefulInv(lost, tidy)' /\ OnlyChanges({slot})
<1> DEFINE b == inodeIndices[slot]
<1>1. b \in Blocks /\ b # noBlockLink /\ disk[b].blockID = INODE_ID
  BY SlotsLinked
<1>2. disk' = [disk EXCEPT ![b].readMode = mode] /\ UNCHANGED inodeIndices
  BY <1>1 DEF setReadMode, INODE_ID, FILE_EXTENT_ID
<1>3. disk \in [Blocks -> Block] /\ disk[b] \in Block
  BY <1>1, Types
<1>4. /\ disk'[b] = [disk[b] EXCEPT !.readMode = mode]
      /\ \A c \in Blocks : c # b => disk'[c] = disk[c]
  BY <1>1, <1>2, <1>3
<1>5. /\ disk'[b].blockID = disk[b].blockID /\ disk'[b].nextBlock = disk[b].nextBlock
      /\ disk'[b].fileSize = disk[b].fileSize /\ disk'[b].fileName = disk[b].fileName
  BY <1>1, <1>3, <1>4, InodeTouched
<1> HIDE DEF b
<1>6. \A s \in usedSlots :
        /\ disk'[inodeIndices[s]].nextBlock = disk[inodeIndices[s]].nextBlock
        /\ disk'[inodeIndices[s]].fileSize = disk[inodeIndices[s]].fileSize
        /\ disk'[inodeIndices[s]].fileName = disk[inodeIndices[s]].fileName
  BY <1>4, <1>5, SlotsLinked
<1>7. TableOK' /\ NamesOK'
  BY <1>2, <1>6, TableKept
<1>8. PICK own \in [Blocks -> Slots], pos \in [Blocks -> Nat] :
        IsLayout(disk, inodeIndices, own, pos, lost, 0)
  BY Settled DEF idle
<1>9. PICK c \in Blocks : c = b
  BY <1>1
<1>10. own[c] = slot
  BY <1>1, <1>8, <1>9, InodesPlaced, SlotsLinked DEF b
<1>11. CarefulInv(lost, tidy)' /\ OnlyChanges({own[c]})
  BY <1>1, <1>2, <1>4, <1>5, <1>7, <1>8, <1>9, OneBlockTouched DEF INODE_ID, FREE_ID
<1> QED
  BY <1>10, <1>11

\* What searchSB found: the slot of the file, or an unused slot when no file has the
\* name.
LEMMA SearchSBFinds ==
  ASSUME \A s \in usedSlots : safeReadBlock(inodeIndices[s], {INODE_ID}) = 0, NEW name
  PROVE  LET found == searchSB(name)
         IN /\ found.code = 1 => /\ found.slot \in usedSlots
                                 /\ inodeOf(found.slot).fileName = name
            /\ found.code = 0 => /\ found.slot \in unusedSlots
                                 /\ \A s \in usedSlots : inodeOf(s).fileName # name
            /\ found.code = ENOSPC => NumBlocks = MaxBlockCount \/ unusedSlots = {}
            /\ found.code \in {0, 1, ENOSPC}
<1> DEFINE hits   == slotHits(name)
           unused == unusedSlots
           err == safeReadBlock(inodeIndices[Min(hits)], {INODE_ID})
<1>1. hits \subseteq usedSlots /\ hits \in SUBSET Nat /\ unused \in SUBSET Nat
  BY DiskAssumption DEF Slots, slotHits, usedSlots, unusedSlots
<1>2. \A s \in usedSlots : safeReadBlock(inodeIndices[s], {INODE_ID}) = 0
  OBVIOUS
<1>3. \A s \in usedSlots : s \in hits <=> inodeOf(s).fileName = name
  BY <1>2 DEF slotHits, inodeOf
<1>4. CASE NumBlocks = MaxBlockCount
  <2>1. searchSB(name).code = ENOSPC
    BY <1>4 DEF searchSB
  <2> QED
    BY <1>4, <2>1 DEF ENOSPC
<1>5. CASE NumBlocks # MaxBlockCount /\ hits # {}
  <2>1. searchSB(name) = [code |-> IF err = 0 THEN 1 ELSE err, slot |-> Min(hits)]
    BY <1>5 DEF searchSB
  <2> HIDE DEF hits
  <2>2. Min(hits) \in hits /\ Min(hits) \in usedSlots
    BY <1>1, <1>5, MinOfNats
  <2>3. err = 0
    BY <1>2, <2>2
  <2>4. searchSB(name).code = 1 /\ searchSB(name).slot = Min(hits)
    BY <2>1, <2>3
  <2> QED
    BY <1>3, <2>2, <2>4 DEF ENOSPC
<1>6. CASE NumBlocks # MaxBlockCount /\ hits = {} /\ unused = {}
  <2>1. searchSB(name).code = ENOSPC
    BY <1>6 DEF searchSB
  <2> QED
    BY <1>6, <2>1 DEF ENOSPC
<1>7. CASE NumBlocks # MaxBlockCount /\ hits = {} /\ unused # {}
  <2>1. searchSB(name) = [code |-> 0, slot |-> Min(unused)]
    BY <1>7 DEF searchSB
  <2> HIDE DEF hits, unused
  <2>2. Min(unused) \in unused
    BY <1>1, <1>7, MinOfNats
  <2>3. \A s \in usedSlots : inodeOf(s).fileName # name
    BY <1>3, <1>7
  <2> QED
    BY <2>1, <2>2, <2>3 DEF ENOSPC, unused
<1> QED
  BY <1>4, <1>5, <1>6, <1>7

\* Under the careful client every used slot leads to an inode.
LEMMA SearchSBFound ==
  ASSUME NEW CONSTANT lost, NEW CONSTANT tidy, CarefulInv(lost, tidy), NEW name
  PROVE  LET found == searchSB(name)
         IN /\ found.code = 1 => /\ found.slot \in usedSlots
                                 /\ inodeOf(found.slot).fileName = name
            /\ found.code = 0 => /\ found.slot \in unusedSlots
                                 /\ \A s \in usedSlots : inodeOf(s).fileName # name
            /\ found.code = ENOSPC => NumBlocks = MaxBlockCount \/ unusedSlots = {}
            /\ found.code \in {0, 1, ENOSPC}
<1>1. \A s \in usedSlots : safeReadBlock(inodeIndices[s], {INODE_ID}) = 0
  BY SlotsLinked DEF safeReadBlock
<1> QED
  BY <1>1, SearchSBFinds

LEMMA CChangePermissions ==
  ASSUME NEW CONSTANT lost, NEW CONSTANT tidy,
         Inv, Inv', CarefulInv(lost, tidy), NEW CONSTANT name \in UserNames, NEW CONSTANT mode \in readFlag,
         ChangePermissions(name, mode)
  PROVE  CarefulInv(lost, tidy)' /\ \E s \in Slots : OnlyChanges({s})
<1> DEFINE fname  == formatName(name)
           found  == searchSB(fname)
           openFD == openFDs_searchByName(fname)
<1>1. idle
  BY DEF ChangePermissions, Ready
<1>2. CASE \E code : Fail(code)
  BY <1>1, <1>2, Refused, AtMostOne
<1>3. ASSUME NEW CONSTANT slot \in usedSlots, setReadMode(slot, mode), Return(0), UNCHANGED openFiles
      PROVE  CarefulInv(lost, tidy)' /\ \E s \in Slots : OnlyChanges({s})
  <2>1. CarefulInv(lost, tidy)' /\ OnlyChanges({slot})
    BY <1>1, <1>3, CSetReadMode DEF Return
  <2> QED
    BY <2>1 DEF usedSlots
<1>4. CASE /\ openUnder(fname) # {}
           /\ setReadMode(openFiles[openFD].inodeLinkIndex, mode)
           /\ Return(0)
           /\ UNCHANGED <<mounted, openList>>
  <2>1. /\ currentFD \in Nat /\ openUnder(fname) \in SUBSET (0..currentFD)
        /\ openUnder(fname) \subseteq DOMAIN openFiles
    BY DiskAssumption DEF Inv, TypeOK, OpenListOK, openUnder
  <2>2. openFD \in DOMAIN openFiles
    BY <1>4, <2>1, MaxOfBoundedNats DEF openFDs_searchByName
  <2> HIDE DEF openFD
  <2>3. PICK slot \in usedSlots : slot = openFiles[openFD].inodeLinkIndex
    BY <1>1, <2>2, OpenFilesLinked DEF idle
  <2> QED
    BY <1>3, <1>4, <2>3 DEF openList
<1>5. CASE /\ found.code = 1
           /\ setReadMode(found.slot, mode)
           /\ Return(0)
           /\ UNCHANGED <<mounted, openFiles>>
  <2> HIDE DEF fname
  <2>1. found.slot \in usedSlots
    BY <1>5, SearchSBFound
  <2>2. PICK slot \in usedSlots : slot = found.slot
    BY <2>1
  <2> QED
    BY <1>3, <1>5, <2>2
<1> QED
  BY <1>2, <1>4, <1>5 DEF ChangePermissions

\* One byte of one extent is written, and the extent stays where it is.
LEMMA ByteWritten ==
  ASSUME NEW CONSTANT lost, NEW CONSTANT tidy,
         Inv, Inv', CarefulInv(lost, tidy), idle, NEW CONSTANT b \in Blocks, disk[b].blockID = FILE_EXTENT_ID,
         NEW i \in 0..(DataPerBlock - 1), NEW byte \in Byte,
         disk' = [disk EXCEPT ![b].data[i] = byte],
         call' = NoCall, UNCHANGED <<inodeIndices, openFiles>>,
         NEW CONSTANT own \in [Blocks -> Slots], NEW CONSTANT pos \in [Blocks -> Nat],
         IsLayout(disk, inodeIndices, own, pos, lost, 0)
  PROVE  CarefulInv(lost, tidy)' /\ OnlyChanges({own[b]})
<1> DEFINE new == [disk[b] EXCEPT !.data[i] = byte]
<1>1. disk \in [Blocks -> Block] /\ disk[b] \in Block
  BY Types
<1>2. new.blockID = FILE_EXTENT_ID /\ new.nextBlock = disk[b].nextBlock
  BY <1>1, ChangedBlocks
<1>3. disk' = [disk EXCEPT ![b] = new]
  OBVIOUS
<1> HIDE DEF new
<1>4. disk'[b] = new /\ \A c \in Blocks : c # b => disk'[c] = disk[c]
  BY <1>1, <1>3
<1>5. \A s \in usedSlots : inodeIndices[s] \in Blocks /\ inodeIndices[s] # b
  BY SlotsLinked DEF INODE_ID, FILE_EXTENT_ID
<1>6. TableOK' /\ NamesOK'
  BY <1>4, <1>5, TableKept
<1> QED
  BY <1>2, <1>4, <1>6, OneBlockTouched DEF FILE_EXTENT_ID, FREE_ID, INODE_ID

\* tfs_writeByte writes one byte of the file it has reached.
LEMMA CWriteByte ==
  ASSUME NEW CONSTANT lost, NEW CONSTANT tidy,
         Inv, Inv', CarefulInv(lost, tidy), NEW CONSTANT fd \in FDs, NEW CONSTANT byte \in WriteBytes,
         WriteByte(fd, byte)
  PROVE  CarefulInv(lost, tidy)' /\ \E s \in Slots : OnlyChanges({s})
<1> DEFINE file  == openFiles[fd]
           err   == locateByte(file)
           block == extentAt(file.nextBlockIndex, file.location \div DataPerBlock)
           i     == file.location % DataPerBlock
<1>1. idle
  BY DEF WriteByte, Ready
<1>2. CASE \E code : Fail(code)
  BY <1>1, <1>2, Refused, AtMostOne
<1>3. CASE /\ isOpen(fd) /\ err = 0
           /\ disk' = [disk EXCEPT ![block].data[i] = byte]
           /\ Return(0)
           /\ UNCHANGED <<inodeIndices, mounted, openList>>
  <2>1. block \in Blocks /\ disk[block].blockID = FILE_EXTENT_ID
    BY <1>3, LocateByte
  <2>2. file.location \in Nat
    BY <1>3, OpenFileFields DEF isOpen
  <2>3. i \in 0..(DataPerBlock - 1) /\ byte \in Byte
    BY <2>2, Modulo, Inputs
  <2> HIDE DEF block, i, file, err
  <2>4. PICK b \in Blocks : b = block
    BY <2>1
  <2>5. call' = NoCall /\ UNCHANGED <<inodeIndices, openFiles>>
    BY <1>3 DEF Return, openList
  <2>6. PICK own \in [Blocks -> Slots], pos \in [Blocks -> Nat] :
          IsLayout(disk, inodeIndices, own, pos, lost, 0)
    BY <1>1, Settled DEF idle
  <2>7. CarefulInv(lost, tidy)' /\ OnlyChanges({own[b]})
    BY <1>1, <1>3, <2>1, <2>3, <2>4, <2>5, <2>6, ByteWritten
  <2> QED
    BY <2>7
<1> QED
  BY <1>2, <1>3 DEF WriteByte

-----------------------------------------------------------------------------
(* tfs_openFile                                                            *)

\* The links of all slots but some, and the blocks placed in them.
LinksKept(ix, ix2, S) == \A s \in Slots \ S : ix2[s] = ix[s]

BlocksKept(d, own, pos, F, tail, d2, own2, pos2, F2, tail2, S) ==
  /\ \A b \in placed(d, F) : own[b] \notin S => b # tail
  /\ \A c \in placed(d2, F2) : own2[c] \notin S =>
       /\ c \in placed(d, F) /\ own[c] = own2[c] /\ pos2[c] = pos[c]
       /\ d2[c] = d[c] /\ c # tail2

\* A step that changes no link and no block but those of the files in some slots
\* changes no other file.
LEMMA OthersKept ==
  ASSUME Inv, Inv',
         NEW CONSTANT own \in [Blocks -> Slots], NEW CONSTANT pos \in [Blocks -> Nat],
         NEW CONSTANT own2 \in [Blocks -> Slots], NEW CONSTANT pos2 \in [Blocks -> Nat],
         NEW CONSTANT F, NEW CONSTANT F2, NEW CONSTANT tail, NEW CONSTANT tail2,
         IsLayout(disk, inodeIndices, own, pos, F, tail),
         IsLayout(disk', inodeIndices', own2, pos2, F2, tail2),
         NEW CONSTANT S, LinksKept(inodeIndices, inodeIndices', S),
         BlocksKept(disk, own, pos, F, tail, disk', own2, pos2, F2, tail2, S)
  PROVE  OnlyChanges(S)
<1> SUFFICES ASSUME NEW CONSTANT s \in Slots \ S
             PROVE  fileIn(s)' = fileIn(s)
  BY DEF OnlyChanges
<1>1. Complete(disk, own, F, tail, s)
  BY DEF Complete, BlocksKept
<1>2. \A c \in placed(disk', F2) : own2[c] = s =>
        /\ c \in placed(disk, F) /\ own[c] = s /\ pos2[c] = pos[c]
        /\ disk'[c] = disk[c] /\ c # tail2
  BY DEF BlocksKept
<1>3. inodeIndices'[s] = inodeIndices[s]
  BY DEF LinksKept
<1> QED
  BY <1>1, <1>2, <1>3, OtherFile

\* A new entry of the open list whose inode is in a slot no other entry has.
LEMMA TableGrown ==
  ASSUME NEW CONSTANT lost, NEW CONSTANT tidy,
         Inv, CarefulInv(lost, tidy), call.pc # "freeInode", call'.pc # "freeInode",
         NEW size, NEW name, NEW slot \in usedSlots', NEW next,
         openFDs_add(size, name, slot, next), UNCHANGED disk,
         \A s \in usedSlots : inodeIndices'[s] = inodeIndices[s],
         \A fd \in DOMAIN openFiles : openFiles[fd].inodeLinkIndex # slot,
         disk[inodeIndices'[slot]].nextBlock = next,
         disk[inodeIndices'[slot]].fileSize = size,
         disk[inodeIndices'[slot]].fileName = name
  PROVE  TableOK'
<1>1. /\ DOMAIN openFiles' = DOMAIN openFiles \cup {currentFD}
      /\ currentFD \notin DOMAIN openFiles
      /\ \A fd \in DOMAIN openFiles : openFiles'[fd] = openFiles[fd]
      /\ openFiles'[currentFD] = [location |-> 0, inodeLinkIndex |-> slot, nextBlockIndex |-> next,
                                  fileSize |-> size, fileName |-> name]
  BY DiskAssumption DEF openFDs_add, Inv, TypeOK, OpenListOK
<1>2. ASSUME NEW fd \in DOMAIN openFiles
      PROVE  /\ openFiles[fd].inodeLinkIndex \in usedSlots
             /\ inodeIndices'[openFiles[fd].inodeLinkIndex] = inodeIndices[openFiles[fd].inodeLinkIndex]
             /\ openFiles[fd].inodeLinkIndex \in usedSlots'
             /\ disk[inodeIndices[openFiles[fd].inodeLinkIndex]].nextBlock = openFiles[fd].nextBlockIndex
             /\ disk[inodeIndices[openFiles[fd].inodeLinkIndex]].fileSize = openFiles[fd].fileSize
             /\ disk[inodeIndices[openFiles[fd].inodeLinkIndex]].fileName = openFiles[fd].fileName
  BY OpenFilesLinked DEF usedSlots
<1>3. \A fd1, fd2 \in DOMAIN openFiles :
        openFiles[fd1].inodeLinkIndex = openFiles[fd2].inodeLinkIndex => fd1 = fd2
  BY DEF CarefulInv, TableOK
<1>4. ASSUME NEW fd \in DOMAIN openFiles'
      PROVE  /\ openFiles'[fd].inodeLinkIndex \in usedSlots'
             /\ disk[inodeIndices'[openFiles'[fd].inodeLinkIndex]].nextBlock = openFiles'[fd].nextBlockIndex
             /\ disk[inodeIndices'[openFiles'[fd].inodeLinkIndex]].fileSize = openFiles'[fd].fileSize
             /\ disk[inodeIndices'[openFiles'[fd].inodeLinkIndex]].fileName = openFiles'[fd].fileName
  <2>1. CASE fd = currentFD
    BY <1>1, <2>1
  <2>2. CASE fd # currentFD
    BY <1>1, <1>2, <2>2
  <2> QED
    BY <2>1, <2>2
<1>5. ASSUME NEW fd1 \in DOMAIN openFiles', NEW fd2 \in DOMAIN openFiles',
             openFiles'[fd1].inodeLinkIndex = openFiles'[fd2].inodeLinkIndex
      PROVE  fd1 = fd2
  BY <1>1, <1>3, <1>5
<1> QED
  BY <1>4, <1>5 DEF TableOK, inodeOf

\* tfs_openFile of a file that exists adds an entry that agrees with its inode, and
\* of one that does not, writes an inode that floats until it is linked.
LEMMA COpenFile ==
  ASSUME NEW CONSTANT lost, NEW CONSTANT tidy,
         Inv, Inv', CarefulInv(lost, tidy), NEW CONSTANT name \in UserNames, OpenFile(name)
  PROVE  CarefulInv(lost, tidy)' /\ OnlyChanges({})
<1> DEFINE fname  == formatName(name)
           isNew  == openUnder(fname) = {}
           found  == searchSB(fname)
           target == findFreeBlock(disk, 0)
<1>1. idle /\ call.pc # "freeInode"
  BY DEF OpenFile, Ready, idle
<1>2. CASE \E code : Fail(code)
  BY <1>1, <1>2, Refused
<1>3. CASE /\ isNew /\ found.code = 1
           /\ openFDs_add(disk[inodeIndices[found.slot]].fileSize, fname, found.slot,
                          disk[inodeIndices[found.slot]].nextBlock)
           /\ Return(currentFD)
           /\ UNCHANGED <<diskVars, mounted>>
  <2>1. found.slot \in usedSlots /\ inodeOf(found.slot).fileName = fname
    BY <1>3, SearchSBFound
  <2>2. call' = NoCall /\ call'.pc # "freeInode" /\ disk' = disk /\ inodeIndices' = inodeIndices
    BY <1>3 DEF Return, NoCall, diskVars
  <2>3. \A fd \in DOMAIN openFiles : openFiles[fd].fileName # fname
    BY <1>3 DEF openUnder
  <2>4. \A fd \in DOMAIN openFiles : openFiles[fd].inodeLinkIndex # found.slot
    BY <1>1, <2>1, <2>3, OpenFilesLinked DEF inodeOf
  <2>5. TableOK'
    <3> HIDE DEF found, fname
    <3>1. found.slot \in usedSlots'
      BY <2>1, <2>2 DEF usedSlots
    <3> QED
      BY <1>1, <1>3, <2>1, <2>2, <2>4, <3>1, TableGrown DEF inodeOf
  <2>6. NamesOK'
    BY <2>2 DEF CarefulInv, NamesOK, usedSlots, inodeOf
  <2>7. PICK own \in [Blocks -> Slots], pos \in [Blocks -> Nat] :
          IsLayout(disk, inodeIndices, own, pos, lost, 0)
    BY <1>1, Settled DEF idle
  <2>8. IsLayout(disk', inodeIndices', own, pos, lost, 0)
    BY <2>2, <2>7
  <2>9. lost \subseteq Blocks \ freeBlocks'
    BY <2>2, StillLost
  <2> QED
    BY <1>3, <2>2, <2>5, <2>6, <2>8, <2>9, Ended, NoFileChanged
<1>4. CASE /\ isNew /\ found.code = 0 /\ target > 0
           /\ disk' = [disk EXCEPT ![target] = inodeBlock(fname, 0, noBlockLink, readAndWrite)]
           /\ Begin([NoCall EXCEPT !.op = "openFile", !.pc = "linkInode", !.cur = target,
                                   !.slot = found.slot, !.name = fname])
           /\ UNCHANGED <<inodeIndices, mounted, openList>>
  <2>1. target \in Blocks /\ disk[target].blockID = FREE_ID
    BY <1>4, FindFreeBlock, ErrorCodes
  <2>2. found.slot \in unusedSlots /\ \A s \in usedSlots : inodeOf(s).fileName # fname
    BY <1>4, SearchSBFound
  <2> HIDE DEF fname, found, target
  <2>3. PICK c \in Blocks : c = target
    BY <2>1
  <2>4. /\ call'.op = "openFile" /\ call'.pc = "linkInode" /\ call'.cur = c
        /\ call'.slot = found.slot /\ call'.name = fname
    BY <1>4, <2>3 DEF Begin, NoCall
  <2>5. disk \in [Blocks -> Block]
    BY Types
  <2>6. disk'[c] = inodeBlock(fname, 0, noBlockLink, readAndWrite)
        /\ \A b \in Blocks : b # c => disk'[b] = disk[b]
    BY <1>4, <2>3, <2>5
  <2>7. /\ disk'[c].blockID = INODE_ID /\ disk'[c].fileSize = 0
        /\ disk'[c].nextBlock = noBlockLink /\ disk'[c].fileName = fname
        /\ disk'[c].readMode = readAndWrite
    BY <2>6 DEF inodeBlock
  <2>8. inodeIndices' = inodeIndices /\ openFiles' = openFiles /\ usedSlots' = usedSlots
    BY <1>4 DEF usedSlots, openList
  <2>9. \A s \in usedSlots : inodeIndices[s] # c /\ inodeIndices[s] \in Blocks
    BY <2>1, <2>3, SlotsLinked DEF FREE_ID, INODE_ID
  <2>10. \A s \in usedSlots : disk'[inodeIndices[s]] = disk[inodeIndices[s]]
    BY <2>6, <2>9
  <2>11. TableOK' /\ NamesOK'
    <3>1. TableOK'
      BY <1>1, <2>4, <2>8, <2>10 DEF CarefulInv, TableOK, inodeOf
    <3>2. NamesOK'
      BY <2>8, <2>10 DEF CarefulInv, NamesOK, inodeOf
    <3> QED
      BY <3>1, <3>2
  <2>12. PICK own \in [Blocks -> Slots], pos \in [Blocks -> Nat] :
           IsLayout(disk, inodeIndices, own, pos, lost, 0)
    BY <1>1, Settled DEF idle
  <2>13. placed(disk', lost \cup {c}) = placed(disk, lost)
    BY <2>1, <2>3, <2>6 DEF placed
  <2>14. \A b \in placed(disk, lost) : b \in Blocks /\ b # c /\ disk'[b] = disk[b] /\ b # 0
    BY <2>1, <2>3, <2>6, DiskAssumption DEF placed, Blocks
  <2>15. IsLayout(disk', inodeIndices', own, pos, lost \cup {c}, 0)
    BY <2>8, <2>12, <2>13, <2>14, SameLayout
  <2>16. OnlyChanges({})
    <3>1. LinksKept(inodeIndices, inodeIndices', {})
      BY <2>8 DEF LinksKept
    <3>2. BlocksKept(disk, own, pos, lost, 0, disk', own, pos, lost \cup {c}, 0, {})
      BY <2>13, <2>14 DEF BlocksKept
    <3> QED
      BY <2>12, <2>15, <3>1, <3>2, OthersKept
  <2>17. floating' = {c} /\ afloat(lost)' = lost \cup {c}
    BY <2>4 DEF floating, afloat
  <2>18. Linking'
    BY <2>2, <2>4, <2>7, <2>8, <2>10 DEF Linking, inodeOf, unusedSlots, usedSlots
  <2>19. PhaseOK'
    BY <2>4 DEF PhaseOK, phases, idle
  <2>20. Erasing(lost, own, pos, 0)' /\ Writing(lost, own, pos, 0)' /\ Moving(lost, tidy, own, pos)' /\ 0 \in BlockLink
    BY <2>4, DiskAssumption DEF Erasing, Writing, Moving, BlockLink
  <2>21. LayoutOK(lost, tidy)'
    BY <2>15, <2>17, <2>20 DEF LayoutOK, noBlockLink
  <2>22. LostOK(lost)'
    <3>1. c \notin lost /\ lost \subseteq Blocks
      BY <2>1, <2>3, FreeNotLost DEF CarefulInv, LostOK
    <3>2. lost \subseteq Blocks \ freeBlocks'
      BY <2>6, <3>1, StillLost
    <3> QED
      BY <2>17, <3>1, <3>2 DEF LostOK
  <2> QED
    BY <2>11, <2>16, <2>18, <2>19, <2>21, <2>22 DEF CarefulInv
<1> QED
  BY <1>2, <1>3, <1>4 DEF OpenFile

\* The new inode gets the unused slot that the search found, under a name no file has.
LEMMA CLinkInode ==
  ASSUME NEW CONSTANT lost, NEW CONSTANT tidy, Inv, Inv', CarefulInv(lost, tidy), LinkInode
  PROVE  /\ CarefulInv(lost, tidy)'
         /\ \E s \in Slots : s = call.slot /\ OnlyChanges({s})
<1>1. call.pc = "linkInode" /\ call.cur \in Blocks /\ call.slot \in Slots /\ floating = {call.cur} /\ afloat(lost) = lost \cup {call.cur}
  BY DEF LinkInode, Inv, TypeOK, LocalsOK, floating, afloat
<1>2. PICK c \in Blocks, s \in Slots : c = call.cur /\ s = call.slot
  BY <1>1
<1>3. /\ disk[c].blockID = INODE_ID /\ disk[c].fileSize = 0 /\ disk[c].nextBlock = noBlockLink
      /\ disk[c].fileName = call.name /\ inodeIndices[s] = noBlockLink
      /\ \A t \in usedSlots : inodeOf(t).fileName # call.name
  BY <1>1, <1>2 DEF CarefulInv, Linking
<1>4. /\ inodeIndices' = [inodeIndices EXCEPT ![s] = c] /\ disk' = disk
      /\ openFDs_add(0, call.name, s, noBlockLink)
      /\ call' = NoCall
  BY <1>2 DEF LinkInode, Return
<1>5. inodeIndices \in [Slots -> BlockLink] /\ disk \in [Blocks -> Block] /\ c # noBlockLink
  BY Types, DiskAssumption DEF Blocks, noBlockLink
<1>6. /\ usedSlots' = usedSlots \cup {s} /\ inodeIndices'[s] = c /\ s \notin usedSlots
      /\ \A t \in usedSlots : inodeIndices'[t] = inodeIndices[t]
      /\ \A t \in Slots \ {s} : inodeIndices'[t] = inodeIndices[t]
  BY <1>3, <1>4, <1>5 DEF usedSlots
<1>7. \A fd \in DOMAIN openFiles : openFiles[fd].inodeLinkIndex \in usedSlots
  BY <1>1, OpenFilesLinked
<1>8. TableOK'
  <2>1. call'.pc # "freeInode" /\ call.pc # "freeInode" /\ s \in usedSlots'
    BY <1>1, <1>4, <1>6 DEF NoCall
  <2>2. \A fd \in DOMAIN openFiles : openFiles[fd].inodeLinkIndex # s
    BY <1>6, <1>7
  <2> QED
    BY <1>3, <1>4, <1>6, <2>1, <2>2, TableGrown
<1>9. NamesOK'
  <2> SUFFICES ASSUME "reuseName" \notin Habits PROVE NamesOK'
    BY DEF NamesOK
  <2>1. \A t, u \in usedSlots : disk[inodeIndices[t]].fileName = disk[inodeIndices[u]].fileName => t = u
    BY DEF CarefulInv, NamesOK, inodeOf
  <2>2. \A t \in usedSlots : disk[inodeIndices[t]].fileName # disk[c].fileName
    BY <1>3 DEF inodeOf
  <2> QED
    BY <1>4, <1>6, <2>1, <2>2 DEF NamesOK, inodeOf
<1>10. PICK own \in [Blocks -> Slots], pos \in [Blocks -> Nat] :
         IsLayout(disk, inodeIndices, own, pos, lost \cup {c}, 0)
  BY <1>1, <1>2 DEF CarefulInv, LayoutOK, noBlockLink
<1>11. PICK own2 \in [Blocks -> Slots], pos2 \in [Blocks -> Nat] :
         own2 = [own EXCEPT ![c] = s] /\ pos2 = [pos EXCEPT ![c] = 0]
  OBVIOUS
<1>12. IsLayout(disk', inodeIndices', own2, pos2, lost, 0)
  <2>1. c \notin lost
    BY <1>1, <1>2 DEF CarefulInv, LostOK
  <2> QED
    BY <1>3, <1>4, <1>5, <1>10, <1>11, <2>1, InodeLinked, BlocksFor
<1>13. CarefulInv(lost, tidy)'
  BY <1>4, <1>8, <1>9, <1>12, Ended, StillLost
<1>14. OnlyChanges({s})
  <2>1. \A b \in placed(disk, lost \cup {c}) : b # 0
    BY DiskAssumption DEF placed, Blocks
  <2>2. BlocksKept(disk, own, pos, lost \cup {c}, 0, disk', own2, pos2, lost, 0, {s})
    BY <1>4, <1>11, <2>1 DEF BlocksKept, placed
  <2>3. LinksKept(inodeIndices, inodeIndices', {s})
    BY <1>6 DEF LinksKept
  <2> QED
    BY <1>10, <1>12, <2>2, <2>3, OthersKept
<1> QED
  BY <1>2, <1>13, <1>14

-----------------------------------------------------------------------------
(* tfs_writeFile and tfs_deleteFile                                        *)

\* The blocks of a file whose inode is not the tail.
LEMMA FirstExtent ==
  ASSUME NEW d \in [Blocks -> Block], NEW ix \in [Slots -> BlockLink],
         NEW own \in [Blocks -> Slots], NEW pos \in [Blocks -> Nat], NEW F,
         IsLayout(d, ix, own, pos, F, 0),
         NEW s \in Slots, ix[s] # noBlockLink
  PROVE  LET first == d[ix[s]].nextBlock
         IN /\ first = noBlockLink <=> extents(d, ix, s) = 0
            /\ first # noBlockLink => first \in placed(d, F) /\ own[first] = s /\ pos[first] = 1
            /\ \A b \in placed(d, F) : (own[b] = s /\ pos[b] # 0) => first # noBlockLink /\ 1 <= pos[b]
<1>1. ix[s] \in placed(d, F) /\ own[ix[s]] = s /\ pos[ix[s]] = 0
  BY InodesPlaced
<1>2. \A b \in placed(d, F) : b \in Blocks /\ b # 0
  BY DiskAssumption DEF placed, Blocks
<1>3. LET first == d[ix[s]].nextBlock
      IN IF extents(d, ix, s) = 0 THEN first = noBlockLink
         ELSE first \in placed(d, F) /\ own[first] = s /\ pos[first] = 1
  BY <1>1, <1>2 DEF IsLayout, Linked
<1>4. \A b \in placed(d, F) : (own[b] = s /\ pos[b] # 0) => extents(d, ix, s) # 0 /\ 1 <= pos[b]
  <2> SUFFICES ASSUME NEW b \in placed(d, F), own[b] = s, pos[b] # 0
               PROVE  extents(d, ix, s) # 0 /\ 1 <= pos[b]
    OBVIOUS
  <2>1. pos[b] \in 0..extents(d, ix, s) /\ extents(d, ix, s) \in Nat
    BY ExtentsNat DEF IsLayout, Placed
  <2> QED
    BY <2>1
<1> QED
  BY <1>2, <1>3, <1>4 DEF noBlockLink

\* tfs_writeFile and tfs_deleteFile begin at the first extent the open list has cached,
\* which is the one the inode leads to.
LEMMA EraseBegins ==
  ASSUME NEW CONSTANT lost, NEW CONSTANT tidy,
         Inv, CarefulInv(lost, tidy), idle, NEW CONSTANT fd, isOpen(fd),
         UNCHANGED <<diskVars, openFiles>>,
         call'.pc = "eraseFileData", call'.op \in {"writeFile", "deleteFile"}, call'.fd = fd,
         call'.cur = openFiles[fd].nextBlockIndex,
         call'.op = "writeFile" => call'.buf # <<>> /\ fits(fd, call'.buf)
  PROVE  CarefulInv(lost, tidy)' /\ OnlyChanges({})
<1>1. disk' = disk /\ inodeIndices' = inodeIndices /\ openFiles' = openFiles
      /\ freeBlocks' = freeBlocks /\ usedSlots' = usedSlots
  BY NoFileChanged DEF diskVars
<1>2. PICK s \in Slots : s = openFiles[fd].inodeLinkIndex
  BY OpenFilesLinked DEF isOpen, idle
<1>3. /\ inodeIndices[s] # noBlockLink /\ inodeIndices[s] \in Blocks
      /\ disk[inodeIndices[s]].nextBlock = openFiles[fd].nextBlockIndex
      /\ disk[inodeIndices[s]].fileSize = openFiles[fd].fileSize
  BY <1>2, OpenFilesLinked DEF isOpen, idle
<1>4. PICK own \in [Blocks -> Slots], pos \in [Blocks -> Nat] :
        IsLayout(disk, inodeIndices, own, pos, lost, 0)
  BY Settled DEF idle
<1>5. disk \in [Blocks -> Block] /\ inodeIndices \in [Slots -> BlockLink]
  BY Types
<1>6. PICK tail \in BlockLink : tail = inodeIndices[s]
  BY <1>5
<1>7. IsLayout(disk', inodeIndices', own, pos, lost, tail)
  <2>1. \A b \in placed(disk, lost) : b # 0
    BY DiskAssumption DEF placed, Blocks
  <2>2. Linked(disk, inodeIndices, own, pos, lost, tail)
    BY <1>4, <2>1 DEF IsLayout, Linked
  <2> QED
    BY <1>1, <1>4, <2>2 DEF IsLayout
<1>8. busySlot' = s
  BY <1>1, <1>2 DEF busySlot
<1>9. LET first == disk[inodeIndices[s]].nextBlock
      IN /\ first = noBlockLink <=> extents(disk, inodeIndices, s) = 0
         /\ first # noBlockLink => first \in placed(disk, lost) /\ own[first] = s /\ pos[first] = 1
         /\ \A b \in placed(disk, lost) : (own[b] = s /\ pos[b] # 0) => first # noBlockLink /\ 1 <= pos[b]
  BY <1>3, <1>4, <1>5, FirstExtent
<1>10. extents(disk, inodeIndices, s) \in Nat
       /\ extents(disk, inodeIndices, s) = blocksFor(openFiles[fd].fileSize)
  BY <1>3, <1>4, <1>5, ExtentsNat DEF extents
<1>11. toErase(pos)' = extents(disk, inodeIndices, s)
  <2>1. toErase(pos)' = IF call'.cur = noBlockLink THEN 0
                        ELSE extents(disk, inodeIndices, s) - pos[call'.cur] + 1
    BY <1>1, <1>8 DEF toErase
  <2> QED
    BY <1>3, <1>9, <1>10, <2>1
<1>12. call'.op = "writeFile" =>
         /\ call'.buf # <<>>
         /\ \/ toWrite' <= Cardinality(freeBlocks') + toErase(pos)'
            \/ /\ freeBlocks' = {} /\ call'.cur = noBlockLink
               /\ inodeOf(s)'.fileSize = 0 /\ inodeOf(s)'.nextBlock = noBlockLink
  <2> SUFFICES ASSUME call'.op = "writeFile"
               PROVE  \/ toWrite' <= Cardinality(freeBlocks') + toErase(pos)'
                      \/ /\ freeBlocks' = {} /\ call'.cur = noBlockLink
                         /\ inodeOf(s)'.fileSize = 0 /\ inodeOf(s)'.nextBlock = noBlockLink
    OBVIOUS
  <2>1. CASE blocksFor(Len(call'.buf)) <= Cardinality(freeBlocks) + blocksFor(openFiles[fd].fileSize)
    BY <1>1, <1>10, <1>11, <2>1 DEF toWrite
  <2>2. CASE freeBlocks = {} /\ openFiles[fd].fileSize = 0
    <3>1. extents(disk, inodeIndices, s) = 0
      BY <1>10, <2>2, BlocksFor
    <3> QED
      BY <1>1, <1>3, <1>9, <2>2, <3>1 DEF inodeOf
  <2> QED
    BY <2>1, <2>2 DEF fits
<1>13. Erasing(lost, own, pos, tail)'
  <2>1. call'.cur # noBlockLink => call'.cur \in placed(disk', lost) /\ own[call'.cur] = s /\ pos[call'.cur] # 0
    BY <1>1, <1>3, <1>9
  <2>2. \A b \in placed(disk', lost) :
          (own[b] = s /\ pos[b] # 0) => call'.cur # noBlockLink /\ pos[call'.cur] <= pos[b]
    BY <1>1, <1>3, <1>9
  <2>3. inodeOf(s)'.nextBlock = call'.cur
    BY <1>1, <1>3 DEF inodeOf
  <2>4. call'.cur # noBlockLink => (pos[call'.cur] = 1 => inodeOf(s)'.nextBlock = call'.cur)
    BY <2>3
  <2> QED
    BY <1>1, <1>6, <1>8, <1>12, <2>1, <2>2, <2>3, <2>4 DEF Erasing
<1>14. TableOK' /\ NamesOK'
  <2>1. TableOK'
    BY <1>1 DEF CarefulInv, TableOK, inodeOf, idle
  <2>2. NamesOK'
    BY <1>1 DEF CarefulInv, NamesOK, inodeOf
  <2> QED
    BY <2>1, <2>2
<1>15. floating' = {} /\ afloat(lost)' = lost /\ Linking' /\ Writing(lost, own, pos, tail)' /\ Moving(lost, tidy, own, pos)'
  BY DEF floating, afloat, Linking, Writing, Moving
<1>16. PhaseOK'
  BY DEF PhaseOK, phases, idle
<1>17. LayoutOK(lost, tidy)'
  BY <1>7, <1>13, <1>15 DEF LayoutOK
<1>18. LostOK(lost)'
  BY <1>1, <1>15 DEF CarefulInv, LostOK
<1> QED
  BY <1>14, <1>15, <1>16, <1>17, <1>18, NoFileChanged DEF CarefulInv, diskVars

LEMMA CWriteFile ==
  ASSUME NEW CONSTANT lost, NEW CONSTANT tidy,
         Inv, CarefulInv(lost, tidy), NEW CONSTANT fd \in FDs, NEW CONSTANT buffer \in Buffers,
         WriteFile(fd, buffer), buffer # <<>>, fits(fd, buffer)
  PROVE  CarefulInv(lost, tidy)' /\ OnlyChanges({})
<1>1. idle
  BY DEF WriteFile, Ready
<1>2. CASE \E code : Fail(code)
  BY <1>1, <1>2, Refused
<1>3. CASE /\ isOpen(fd)
           /\ Begin([NoCall EXCEPT !.op = "writeFile", !.pc = "eraseFileData", !.fd = fd,
                                   !.buf = buffer, !.cur = openFiles[fd].nextBlockIndex])
           /\ UNCHANGED <<diskVars, mounted, openList>>
  <2>1. /\ call'.op = "writeFile" /\ call'.pc = "eraseFileData" /\ call'.fd = fd
        /\ call'.buf = buffer /\ call'.cur = openFiles[fd].nextBlockIndex
    BY <1>3 DEF Begin, NoCall
  <2> QED
    BY <1>1, <1>3, <2>1, EraseBegins DEF openList
<1> QED
  BY <1>2, <1>3 DEF WriteFile

LEMMA CDeleteFile ==
  ASSUME NEW CONSTANT lost, NEW CONSTANT tidy,
         Inv, CarefulInv(lost, tidy), NEW CONSTANT fd \in FDs, DeleteFile(fd)
  PROVE  CarefulInv(lost, tidy)' /\ OnlyChanges({})
<1>1. idle
  BY DEF DeleteFile, Ready
<1>2. CASE \E code : Fail(code)
  BY <1>1, <1>2, Refused
<1>3. CASE /\ isOpen(fd)
           /\ Begin([NoCall EXCEPT !.op = "deleteFile", !.pc = "eraseFileData", !.fd = fd,
                                   !.cur = openFiles[fd].nextBlockIndex])
           /\ UNCHANGED <<diskVars, mounted, openList>>
  <2>1. /\ call'.op = "deleteFile" /\ call'.pc = "eraseFileData" /\ call'.fd = fd
        /\ call'.cur = openFiles[fd].nextBlockIndex
    BY <1>3 DEF Begin, NoCall
  <2> QED
    BY <1>1, <1>3, <2>1, EraseBegins DEF openList
<1> QED
  BY <1>2, <1>3 DEF DeleteFile

\* Which call a step belongs to.
LEMMA OpOfPhase ==
  ASSUME Inv, PhaseOK
  PROVE  /\ call.pc = "eraseFileData" => call.op \in {"writeFile", "deleteFile"}
         /\ call.pc = "writeBlocks" => call.op = "writeFile"
         /\ call.pc = "freeInode" => call.op = "deleteFile"
         /\ call.pc \in {"defragInode", "swapInodeLink", "freeOldInode", "iterateFEs",
                         "swapExtentLink", "freeOldExtent"} <=> call.op = "defrag"
         /\ call.pc \in {"idle", "linkInode", "eraseFileData", "writeBlocks", "freeInode", "display",
                         "defragInode", "swapInodeLink", "freeOldInode", "iterateFEs",
                         "swapExtentLink", "freeOldExtent"}
BY Types DEF PhaseOK, phases, Locals

\* The free blocks are finitely many.
LEMMA FreeFinite ==
  /\ IsFiniteSet(freeBlocks) /\ Cardinality(freeBlocks) \in Nat
  /\ \A c \in freeBlocks : Cardinality(freeBlocks \ {c}) = Cardinality(freeBlocks) - 1
  /\ \A c : c \notin freeBlocks => Cardinality(freeBlocks \cup {c}) = Cardinality(freeBlocks) + 1
<1>1. IsFiniteSet(Blocks)
  BY DiskAssumption, FS_Interval DEF Blocks
<1>2. freeBlocks \subseteq Blocks
  BY DEF freeBlocks
<1>3. IsFiniteSet(freeBlocks)
  BY <1>1, <1>2, FS_Subset
<1> QED
  BY <1>3, FS_CardinalityType, FS_AddElement, FS_RemoveElement

\* A step of a call that writes no inode.
LEMMA InodesKept ==
  ASSUME NEW CONSTANT lost, NEW CONSTANT tidy, CarefulInv(lost, tidy), call.pc # "freeInode",
         UNCHANGED <<inodeIndices, openFiles>>,
         \A s \in usedSlots : disk'[inodeIndices[s]] = disk[inodeIndices[s]]
  PROVE  TableOK' /\ NamesOK'
<1>1. usedSlots' = usedSlots
  BY DEF usedSlots
<1>2. TableOK'
  BY <1>1 DEF CarefulInv, TableOK, inodeOf
<1>3. NamesOK'
  BY <1>1 DEF CarefulInv, NamesOK, inodeOf
<1> QED
  BY <1>2, <1>3

\* The file tfs_writeFile or tfs_deleteFile is busy with.
LEMMA BusyFile ==
  ASSUME NEW CONSTANT lost, NEW CONSTANT tidy,
         Inv, CarefulInv(lost, tidy), call.pc \in {"eraseFileData", "writeBlocks"}
  PROVE  /\ call.fd \in DOMAIN openFiles /\ openFiles[call.fd] \in TinyOpenFile
         /\ busySlot \in usedSlots /\ busySlot \in Slots
         /\ inodeIndices[busySlot] \in Blocks /\ inodeIndices[busySlot] # noBlockLink
         /\ disk[inodeIndices[busySlot]].blockID = INODE_ID
         /\ floating = {} /\ afloat(lost) = lost
<1>1. call.fd \in DOMAIN openFiles
  BY DEF Inv, TypeOK, LocalsOK, isOpen
<1>2. floating = {} /\ afloat(lost) = lost
  BY DEF floating, afloat
<1> QED
  BY <1>1, <1>2, OpenFilesLinked, Types DEF busySlot

\* The extent freed is the first one left, so no other file loses a block.
LEMMA CEraseBlock ==
  ASSUME NEW CONSTANT lost, NEW CONSTANT tidy, Inv, Inv', CarefulInv(lost, tidy), EraseBlock
  PROVE  CarefulInv(lost, tidy)' /\ OnlyChanges({busySlot})
<1>1. call.pc = "eraseFileData" /\ call.cur # noBlockLink
  BY DEF EraseBlock
<1>2. PICK s \in Slots : s = busySlot
  BY <1>1, BusyFile
<1>3. /\ s \in usedSlots /\ inodeIndices[s] \in Blocks /\ inodeIndices[s] # noBlockLink
      /\ call.fd \in DOMAIN openFiles /\ floating = {} /\ afloat(lost) = lost
  BY <1>1, <1>2, BusyFile
<1>4. PICK own \in [Blocks -> Slots], pos \in [Blocks -> Nat], tail \in BlockLink :
        /\ IsLayout(disk, inodeIndices, own, pos, lost, tail)
        /\ Erasing(lost, own, pos, tail)
  BY <1>3 DEF CarefulInv, LayoutOK
<1>5. /\ tail = inodeIndices[s]
      /\ call.cur \in placed(disk, lost) /\ own[call.cur] = s /\ pos[call.cur] # 0
      /\ \A b \in placed(disk, lost) : (own[b] = s /\ pos[b] # 0) => pos[call.cur] <= pos[b]
  BY <1>1, <1>2, <1>4 DEF Erasing
<1>6. PICK c \in Blocks : c = call.cur
  BY <1>5 DEF placed
<1>7. disk \in [Blocks -> Block] /\ inodeIndices \in [Slots -> BlockLink] /\ call \in Locals
  BY Types
<1> DEFINE next == disk[c].nextBlock
           K    == extents(disk, inodeIndices, s)
<1>8. /\ disk' = [disk EXCEPT ![c] = freeBlock]
      /\ inodeIndices' = inodeIndices /\ openFiles' = openFiles
      /\ call' = [call EXCEPT !.cur = next]
  BY <1>6 DEF EraseBlock, openList
<1>9. /\ call'.cur = next /\ call'.pc = "eraseFileData" /\ call'.op = call.op
      /\ call'.fd = call.fd /\ call'.buf = call.buf
  BY <1>1, <1>7, <1>8 DEF Locals
<1>10. /\ c \in placed(disk, lost) /\ own[c] = s /\ pos[c] # 0 /\ pos[c] \in Nat
       /\ \A b \in placed(disk, lost) : (own[b] = s /\ pos[b] # 0) => pos[c] <= pos[b]
  BY <1>5, <1>6
<1>11. /\ placed(disk', lost) = placed(disk, lost) \ {c}
       /\ IsLayout(disk', inodeIndices', own, pos, lost, tail)
  <2>1. IsLayout(disk, inodeIndices, own, pos, lost, inodeIndices[own[c]])
    BY <1>4, <1>5, <1>10
  <2>2. \A b \in placed(disk, lost) : (own[b] = own[c] /\ pos[b] # 0) => pos[c] <= pos[b]
    BY <1>10
  <2>3. /\ placed([disk EXCEPT ![c] = freeBlock], lost) = placed(disk, lost) \ {c}
        /\ IsLayout([disk EXCEPT ![c] = freeBlock], inodeIndices, own, pos, lost, inodeIndices[own[c]])
    BY <1>7, <1>10, <2>1, <2>2, ExtentErased
  <2> QED
    BY <1>5, <1>8, <1>10, <2>3
<1>12. \A t \in usedSlots : /\ inodeIndices[t] \in Blocks /\ inodeIndices[t] # c
                            /\ own[inodeIndices[t]] = t /\ pos[inodeIndices[t]] = 0
  <2>1. \A t \in usedSlots : t \in Slots /\ inodeIndices[t] # noBlockLink
    BY DEF usedSlots
  <2>2. \A t \in usedSlots : inodeIndices[t] \in placed(disk, lost)
                             /\ own[inodeIndices[t]] = t /\ pos[inodeIndices[t]] = 0
    BY <1>4, <2>1, InodesPlaced
  <2> QED
    BY <1>10, <2>2 DEF placed
<1>13. disk'[c] = freeBlock /\ \A b \in Blocks : b # c => disk'[b] = disk[b]
  BY <1>7, <1>8
<1>14. c # tail /\ own[tail] = s
  BY <1>3, <1>5, <1>12
<1>15. K \in Nat
  BY <1>3, <1>4, <1>7, ExtentsNat
<1>16. /\ pos[c] <= K
       /\ IF pos[c] = K THEN next = noBlockLink
          ELSE next \in placed(disk, lost) /\ own[next] = s /\ pos[next] = pos[c] + 1
  <2>1. pos[c] \in 0..K
    BY <1>4, <1>10 DEF IsLayout, Placed
  <2>2. IF pos[c] = K THEN next = noBlockLink
        ELSE next \in placed(disk, lost) /\ own[next] = s /\ pos[next] = pos[c] + 1
    BY <1>4, <1>10, <1>14 DEF IsLayout, Linked
  <2> QED
    BY <1>15, <2>1, <2>2
<1>17. \A b \in placed(disk, lost) : b # noBlockLink
  BY DiskAssumption DEF placed, Blocks, noBlockLink
<1>18. busySlot' = s
  BY <1>2, <1>8, <1>9 DEF busySlot
<1>19. extents(disk, inodeIndices, s)' = K
  BY <1>3, <1>8, <1>12, <1>13 DEF extents
<1>20. freeBlocks' = freeBlocks \cup {c} /\ c \notin freeBlocks
  <2>1. disk[c].blockID # FREE_ID
    BY <1>10 DEF placed
  <2> QED
    BY <1>13, <2>1 DEF freeBlocks, freeBlock
<1>21. Cardinality(freeBlocks') = Cardinality(freeBlocks) + 1 /\ Cardinality(freeBlocks) \in Nat
  BY <1>20, FreeFinite
<1>22. toErase(pos) = toErase(pos)' + 1
  <2>1. toErase(pos) = K - pos[c] + 1
    BY <1>1, <1>2, <1>6 DEF toErase
  <2>2. toErase(pos)' = IF next = noBlockLink THEN 0 ELSE K - pos[next] + 1
    BY <1>8, <1>9, <1>18, <1>19 DEF toErase
  <2> HIDE DEF K, next
  <2>3. CASE pos[c] = K
    BY <1>10, <1>15, <1>16, <2>1, <2>2, <2>3
  <2>4. CASE pos[c] # K
    BY <1>10, <1>15, <1>16, <1>17, <2>1, <2>2, <2>4
  <2> QED
    BY <2>3, <2>4
<1> HIDE DEF K, next
<1>23. toErase(pos)' \in Int
  <2>1. toErase(pos) \in Int
    BY <1>1, <1>2, <1>6, <1>10, <1>15 DEF toErase, K
  <2>2. toErase(pos)' \in Int
    BY <1>9, <1>10, <1>15, <1>16, <1>18, <1>19 DEF toErase
  <2> QED
    BY <2>2
<1>24. call.op = "writeFile" =>
         call.buf # <<>> /\ toWrite' <= Cardinality(freeBlocks') + toErase(pos)'
  <2> SUFFICES ASSUME call.op = "writeFile"
               PROVE  call.buf # <<>> /\ toWrite' <= Cardinality(freeBlocks') + toErase(pos)'
    OBVIOUS
  <2>1. call.buf # <<>> /\ toWrite <= Cardinality(freeBlocks) + toErase(pos)
    BY <1>1, <1>4 DEF Erasing
  <2>2. toWrite' = toWrite
    BY <1>9 DEF toWrite
  <2>3. toWrite \in Nat
    <3>1. Len(call.buf) \in Nat
      BY <1>7 DEF Locals
    <3> QED
      BY <3>1, BlocksFor DEF toWrite
  <2> QED
    BY <1>21, <1>22, <1>23, <2>1, <2>2, <2>3
<1>25. Erasing(lost, own, pos, tail)'
  <2>1. next # noBlockLink => next \in placed(disk', lost) /\ own[next] = s /\ pos[next] # 0
    BY <1>10, <1>11, <1>16
  <2>2. ASSUME NEW b \in placed(disk', lost), own[b] = s, pos[b] # 0
        PROVE  next # noBlockLink /\ pos[next] <= pos[b]
    <3>1. b \in placed(disk, lost) /\ b # c /\ pos[b] \in Nat
      BY <1>11 DEF placed
    <3>2. pos[b] \in 0..K
      BY <1>4, <2>2, <3>1 DEF IsLayout, Placed, K
    <3>3. pos[b] # pos[c]
      BY <1>4, <1>10, <2>2, <3>1 DEF IsLayout, Apart
    <3>4. pos[c] <= pos[b]
      BY <1>10, <2>2, <3>1
    <3>5. pos[c] # K /\ pos[c] + 1 <= pos[b]
      BY <1>10, <1>15, <3>1, <3>2, <3>3, <3>4
    <3> QED
      BY <1>16, <1>17, <3>5
  <2>3. inodeOf(s)'.nextBlock \in freeBlocks' \cup {next}
    <3>1. inodeOf(s)' = inodeOf(s)
      BY <1>3, <1>8, <1>12, <1>13 DEF inodeOf
    <3>2. inodeOf(s).nextBlock \in freeBlocks \cup {c}
      BY <1>1, <1>2, <1>4, <1>6 DEF Erasing
    <3> QED
      BY <1>20, <3>1, <3>2
  <2>4. next # noBlockLink => pos[next] # 1
    BY <1>10, <1>16
  <2> QED
    BY <1>5, <1>8, <1>9, <1>18, <1>24, <2>1, <2>2, <2>3, <2>4 DEF Erasing
<1>26. TableOK' /\ NamesOK'
  BY <1>1, <1>8, <1>12, <1>13, InodesKept
<1>27. floating' = {} /\ afloat(lost)' = lost /\ Linking' /\ Writing(lost, own, pos, tail)'
  BY <1>9 DEF floating, afloat, Linking, Writing
<1>28. call.op # "defrag" /\ call.op # "none" /\ call.pc \in phases[call.op]
  BY <1>1, OpOfPhase DEF CarefulInv, PhaseOK, phases
<1>29. PhaseOK' /\ Moving(lost, tidy, own, pos)'
  BY <1>1, <1>9, <1>28 DEF PhaseOK, Moving, idle
<1>30. LayoutOK(lost, tidy)'
  BY <1>9, <1>11, <1>25, <1>27, <1>29 DEF LayoutOK
<1>31. OnlyChanges({s})
  <2>1. LinksKept(inodeIndices, inodeIndices', {s})
    BY <1>8 DEF LinksKept
  <2>2. BlocksKept(disk, own, pos, lost, tail, disk', own, pos, lost, tail, {s})
    <3>1. \A b \in placed(disk', lost) : b \in placed(disk, lost) /\ disk'[b] = disk[b]
      BY <1>11, <1>13 DEF placed
    <3> QED
      BY <1>14, <3>1 DEF BlocksKept
  <2> QED
    BY <1>4, <1>11, <2>1, <2>2, OthersKept
<1>32. LostOK(lost)'
  <2>1. \A b \in lost : b \in Blocks /\ b # c
    BY <1>10 DEF placed, CarefulInv, LostOK
  <2>2. lost \subseteq Blocks \ freeBlocks'
    BY <1>13, <2>1, StillLost
  <2> QED
    BY <1>27, <2>2 DEF LostOK
<1> QED
  BY <1>2, <1>26, <1>27, <1>29, <1>30, <1>31, <1>32 DEF CarefulInv

\* The inode gets the new size and leads to the lowest free block, which the loop behind
\* it fills first; there is room for the whole buffer.
LEMMA CUpdateInode ==
  ASSUME NEW CONSTANT lost, NEW CONSTANT tidy, Inv, Inv', CarefulInv(lost, tidy), UpdateInode
  PROVE  CarefulInv(lost, tidy)' /\ OnlyChanges({busySlot})
<1> DEFINE file  == openFiles[call.fd]
           first == findFreeBlock(disk, 0)
           size  == Len(call.buf)
<1>1. call.pc = "eraseFileData" /\ call.op = "writeFile" /\ call.cur = noBlockLink
  BY DEF UpdateInode
<1>2. PICK s \in Slots : s = busySlot
  BY <1>1, BusyFile
<1>3. /\ s \in usedSlots /\ inodeIndices[s] \in Blocks /\ inodeIndices[s] # noBlockLink
      /\ call.fd \in DOMAIN openFiles /\ floating = {} /\ afloat(lost) = lost /\ file \in TinyOpenFile
      /\ file.inodeLinkIndex = s /\ inodeLink(file) = inodeIndices[s]
  BY <1>1, <1>2, BusyFile DEF busySlot, inodeLink
<1>4. /\ disk[inodeIndices[s]].fileName = file.fileName
      /\ disk[inodeIndices[s]].blockID = INODE_ID
  BY <1>1, <1>3, OpenFilesLinked
<1>5. PICK own \in [Blocks -> Slots], pos \in [Blocks -> Nat], tail \in BlockLink :
        /\ IsLayout(disk, inodeIndices, own, pos, lost, tail)
        /\ Erasing(lost, own, pos, tail)
  BY <1>3 DEF CarefulInv, LayoutOK
<1>6. /\ tail = inodeIndices[s]
      /\ \A b \in placed(disk, lost) : own[b] = s => pos[b] = 0
      /\ call.buf # <<>>
      /\ \/ toWrite <= Cardinality(freeBlocks)
         \/ /\ freeBlocks = {}
            /\ inodeOf(s).fileSize = 0 /\ inodeOf(s).nextBlock = noBlockLink
  <2>1. toErase(pos) = 0
    BY <1>1 DEF toErase
  <2>2. toWrite \in Int /\ Cardinality(freeBlocks) \in Nat
    <3>1. size \in Nat
      BY Types DEF Locals
    <3> QED
      BY <3>1, BlocksFor, FreeFinite DEF toWrite
  <2> QED
    BY <1>1, <1>2, <1>5, <2>1, <2>2 DEF Erasing
<1>7. PICK c \in Blocks : c = inodeIndices[s]
  BY <1>3
<1>8. disk \in [Blocks -> Block] /\ inodeIndices \in [Slots -> BlockLink] /\ call \in Locals
  BY Types
<1>9. c \in placed(disk, lost) /\ own[c] = s /\ pos[c] = 0 /\ c # 0
  BY <1>3, <1>5, <1>7, InodesPlaced, DiskAssumption DEF Blocks
<1>10. size \in Nat /\ size # 0
  BY <1>6, <1>8 DEF Locals
<1>11. blocksFor(size) \in Nat /\ blocksFor(size) # 0 /\ toWrite = blocksFor(size)
  BY <1>10, BlocksFor DEF toWrite
<1>12. \/ first = ENOSPC /\ freeBlocks = {}
       \/ /\ first \in Blocks /\ first > 0 /\ first \in freeBlocks
          /\ \A b \in freeBlocks : first <= b
  BY FindFreeBlock, DiskAssumption DEF freeBlocks, Blocks
<1> HIDE DEF first, size
<1>13. CASE first < 0 /\ Fail(first)
  <2>1. freeBlocks = {}
    BY <1>12, <1>13, DiskAssumption DEF Blocks
  <2>2. Cardinality(freeBlocks) = 0
    BY <2>1, FS_EmptySet
  <2>3. disk[c].fileSize = 0 /\ disk[c].nextBlock = noBlockLink
    BY <1>6, <1>7, <1>11, <2>2 DEF inodeOf
  <2>4. extents(disk, inodeIndices, s) = 0
    BY <1>7, <2>3, BlocksFor DEF extents
  <2>5. \A b \in placed(disk, lost) : b # 0
    BY DiskAssumption DEF placed, Blocks
  <2>6. IsLayout(disk, inodeIndices, own, pos, lost, 0)
    <3>1. Linked(disk, inodeIndices, own, pos, lost, 0)
      BY <1>5, <1>6, <1>7, <1>9, <2>3, <2>4, <2>5 DEF IsLayout, Linked
    <3> QED
      BY <1>5, <3>1 DEF IsLayout
  <2>7. /\ disk' = disk /\ inodeIndices' = inodeIndices /\ openFiles' = openFiles
        /\ call' = NoCall
    BY <1>13 DEF Fail, Return
  <2>8. TableOK' /\ NamesOK'
    BY <1>1, <2>7, InodesKept
  <2>9. IsLayout(disk', inodeIndices', own, pos, lost, 0)
    BY <2>6, <2>7
  <2>10. CarefulInv(lost, tidy)'
    BY <2>7, <2>8, <2>9, Ended, StillLost
  <2> QED
    BY <2>7, <2>10, NoFileChanged DEF diskVars, OnlyChanges
<1>14. CASE /\ first > 0
            /\ \E mode \in readFlag :
                 disk' = [disk EXCEPT ![c] = inodeBlock(file.fileName, size, first, mode)]
            /\ openFiles' = [openFiles EXCEPT
                               ![call.fd] = [file EXCEPT !.nextBlockIndex = first,
                                                         !.fileSize = size,
                                                         !.location = 0]]
            /\ Begin([call EXCEPT !.pc = "writeBlocks", !.cur = first])
            /\ UNCHANGED <<inodeIndices, mounted, currentFD>>
  <2>1. first \in Blocks /\ first \in freeBlocks /\ \A b \in freeBlocks : first <= b
    BY <1>12, <1>14 DEF ENOSPC
  <2>2. PICK mode \in readFlag : disk' = [disk EXCEPT ![c] = inodeBlock(file.fileName, size, first, mode)]
    BY <1>14
  <2> DEFINE bl == inodeBlock(file.fileName, size, first, mode)
  <2>3. /\ bl.blockID = INODE_ID /\ bl.fileSize = size /\ bl.nextBlock = first
        /\ bl.fileName = file.fileName
    BY DEF inodeBlock
  <2> HIDE DEF bl
  <2>4. disk' = [disk EXCEPT ![c] = bl] /\ inodeIndices' = inodeIndices
    BY <1>14, <2>2 DEF bl
  <2>5. disk'[c] = bl /\ \A b \in Blocks : b # c => disk'[b] = disk[b]
    BY <1>8, <2>4
  <2>6. /\ call'.pc = "writeBlocks" /\ call'.op = "writeFile" /\ call'.cur = first
        /\ call'.buf = call.buf /\ call'.fd = call.fd
    BY <1>1, <1>8, <1>14 DEF Begin, Locals
  <2>7. /\ placed(disk', lost) = placed(disk, lost)
        /\ IsLayout(disk', inodeIndices', own, pos, lost, tail)
    <3>1. IsLayout(disk, inodeIndices, own, pos, lost, inodeIndices[s])
      BY <1>5, <1>6
    <3>2. blocksFor(disk'[inodeIndices[s]].fileSize) \in Nat /\ disk'[inodeIndices[s]].blockID = INODE_ID
      BY <1>7, <1>11, <2>3, <2>5
    <3>3. OnlyAt(disk, disk', Blocks, inodeIndices[s])
      BY <1>7, <2>5 DEF OnlyAt
    <3>4. disk' \in [Blocks -> Block]
      BY TypesAfter
    <3>5. /\ placed(disk', lost) = placed(disk, lost)
          /\ IsLayout(disk', inodeIndices, own, pos, lost, inodeIndices[s])
      <4>1. RewritesInode(disk, inodeIndices, own, pos, lost, s, disk')
        BY <1>3, <1>6, <1>8, <3>1, <3>2, <3>3, <3>4 DEF RewritesInode
      <4> QED
        BY <4>1, InodeRewritten
    <3> QED
      BY <1>6, <1>7, <2>4, <3>5
  <2>8. freeBlocks' = freeBlocks
    BY <1>4, <1>7, <2>3, <2>5 DEF freeBlocks, INODE_ID, FREE_ID
  <2>9. /\ DOMAIN openFiles' = DOMAIN openFiles
        /\ openFiles'[call.fd] = [file EXCEPT !.nextBlockIndex = first, !.fileSize = size, !.location = 0]
        /\ \A f \in DOMAIN openFiles : f # call.fd => openFiles'[f] = openFiles[f]
    BY <1>3, <1>14
  <2>10. /\ openFiles'[call.fd].inodeLinkIndex = s
         /\ openFiles'[call.fd].nextBlockIndex = first
         /\ openFiles'[call.fd].fileSize = size
         /\ openFiles'[call.fd].fileName = file.fileName
    BY <1>3, <2>9 DEF TinyOpenFile
  <2>11. busySlot' = s
    BY <2>6, <2>10 DEF busySlot
  <2>12. \A t \in usedSlots : t # s => inodeIndices[t] # c /\ disk'[inodeIndices[t]] = disk[inodeIndices[t]]
    BY <1>3, <1>7, <2>5, SlotsApart, SlotsLinked
  <2>13. usedSlots' = usedSlots
    BY <2>4 DEF usedSlots
  <2>14. TableOK'
    <3>1. ASSUME NEW f \in DOMAIN openFiles
          PROVE  /\ openFiles'[f].inodeLinkIndex = openFiles[f].inodeLinkIndex
                 /\ openFiles'[f].inodeLinkIndex \in usedSlots
                 /\ disk'[inodeIndices[openFiles'[f].inodeLinkIndex]].nextBlock = openFiles'[f].nextBlockIndex
                 /\ disk'[inodeIndices[openFiles'[f].inodeLinkIndex]].fileSize = openFiles'[f].fileSize
                 /\ disk'[inodeIndices[openFiles'[f].inodeLinkIndex]].fileName = openFiles'[f].fileName
      <4>1. CASE f = call.fd
        <5>1. disk'[inodeIndices[s]] = bl
          BY <1>7, <2>5
        <5> QED
          BY <1>3, <2>3, <2>10, <4>1, <5>1
      <4>2. CASE f # call.fd
        <5>1. openFiles[f].inodeLinkIndex # s
          BY <1>3, <4>2 DEF CarefulInv, TableOK
        <5>2. /\ openFiles[f].inodeLinkIndex \in usedSlots
              /\ disk[inodeIndices[openFiles[f].inodeLinkIndex]].nextBlock = openFiles[f].nextBlockIndex
              /\ disk[inodeIndices[openFiles[f].inodeLinkIndex]].fileSize = openFiles[f].fileSize
              /\ disk[inodeIndices[openFiles[f].inodeLinkIndex]].fileName = openFiles[f].fileName
          BY <1>1, OpenFilesLinked
        <5> QED
          BY <2>9, <2>12, <4>2, <5>1, <5>2
      <4> QED
        BY <4>1, <4>2
    <3>2. \A fd1, fd2 \in DOMAIN openFiles :
            openFiles[fd1].inodeLinkIndex = openFiles[fd2].inodeLinkIndex => fd1 = fd2
      BY DEF CarefulInv, TableOK
    <3> QED
      BY <2>4, <2>9, <2>13, <3>1, <3>2 DEF TableOK, inodeOf
  <2>15. NamesOK'
    <3> SUFFICES ASSUME "reuseName" \notin Habits PROVE NamesOK'
      BY DEF NamesOK
    <3>1. \A t \in usedSlots : disk'[inodeIndices[t]].fileName = disk[inodeIndices[t]].fileName
      BY <1>4, <1>7, <2>3, <2>5, <2>12
    <3>2. \A t, u \in usedSlots : disk[inodeIndices[t]].fileName = disk[inodeIndices[u]].fileName => t = u
      BY DEF CarefulInv, NamesOK, inodeOf
    <3> QED
      BY <2>4, <2>13, <3>1, <3>2 DEF NamesOK, inodeOf
  <2>16. Writing(lost, own, pos, tail)'
    <3>1. toWrite' = blocksFor(size) /\ toWrite' <= Cardinality(freeBlocks')
      <4>1. toWrite' = toWrite
        BY <2>6 DEF toWrite
      <4> QED
        BY <1>6, <1>11, <2>1, <2>8, <4>1
    <3>2. extents(disk', inodeIndices', s) = blocksFor(size)
      BY <1>7, <2>3, <2>4, <2>5 DEF extents
    <3>3. tail \in placed(disk', lost) /\ own[tail] = s /\ pos[tail] = 0 /\ disk'[tail].nextBlock = first
      BY <1>6, <1>7, <1>9, <2>3, <2>5, <2>7
    <3>4. \A b \in placed(disk', lost) : own[b] = s => pos[b] <= pos[tail]
      BY <1>6, <2>7, <3>3
    <3>5. pos[tail] + toWrite' = blocksFor(size)
      BY <1>11, <3>1, <3>3
    <3>6. first \in freeBlocks' /\ \A b \in freeBlocks' : first <= b
      BY <2>1, <2>8
    <3>7. inodeOf(s)'.fileSize = DataPerBlock * pos[tail] + Len(call'.buf)
      <4>1. inodeOf(s)'.fileSize = size /\ Len(call'.buf) = size
        BY <1>7, <2>3, <2>4, <2>5, <2>6 DEF inodeOf, size
      <4>2. DataPerBlock * 0 + size = size
        BY <1>10, DiskAssumption
      <4> QED
        BY <3>3, <4>1, <4>2
    <3> QED
      BY <1>6, <2>6, <2>11, <3>1, <3>2, <3>3, <3>4, <3>5, <3>6, <3>7 DEF Writing, inodeOf
  <2>17. floating' = {} /\ afloat(lost)' = lost /\ Linking' /\ Erasing(lost, own, pos, tail)' /\ Moving(lost, tidy, own, pos)' /\ PhaseOK'
    BY <2>6 DEF floating, afloat, Linking, Erasing, Moving, PhaseOK, phases, idle
  <2>18. LayoutOK(lost, tidy)'
    BY <2>6, <2>7, <2>16, <2>17 DEF LayoutOK
  <2>19. OnlyChanges({s})
    <3>1. LinksKept(inodeIndices, inodeIndices', {s})
      BY <2>4 DEF LinksKept
    <3>2. BlocksKept(disk, own, pos, lost, tail, disk', own, pos, lost, tail, {s})
      <4>1. \A b \in placed(disk', lost) : b \in placed(disk, lost) /\ b \in Blocks
        BY <2>7 DEF placed
      <4> QED
        BY <1>6, <1>7, <1>9, <2>5, <4>1 DEF BlocksKept
    <3> QED
      BY <1>5, <2>7, <3>1, <3>2, OthersKept
  <2>20. LostOK(lost)'
    BY <2>8, <2>17 DEF CarefulInv, LostOK
  <2> QED
    BY <1>2, <2>14, <2>15, <2>17, <2>18, <2>19, <2>20 DEF CarefulInv
<1> QED
  BY <1>3, <1>6, <1>7, <1>13, <1>14 DEF UpdateInode, first, size

\* The last block of a buffer, and the blocks before it.
LEMMA BufferBlocks ==
  ASSUME NEW buffer \in Seq(Byte), buffer # <<>>
  PROVE  /\ Len(buffer) <= DataPerBlock => blocksFor(Len(buffer)) = 1
         /\ ~(Len(buffer) <= DataPerBlock) =>
              /\ restOf(buffer) # <<>>
              /\ blocksFor(Len(restOf(buffer))) \in Nat \ {0}
              /\ blocksFor(Len(buffer)) = blocksFor(Len(restOf(buffer))) + 1
<1>1. Len(buffer) \in Nat /\ Len(buffer) # 0 /\ DataPerBlock \in Nat \ {0}
  BY DiskAssumption
<1>2. Len(buffer) <= DataPerBlock => blocksFor(Len(buffer)) = 1
  BY <1>1, BlocksFor
<1>3. ASSUME ~(Len(buffer) <= DataPerBlock)
      PROVE  /\ restOf(buffer) # <<>>
             /\ blocksFor(Len(restOf(buffer))) \in Nat \ {0}
             /\ blocksFor(Len(buffer)) = blocksFor(Len(restOf(buffer))) + 1
  <2>1. Len(restOf(buffer)) = Len(buffer) - DataPerBlock
    BY <1>1, <1>3 DEF restOf
  <2>2. Len(buffer) - DataPerBlock \in Nat /\ Len(buffer) - DataPerBlock # 0
    BY <1>1, <1>3
  <2>3. restOf(buffer) # <<>>
    BY <2>1, <2>2
  <2> QED
    BY <1>1, <1>3, <2>1, <2>2, <2>3, BlocksFor
<1> QED
  BY <1>2, <1>3

\* The block a turn of tfs_writeFile's loop writes, and the block it leads to.
LEMMA BlockToWrite ==
  ASSUME NEW CONSTANT lost, NEW CONSTANT tidy, Inv, Inv', CarefulInv(lost, tidy), WriteBlock,
         NEW own \in [Blocks -> Slots], NEW pos \in [Blocks -> Nat], NEW tail \in BlockLink,
         IsLayout(disk, inodeIndices, own, pos, lost, tail), Writing(lost, own, pos, tail)
  PROVE  LET c      == call.cur
             isLast == Len(call.buf) <= DataPerBlock
             next   == IF isLast THEN noBlockLink ELSE findFreeBlock(disk, c)
         IN /\ c \in Blocks /\ c # 0 /\ c \notin placed(disk, lost) /\ pos[tail] < c
            /\ isLast => toWrite = 1
            /\ ~isLast => /\ restOf(call.buf) # <<>>
                          /\ blocksFor(Len(restOf(call.buf))) \in Nat \ {0}
                          /\ toWrite = blocksFor(Len(restOf(call.buf))) + 1
            /\ ~isLast => /\ next \in Blocks /\ next > c /\ next \in freeBlocks
                          /\ \A b \in freeBlocks \ {c} : next <= b
            /\ disk' = [disk EXCEPT ![c] = fileExtentBlock(next, blockOf(call.buf))]
            /\ IF isLast THEN Return(0) ELSE Begin([call EXCEPT !.cur = next, !.buf = restOf(call.buf)])
            /\ inodeIndices' = inodeIndices /\ openFiles' = openFiles
            /\ mounted' = mounted /\ currentFD' = currentFD
            /\ disk'[c].blockID = FILE_EXTENT_ID /\ disk'[c].nextBlock = next
            /\ disk'[c].data = blockOf(call.buf)
            /\ \A b \in Blocks : b # c => disk'[b] = disk[b]
<1> DEFINE isLast == Len(call.buf) <= DataPerBlock
           next   == IF isLast THEN noBlockLink ELSE findFreeBlock(disk, call.cur)
<1>1. call.pc = "writeBlocks"
  BY DEF WriteBlock
<1>2. PICK c \in Blocks : c = call.cur
  BY <1>1 DEF Inv, TypeOK, LocalsOK
<1>3. /\ call.buf # <<>> /\ toWrite <= Cardinality(freeBlocks)
      /\ c \in freeBlocks /\ \A b \in freeBlocks : c <= b
      /\ tail \in placed(disk, lost) /\ disk[tail].nextBlock = c
  BY <1>1, <1>2 DEF Writing
<1>4. /\ disk \in [Blocks -> Block] /\ call \in Locals /\ disk' \in [Blocks -> Block]
  BY Types, TypesAfter
<1>5. c # 0 /\ c \in Nat /\ tail \in Blocks /\ tail \in Nat /\ pos[tail] \in Nat
      /\ disk[c].blockID = FREE_ID /\ c \notin placed(disk, lost)
  BY <1>3, DiskAssumption DEF Blocks, placed, freeBlocks
<1>6. pos[tail] < c
  <2>1. pos[tail] <= tail
    BY <1>3 DEF IsLayout, Placed
  <2>2. CASE disk[tail].blockID = INODE_ID
    <3>1. pos[tail] = 0
      BY <1>3, <2>2 DEF IsLayout, Placed
    <3> QED
      BY <1>5, <3>1
  <2>3. CASE disk[tail].blockID = FILE_EXTENT_ID
    <3>1. c > tail
      BY <1>3, <1>5, <2>3 DEF Inv, ExtentsPointForward, noBlockLink
    <3> QED
      BY <1>5, <2>1, <3>1
  <2>4. disk[tail].blockID \in {INODE_ID, FILE_EXTENT_ID}
    <3>1. disk[tail].blockID # FREE_ID /\ disk[tail] \in Block
      BY <1>3, <1>4, <1>5 DEF placed
    <3> QED
      BY <3>1, BlockFields
  <2> QED
    BY <2>2, <2>3, <2>4
<1>7. /\ isLast => toWrite = 1
      /\ ~isLast => /\ restOf(call.buf) # <<>>
                    /\ blocksFor(Len(restOf(call.buf))) \in Nat \ {0}
                    /\ toWrite = blocksFor(Len(restOf(call.buf))) + 1
  BY <1>3, <1>4, BufferBlocks DEF Locals, toWrite
<1>8. ~isLast => /\ next \in Blocks /\ next > c /\ next \in freeBlocks
                 /\ \A b \in freeBlocks \ {c} : next <= b
  <2> SUFFICES ASSUME ~isLast
               PROVE  /\ next \in Blocks /\ next > c /\ next \in freeBlocks
                      /\ \A b \in freeBlocks \ {c} : next <= b
    OBVIOUS
  <2>1. Cardinality(freeBlocks) >= 2 /\ Cardinality(freeBlocks \ {c}) = Cardinality(freeBlocks) - 1
    BY <1>3, <1>7, FreeFinite
  <2>2. PICK b \in freeBlocks \ {c} : TRUE
    <3>1. freeBlocks \ {c} # {}
      BY <2>1, FS_EmptySet, FreeFinite
    <3> QED
      BY <3>1
  <2>3. \A e \in freeBlocks \ {c} : e \in Blocks /\ e \in Nat /\ e > c /\ disk[e].blockID = FREE_ID
    BY <1>3, <1>5, DiskAssumption DEF freeBlocks, Blocks
  <2>4. c \in Int /\ next = findFreeBlock(disk, c)
    BY <1>2, <1>5
  <2> HIDE DEF next
  <2> QED
    BY <2>2, <2>3, <2>4, FindFreeBlock DEF freeBlocks
<1> HIDE DEF isLast, next
<1>9. /\ disk' = [disk EXCEPT ![c] = fileExtentBlock(next, blockOf(call.buf))]
      /\ IF isLast THEN Return(0) ELSE Begin([call EXCEPT !.cur = next, !.buf = restOf(call.buf)])
      /\ inodeIndices' = inodeIndices /\ openFiles' = openFiles
      /\ mounted' = mounted /\ currentFD' = currentFD
  <2>1. ~(next < 0)
    <3>1. CASE isLast
      BY <3>1 DEF next, noBlockLink
    <3>2. CASE ~isLast
      BY <1>5, <1>8, <3>2, DiskAssumption DEF Blocks
    <3> QED
      BY <3>1, <3>2
  <2> QED
    BY <1>2, <2>1 DEF WriteBlock, Fail, next, isLast, openList
<1>10. /\ disk'[c].blockID = FILE_EXTENT_ID /\ disk'[c].nextBlock = next
       /\ disk'[c].data = blockOf(call.buf)
       /\ \A b \in Blocks : b # c => disk'[b] = disk[b]
  BY <1>4, <1>9 DEF fileExtentBlock
<1> QED
  BY <1>2, <1>5, <1>6, <1>7, <1>8, <1>9, <1>10 DEF isLast, next

\* The file grows by the block its last one leads to.
LEMMA CWriteBlock ==
  ASSUME NEW CONSTANT lost, NEW CONSTANT tidy, Inv, Inv', CarefulInv(lost, tidy), WriteBlock
  PROVE  CarefulInv(lost, tidy)' /\ OnlyChanges({busySlot})
<1> DEFINE isLast == Len(call.buf) <= DataPerBlock
           next   == IF isLast THEN noBlockLink ELSE findFreeBlock(disk, call.cur)
<1>1. call.pc = "writeBlocks" /\ call.op = "writeFile"
  BY OpOfPhase DEF WriteBlock, CarefulInv
<1>2. PICK s \in Slots : s = busySlot
  BY <1>1, BusyFile
<1>3. /\ s \in usedSlots /\ inodeIndices[s] \in Blocks /\ inodeIndices[s] # noBlockLink
      /\ call.fd \in DOMAIN openFiles /\ floating = {} /\ afloat(lost) = lost
  BY <1>1, <1>2, BusyFile
<1>4. PICK own \in [Blocks -> Slots], pos \in [Blocks -> Nat], tail \in BlockLink :
        /\ IsLayout(disk, inodeIndices, own, pos, lost, tail)
        /\ Writing(lost, own, pos, tail)
  BY <1>3 DEF CarefulInv, LayoutOK
<1>5. PICK c \in Blocks : c = call.cur
  BY <1>1 DEF Inv, TypeOK, LocalsOK
<1> DEFINE K == extents(disk, inodeIndices, s)
<1>6. /\ call.buf # <<>> /\ toWrite <= Cardinality(freeBlocks)
      /\ c \in freeBlocks /\ \A b \in freeBlocks : c <= b
      /\ tail \in placed(disk, lost) /\ own[tail] = s
      /\ pos[tail] + toWrite = K
      /\ disk[tail].nextBlock = c
      /\ \A b \in placed(disk, lost) : own[b] = s => pos[b] <= pos[tail]
  BY <1>1, <1>2, <1>4, <1>5 DEF Writing
<1>7. disk \in [Blocks -> Block] /\ inodeIndices \in [Slots -> BlockLink] /\ call \in Locals
      /\ disk' \in [Blocks -> Block]
  BY Types, TypesAfter
<1>8. c # 0 /\ c \in Nat /\ tail \in Blocks /\ tail \in Nat /\ pos[tail] \in Nat
      /\ disk[c].blockID = FREE_ID /\ c \notin placed(disk, lost)
  BY <1>6, DiskAssumption DEF Blocks, placed, freeBlocks
<1>9. pos[tail] < c
  BY <1>4, <1>5, BlockToWrite
<1>10. K \in Nat
  BY <1>3, <1>4, <1>7, ExtentsNat
<1>11. /\ isLast => toWrite = 1
       /\ ~isLast => /\ restOf(call.buf) # <<>>
                     /\ blocksFor(Len(restOf(call.buf))) \in Nat \ {0}
                     /\ toWrite = blocksFor(Len(restOf(call.buf))) + 1
  BY <1>4, BlockToWrite
<1>12. toWrite \in Nat \ {0}
  BY <1>11
<1>13. ~isLast => /\ next \in Blocks /\ next > c /\ next \in freeBlocks
                  /\ \A b \in freeBlocks \ {c} : next <= b
  BY <1>4, <1>5, BlockToWrite
<1>14. c \notin lost
  BY <1>8, FreeNotLost
<1>15. /\ disk' = [disk EXCEPT ![c] = fileExtentBlock(next, blockOf(call.buf))]
       /\ IF isLast THEN Return(0) ELSE Begin([call EXCEPT !.cur = next, !.buf = restOf(call.buf)])
       /\ inodeIndices' = inodeIndices /\ openFiles' = openFiles
  BY <1>4, <1>5, BlockToWrite
<1>16. /\ disk'[c].blockID = FILE_EXTENT_ID /\ disk'[c].nextBlock = next
       /\ \A b \in Blocks : b # c => disk'[b] = disk[b]
  BY <1>4, <1>5, BlockToWrite
<1> HIDE DEF isLast, next, K
<1>17. pos[tail] + 1 \in 1..K
  BY <1>6, <1>8, <1>10, <1>12
<1>18. PICK tail2 \in BlockLink : tail2 = IF isLast THEN 0 ELSE c
  BY DiskAssumption DEF BlockLink, Blocks
<1>19. \/ tail2 = c
       \/ disk'[c].nextBlock = noBlockLink /\ pos[tail] + 1 = K
  BY <1>6, <1>11, <1>16, <1>18 DEF next
<1>20. PICK own2 \in [Blocks -> Slots], pos2 \in [Blocks -> Nat] :
         own2 = [own EXCEPT ![c] = own[tail]] /\ pos2 = [pos EXCEPT ![c] = pos[tail] + 1]
  <2>1. [own EXCEPT ![c] = own[tail]] \in [Blocks -> Slots]
        /\ [pos EXCEPT ![c] = pos[tail] + 1] \in [Blocks -> Nat]
    BY <1>8
  <2> QED
    BY <2>1
<1>21. own2[c] = s /\ pos2[c] = pos[tail] + 1
       /\ \A b \in Blocks : b # c => own2[b] = own[b] /\ pos2[b] = pos[b]
  BY <1>6, <1>20
<1>22. /\ placed(disk', lost) = placed(disk, lost) \cup {c}
       /\ IsLayout(disk', inodeIndices', own2, pos2, lost, tail2)
  <2>1. own[tail] = s /\ K = extents(disk, inodeIndices, own[tail])
    BY <1>6 DEF K
  <2>2. \A b \in placed(disk, lost) : own[b] = own[tail] => pos[b] <= pos[tail]
    BY <1>6, <2>1
  <2>3. /\ placed(disk', lost) = placed(disk, lost) \cup {c}
        /\ IsLayout(disk', inodeIndices, own2, pos2, lost, tail2)
    <3>1. tail \in placed(disk, lost) /\ disk[tail].nextBlock = c
      BY <1>6
    <3>2. pos[tail] + 1 \in 1..extents(disk, inodeIndices, own[tail])
      BY <1>17, <2>1
    <3>3. \/ tail2 = c
          \/ disk'[c].nextBlock = noBlockLink /\ pos[tail] + 1 = extents(disk, inodeIndices, own[tail])
      BY <1>19, <2>1
    <3>4. own2[c] = own[tail] /\ pos2[c] = pos[tail] + 1
      BY <1>21, <2>1
    <3>5. OnlyAt(disk, disk', Blocks, c) /\ OnlyAt(own, own2, Blocks, c) /\ OnlyAt(pos, pos2, Blocks, c)
      BY <1>16, <1>21 DEF OnlyAt
    <3> QED
      <4>1. WritesExtent(disk, inodeIndices, own, pos, lost, tail, c, disk', tail2, own2, pos2)
        BY <1>4, <1>7, <1>8, <1>9, <1>14, <1>16, <2>2, <3>1, <3>2, <3>3, <3>4, <3>5 DEF WritesExtent
      <4> QED
        BY <4>1, ExtentWritten
  <2> QED
    BY <1>15, <2>3
<1>23. \A t \in usedSlots : inodeIndices[t] \in Blocks /\ inodeIndices[t] # c
  BY <1>8, SlotsLinked DEF INODE_ID, FREE_ID
<1>24. TableOK' /\ NamesOK'
  BY <1>1, <1>15, <1>16, <1>23, InodesKept
<1>25. \A b \in placed(disk, lost) : b \in Blocks /\ b # 0 /\ b # c /\ disk'[b] = disk[b]
  BY <1>8, <1>16, DiskAssumption DEF placed, Blocks
<1>26. OnlyChanges({s})
  <2>1. LinksKept(inodeIndices, inodeIndices', {s})
    BY <1>15 DEF LinksKept
  <2>2. \A b \in placed(disk, lost) : own[b] \notin {s} => b # tail
    BY <1>6
  <2>3. \A b \in placed(disk', lost) : own2[b] \notin {s} =>
          /\ b \in placed(disk, lost) /\ own[b] = own2[b] /\ pos2[b] = pos[b]
          /\ disk'[b] = disk[b] /\ b # tail2
    BY <1>18, <1>22, <1>21, <1>25
  <2>4. BlocksKept(disk, own, pos, lost, tail, disk', own2, pos2, lost, tail2, {s})
    BY <2>2, <2>3 DEF BlocksKept
  <2> QED
    BY <1>4, <1>22, <2>1, <2>4, OthersKept
<1>27. lost \subseteq Blocks \ freeBlocks'
  <2>1. \A b \in lost : b \in Blocks /\ b # c
    BY <1>14 DEF CarefulInv, LostOK
  <2> QED
    BY <1>16, <2>1, StillLost
<1>28. CASE isLast
  <2>1. call' = NoCall /\ tail2 = 0
    BY <1>15, <1>18, <1>28 DEF Return
  <2> QED
    BY <1>2, <1>22, <1>24, <1>26, <1>27, <2>1, Ended
<1>29. CASE ~isLast
  <2>1. /\ call'.pc = "writeBlocks" /\ call'.op = "writeFile" /\ call'.cur = next
        /\ call'.buf = restOf(call.buf) /\ call'.fd = call.fd
    BY <1>1, <1>7, <1>15, <1>29 DEF Begin, Locals
  <2>2. tail2 = c
    BY <1>18, <1>29
  <2>3. busySlot' = s
    BY <1>2, <1>15, <2>1 DEF busySlot
  <2>4. extents(disk', inodeIndices', s) = K
    BY <1>3, <1>15, <1>16, <1>23 DEF extents, K
  <2>5. freeBlocks' = freeBlocks \ {c}
    BY <1>16 DEF freeBlocks, FREE_ID, FILE_EXTENT_ID
  <2>6. Cardinality(freeBlocks') = Cardinality(freeBlocks) - 1 /\ Cardinality(freeBlocks) \in Nat
    BY <1>6, <2>5, FreeFinite
  <2>7. toWrite' = toWrite - 1
    BY <1>11, <1>29, <2>1 DEF toWrite
  <2>8. Writing(lost, own2, pos2, tail2)'
    <3>1. call'.buf # <<>> /\ toWrite' <= Cardinality(freeBlocks')
      BY <1>6, <1>11, <1>12, <1>29, <2>1, <2>6, <2>7
    <3>2. next \in freeBlocks' /\ \A b \in freeBlocks' : next <= b
      BY <1>8, <1>13, <1>29, <2>5
    <3>3. c \in placed(disk', lost) /\ own2[c] = s /\ pos2[c] + toWrite' = K /\ disk'[c].nextBlock = next
      BY <1>6, <1>8, <1>10, <1>12, <1>16, <1>22, <1>21, <2>7
    <3>4. \A b \in placed(disk', lost) : own2[b] = s => pos2[b] <= pos2[c]
      <4>1. \A b \in placed(disk, lost) : pos[b] \in Nat
        BY <1>25
      <4> QED
        BY <1>6, <1>8, <1>22, <1>21, <1>25, <4>1
    <3>5. inodeOf(s)'.fileSize = DataPerBlock * pos2[c] + Len(call'.buf)
      <4>1. inodeOf(s)'.fileSize = DataPerBlock * pos[tail] + Len(call.buf)
        BY <1>1, <1>2, <1>3, <1>4, <1>15, <1>16, <1>23 DEF Writing, inodeOf
      <4>2. Len(restOf(call.buf)) = Len(call.buf) - DataPerBlock /\ Len(call.buf) \in Nat
        BY <1>7, <1>29, DiskAssumption DEF Locals, restOf, isLast
      <4>3. DataPerBlock * pos[tail] + Len(call.buf) =
              DataPerBlock * (pos[tail] + 1) + (Len(call.buf) - DataPerBlock)
        BY <1>8, <4>2, DiskAssumption
      <4> QED
        BY <1>21, <2>1, <4>1, <4>2, <4>3
    <3> QED
      BY <2>1, <2>2, <2>3, <2>4, <3>1, <3>2, <3>3, <3>4, <3>5 DEF Writing, inodeOf
  <2>9. floating' = {} /\ afloat(lost)' = lost /\ Linking' /\ Erasing(lost, own2, pos2, tail2)' /\ Moving(lost, tidy, own2, pos2)' /\ PhaseOK'
    BY <2>1 DEF floating, afloat, Linking, Erasing, Moving, PhaseOK, phases, idle
  <2>10. LayoutOK(lost, tidy)'
    BY <1>22, <2>1, <2>8, <2>9 DEF LayoutOK
  <2>11. LostOK(lost)'
    BY <1>27, <2>9 DEF LostOK
  <2> QED
    BY <1>2, <1>24, <1>26, <2>9, <2>10, <2>11 DEF CarefulInv
<1> QED
  BY <1>28, <1>29

\* The slot lets go of an inode that has no extents any more.
LEMMA CRemoveInode ==
  ASSUME NEW CONSTANT lost, NEW CONSTANT tidy, Inv, Inv', CarefulInv(lost, tidy), RemoveInode
  PROVE  CarefulInv(lost, tidy)' /\ OnlyChanges({busySlot})
<1>1. call.pc = "eraseFileData" /\ call.op = "deleteFile" /\ call.cur = noBlockLink
  BY DEF RemoveInode
<1>2. PICK s \in Slots : s = busySlot
  BY <1>1, BusyFile
<1>3. /\ s \in usedSlots /\ inodeIndices[s] \in Blocks /\ inodeIndices[s] # noBlockLink
      /\ disk[inodeIndices[s]].blockID = INODE_ID
      /\ call.fd \in DOMAIN openFiles /\ floating = {} /\ afloat(lost) = lost
      /\ openFiles[call.fd].inodeLinkIndex = s /\ inodeLink(openFiles[call.fd]) = inodeIndices[s]
  BY <1>1, <1>2, BusyFile DEF busySlot, inodeLink
<1>4. PICK own \in [Blocks -> Slots], pos \in [Blocks -> Nat], tail \in BlockLink :
        /\ IsLayout(disk, inodeIndices, own, pos, lost, tail)
        /\ Erasing(lost, own, pos, tail)
  BY <1>3 DEF CarefulInv, LayoutOK
<1>5. /\ tail = inodeIndices[s]
      /\ \A b \in placed(disk, lost) : own[b] = s => pos[b] = 0
  BY <1>1, <1>2, <1>4 DEF Erasing
<1>6. PICK c \in Blocks : c = inodeIndices[s]
  BY <1>3
<1>7. disk \in [Blocks -> Block] /\ inodeIndices \in [Slots -> BlockLink] /\ call \in Locals
  BY Types
<1>8. /\ inodeIndices' = [inodeIndices EXCEPT ![s] = noBlockLink]
      /\ disk' = disk /\ openFiles' = openFiles
      /\ call' = [call EXCEPT !.pc = "freeInode", !.cur = c]
  BY <1>3, <1>6 DEF RemoveInode, Begin, openList
<1>9. call'.pc = "freeInode" /\ call'.op = "deleteFile" /\ call'.cur = c /\ call'.fd = call.fd
  BY <1>1, <1>7, <1>8 DEF Locals
<1>10. /\ inodeIndices'[s] = noBlockLink
       /\ \A t \in Slots : t # s => inodeIndices'[t] = inodeIndices[t]
  BY <1>7, <1>8
<1>11. usedSlots' = usedSlots \ {s} /\ \A t \in usedSlots' : inodeIndices'[t] = inodeIndices[t]
  BY <1>10 DEF usedSlots
<1>12. IsLayout(disk', inodeIndices', own, pos, lost \cup {c}, 0)
  <2>1. IsLayout(disk, inodeIndices, own, pos, lost, inodeIndices[s])
    BY <1>4, <1>5
  <2>2. IsLayout(disk, [inodeIndices EXCEPT ![s] = noBlockLink], own, pos, lost \cup {inodeIndices[s]}, 0)
    BY <1>3, <1>5, <1>7, <2>1, InodeUnlinked
  <2> QED
    BY <1>6, <1>8, <2>2
<1>13. TableOK'
  <2>1. ASSUME NEW fd \in DOMAIN openFiles, fd # call.fd
        PROVE  LET slot == openFiles[fd].inodeLinkIndex
               IN /\ slot \in usedSlots' /\ inodeIndices'[slot] = inodeIndices[slot]
                  /\ disk[inodeIndices[slot]].nextBlock = openFiles[fd].nextBlockIndex
                  /\ disk[inodeIndices[slot]].fileSize = openFiles[fd].fileSize
                  /\ disk[inodeIndices[slot]].fileName = openFiles[fd].fileName
    <3>1. openFiles[fd].inodeLinkIndex # s
      BY <1>3, <2>1 DEF CarefulInv, TableOK
    <3> QED
      BY <1>1, <1>11, <3>1, OpenFilesLinked
  <2>2. \A fd1, fd2 \in DOMAIN openFiles :
          openFiles[fd1].inodeLinkIndex = openFiles[fd2].inodeLinkIndex => fd1 = fd2
    BY DEF CarefulInv, TableOK
  <2> QED
    BY <1>8, <1>9, <2>1, <2>2 DEF TableOK, inodeOf
<1>14. NamesOK'
  BY <1>8, <1>11 DEF CarefulInv, NamesOK, inodeOf
<1>15. PhaseOK'
  <2>1. busySlot' \in unusedSlots'
    BY <1>3, <1>8, <1>9, <1>10 DEF busySlot, unusedSlots, usedSlots
  <2>2. /\ inodeOf(s).nextBlock = openFiles[call.fd].nextBlockIndex
        /\ inodeOf(s).fileName = openFiles[call.fd].fileName
    BY <1>1, <1>3 DEF CarefulInv, TableOK
  <2>3. openFiles'[call'.fd].nextBlockIndex \in freeBlocks' \cup {noBlockLink}
    <3>1. inodeOf(s).nextBlock \in freeBlocks \cup {noBlockLink}
      BY <1>1, <1>2, <1>4 DEF Erasing
    <3> QED
      BY <1>8, <1>9, <2>2, <3>1 DEF freeBlocks
  <2>4. ASSUME "reuseName" \notin Habits
        PROVE  \A t \in usedSlots' : inodeOf(t)'.fileName # openFiles'[call'.fd].fileName
    <3>1. \A t \in usedSlots' : t \in usedSlots /\ t # s /\ inodeOf(t)' = inodeOf(t)
      BY <1>8, <1>11 DEF inodeOf
    <3>2. \A t \in usedSlots : inodeOf(t).fileName = inodeOf(s).fileName => t = s
      BY <1>3, <2>4 DEF CarefulInv, NamesOK
    <3> QED
      BY <1>8, <1>9, <2>2, <3>1, <3>2
  <2> QED
    BY <1>3, <1>6, <1>8, <1>9, <2>1, <2>3, <2>4 DEF PhaseOK, phases, idle
<1>16. /\ floating' = {c} /\ afloat(lost)' = lost \cup {c} /\ Linking' /\ 0 \in BlockLink
       /\ Erasing(lost, own, pos, 0)' /\ Writing(lost, own, pos, 0)' /\ Moving(lost, tidy, own, pos)'
  BY <1>9, DiskAssumption DEF floating, afloat, Linking, Erasing, Writing, Moving, BlockLink
<1>17. LayoutOK(lost, tidy)'
  BY <1>12, <1>16 DEF LayoutOK, noBlockLink
<1>18. OnlyChanges({s})
  <2>1. LinksKept(inodeIndices, inodeIndices', {s})
    BY <1>10 DEF LinksKept
  <2>2. BlocksKept(disk, own, pos, lost, tail, disk', own, pos, lost \cup {c}, 0, {s})
    <3>1. \A b \in placed(disk, lost \cup {c}) : b \in placed(disk, lost) /\ b # 0
      BY DiskAssumption DEF placed, Blocks
    <3>2. own[tail] = s
      BY <1>3, <1>4, <1>5, InodesPlaced
    <3> QED
      BY <1>8, <3>1, <3>2 DEF BlocksKept
  <2> QED
    BY <1>4, <1>12, <2>1, <2>2, OthersKept
<1>19. LostOK(lost)'
  <2>1. c \in placed(disk, lost)
    BY <1>3, <1>4, <1>6, InodesPlaced
  <2> QED
    BY <1>8, <1>16, <2>1 DEF CarefulInv, LostOK, freeBlocks, placed
<1> QED
  BY <1>2, <1>13, <1>14, <1>15, <1>16, <1>17, <1>18, <1>19 DEF CarefulInv

\* The inode no slot leads to is freed, and its entry leaves the open list.
LEMMA CFreeInode ==
  ASSUME NEW CONSTANT lost, NEW CONSTANT tidy, Inv, Inv', CarefulInv(lost, tidy), FreeInode
  PROVE  CarefulInv(lost, tidy)' /\ OnlyChanges({})
<1>1. call.pc = "freeInode" /\ call.op = "deleteFile"
  BY OpOfPhase DEF FreeInode, CarefulInv
<1>2. PICK c \in Blocks : c = call.cur
  BY <1>1 DEF CarefulInv, PhaseOK
<1>3. disk[c].blockID = INODE_ID /\ floating = {c} /\ afloat(lost) = lost \cup {c} /\ c # noBlockLink
  BY <1>1, <1>2, DiskAssumption DEF CarefulInv, PhaseOK, floating, afloat, Blocks, noBlockLink
<1>4. PICK own \in [Blocks -> Slots], pos \in [Blocks -> Nat] :
        IsLayout(disk, inodeIndices, own, pos, lost \cup {c}, 0)
  BY <1>1, <1>3 DEF CarefulInv, LayoutOK, noBlockLink
<1>5. disk \in [Blocks -> Block] /\ inodeIndices \in [Slots -> BlockLink]
  BY Types
<1>6. /\ disk' = [disk EXCEPT ![c] = freeBlock] /\ inodeIndices' = inodeIndices
      /\ openFDs_removeByFD(call.fd) /\ call' = NoCall
  BY <1>2, <1>3 DEF FreeInode, Return
<1>7. disk'[c].blockID = FREE_ID /\ \A b \in Blocks : b # c => disk'[b] = disk[b]
  BY <1>5, <1>6 DEF freeBlock
<1>8. placed(disk', lost) = placed(disk, lost \cup {c})
  BY <1>3, <1>7 DEF placed
<1>9. \A b \in placed(disk, lost \cup {c}) : b \in Blocks /\ b # c /\ b # 0 /\ disk'[b] = disk[b]
  BY <1>7, DiskAssumption DEF placed, Blocks
<1>10. IsLayout(disk', inodeIndices', own, pos, lost, 0)
  BY <1>4, <1>6, <1>8, <1>9, SameLayout
<1>11. usedSlots' = usedSlots /\ \A s \in usedSlots : disk'[inodeIndices[s]] = disk[inodeIndices[s]]
  BY <1>3, <1>6, <1>9, SlotsLinked DEF usedSlots
<1>12. TableOK'
  <2>1. /\ DOMAIN openFiles' = DOMAIN openFiles \ {call.fd}
        /\ \A fd \in DOMAIN openFiles' : openFiles'[fd] = openFiles[fd]
    BY <1>6 DEF openFDs_removeByFD, Restrict
  <2> QED
    BY <1>6, <1>11, <2>1 DEF CarefulInv, TableOK, inodeOf
<1>13. NamesOK'
  BY <1>6, <1>11 DEF CarefulInv, NamesOK, inodeOf
<1>14. CarefulInv(lost, tidy)'
  <2>1. \A b \in lost : b \in Blocks /\ b # c
    BY <1>3 DEF CarefulInv, LostOK
  <2>2. lost \subseteq Blocks \ freeBlocks'
    BY <1>7, <2>1, StillLost
  <2> QED
    BY <1>6, <1>10, <1>12, <1>13, <2>2, Ended
<1>15. OnlyChanges({})
  <2>1. LinksKept(inodeIndices, inodeIndices', {})
    BY <1>6 DEF LinksKept
  <2>2. BlocksKept(disk, own, pos, lost \cup {c}, 0, disk', own, pos, lost, 0, {})
    BY <1>8, <1>9 DEF BlocksKept
  <2> QED
    BY <1>4, <1>10, <2>1, <2>2, OthersKept
<1> QED
  BY <1>14, <1>15

-----------------------------------------------------------------------------
(* tfs_defrag                                                              *)

\* What holds while tfs_defrag runs: no file is open, and there is no tail.
LEMMA AtDefrag ==
  ASSUME NEW CONSTANT lost, NEW CONSTANT tidy, Inv, CarefulInv(lost, tidy), call.op = "defrag"
  PROVE  /\ DOMAIN openFiles = {}
         /\ \E own \in [Blocks -> Slots], pos \in [Blocks -> Nat] :
              IsLayout(disk, inodeIndices, own, pos, afloat(lost), 0) /\ Moving(lost, tidy, own, pos)
<1>1. call.pc \notin {"eraseFileData", "writeBlocks"}
  BY OpOfPhase DEF CarefulInv
<1> QED
  BY <1>1 DEF CarefulInv, LayoutOK, Moving, noBlockLink

\* What a step of tfs_defrag has to establish for the next one.
LEMMA DefragGoesOn ==
  ASSUME NEW CONSTANT lost, NEW CONSTANT tidy,
         NEW CONSTANT own \in [Blocks -> Slots], NEW CONSTANT pos \in [Blocks -> Nat],
         call'.op = "defrag",
         call'.pc \in {"defragInode", "swapInodeLink", "freeOldInode", "iterateFEs",
                       "swapExtentLink", "freeOldExtent"},
         IsLayout(disk', inodeIndices', own, pos, afloat(lost)', 0),
         DOMAIN openFiles' = {}, NamesOK', LostOK(lost)', Moving(lost, tidy, own, pos)'
  PROVE  CarefulInv(lost, tidy)'
<1>1. TableOK'
  BY DEF TableOK
<1>2. PhaseOK' /\ Linking' /\ Erasing(lost, own, pos, 0)' /\ Writing(lost, own, pos, 0)'
  BY DEF PhaseOK, phases, idle, Linking, Erasing, Writing
<1>3. 0 \in BlockLink
  BY DiskAssumption DEF BlockLink
<1>4. LayoutOK(lost, tidy)'
  BY <1>2, <1>3 DEF LayoutOK, noBlockLink
<1> QED
  BY <1>1, <1>2, <1>4 DEF CarefulInv

\* A step of tfs_defrag that frees no block, or the one that floats.
LEMMA LostStays ==
  ASSUME NEW CONSTANT lost, NEW CONSTANT tidy, CarefulInv(lost, tidy),
         \A b \in Blocks \ floating : disk'[b].blockID = FREE_ID => disk[b].blockID = FREE_ID,
         \A b \in floating' : b \in floating \/ disk[b].blockID = FREE_ID \/ b \in placed(disk, afloat(lost)),
         floating' \subseteq Blocks
  PROVE  LostOK(lost)'
<1>1. \A b \in lost : b \in Blocks /\ b \notin floating /\ disk[b].blockID # FREE_ID
  BY DEF CarefulInv, LostOK, freeBlocks
<1>2. lost \subseteq Blocks \ freeBlocks'
  BY <1>1 DEF freeBlocks
<1>3. \A b \in floating' : b \notin lost
  BY <1>1 DEF placed, afloat
<1> QED
  BY <1>2, <1>3 DEF LostOK

\* tfs_defrag writes no name.
LEMMA NamesKept ==
  ASSUME NEW CONSTANT lost, NEW CONSTANT tidy, CarefulInv(lost, tidy), UNCHANGED inodeIndices,
         \A s \in usedSlots : disk'[inodeIndices[s]].fileName = disk[inodeIndices[s]].fileName
  PROVE  NamesOK'
<1>1. usedSlots' = usedSlots
  BY DEF usedSlots
<1> QED
  BY <1>1 DEF CarefulInv, NamesOK, inodeOf

\* tfs_defrag starts with no file open, and nothing compacted yet.
LEMMA CDefrag ==
  ASSUME NEW CONSTANT lost, NEW CONSTANT tidy,
         Inv, CarefulInv(lost, tidy), Defrag, DOMAIN openFiles = {}
  PROVE  CarefulInv(lost, tidy)' /\ OnlyChanges({})
<1> DEFINE free == findFreeBlock(disk, 0)
<1>1. idle
  BY DEF Defrag, Ready
<1>2. CASE Fail(0)
  BY <1>1, <1>2, Refused
<1>3. CASE /\ Begin([NoCall EXCEPT !.op = "defrag", !.pc = "defragInode", !.free = free])
           /\ UNCHANGED <<diskVars, openList>>
  <2>1. PICK own \in [Blocks -> Slots], pos \in [Blocks -> Nat] :
          IsLayout(disk, inodeIndices, own, pos, lost, 0)
    BY <1>1, Settled DEF idle
  <2>2. call'.op = "defrag" /\ call'.pc = "defragInode" /\ call'.slot = 0
    BY <1>3 DEF Begin, NoCall
  <2>3. disk' = disk /\ inodeIndices' = inodeIndices /\ openFiles' = openFiles
    BY <1>3 DEF diskVars, openList
  <2>4. floating' = {} /\ afloat(lost)' = lost
    BY <2>2 DEF floating, afloat
  <2>5. \A b \in placed(disk, lost) : own[b] \in Nat /\ pos[b] \in Nat
    BY DiskAssumption DEF placed, Slots
  <2>6. Compacted(lost, tidy, own, pos, -1)'
    BY <2>2, <2>3, <2>4, <2>5 DEF Compacted
  <2>7. Moving(lost, tidy, own, pos)'
    BY <2>2, <2>3, <2>6 DEF Moving
  <2>8. NamesOK'
    BY <2>3, NamesKept
  <2>9. IsLayout(disk', inodeIndices', own, pos, afloat(lost)', 0)
    BY <2>1, <2>3, <2>4
  <2>10. LostOK(lost)'
    BY <2>3, <2>4 DEF CarefulInv, LostOK, freeBlocks
  <2>11. CarefulInv(lost, tidy)'
    BY <1>1, <2>2, <2>3, <2>7, <2>8, <2>9, <2>10, DefragGoesOn
  <2> QED
    BY <1>3, <2>11, NoFileChanged
<1> QED
  BY <1>2, <1>3 DEF Defrag

\* The inode of the next slot lies in front of the free block, or is copied to it.
LEMMA CDefragInode ==
  ASSUME NEW CONSTANT lost, NEW CONSTANT tidy, Inv, Inv', CarefulInv(lost, tidy), DefragInode
  PROVE  CarefulInv(lost, tidy)' /\ OnlyChanges({})
<1>1. call.pc = "defragInode" /\ call.op = "defrag" /\ floating = {} /\ afloat(lost) = lost
  BY OpOfPhase DEF DefragInode, CarefulInv, floating, afloat
<1>2. DOMAIN openFiles = {}
  BY <1>1, AtDefrag
<1>3. PICK own \in [Blocks -> Slots], pos \in [Blocks -> Nat] :
        IsLayout(disk, inodeIndices, own, pos, lost, 0) /\ Moving(lost, tidy, own, pos)
  BY <1>1, AtDefrag
<1>4. PICK f \in Blocks : f = call.free
  BY <1>1 DEF Inv, DefragCursor, freeBlocks
<1>5. disk[f].blockID = FREE_ID /\ f # 0 /\ f \in Nat /\ ~(f < 0)
  BY <1>1, <1>4, DiskAssumption DEF Inv, DefragCursor, freeBlocks, Blocks
<1>6. disk \in [Blocks -> Block] /\ inodeIndices \in [Slots -> BlockLink] /\ call \in Locals
  BY Types
<1>7. \A b \in placed(disk, lost) : /\ b \in Blocks /\ b # 0 /\ b # f
                                  /\ own[b] \in Slots /\ own[b] \in Nat /\ pos[b] \in Nat
                                  /\ inodeIndices[own[b]] # noBlockLink
  <2>1. \A b \in placed(disk, lost) : b \in Blocks /\ b # 0 /\ b # f
    BY <1>5, DiskAssumption DEF placed, Blocks
  <2>2. \A b \in placed(disk, lost) : inodeIndices[own[b]] # noBlockLink
    BY <1>3 DEF IsLayout, Placed
  <2>3. \A t \in Slots : t \in Nat
    BY DiskAssumption DEF Slots
  <2> QED
    BY <2>1, <2>2, <2>3
<1>8. tidy => \A b \in placed(disk, lost) : own[b] < call.slot => b < f
  BY <1>1, <1>3, <1>4 DEF Moving, Compacted
<1>9. CASE Fail(0) /\ slotsFrom(call.slot) = {}
  <2>1. /\ disk' = disk /\ inodeIndices' = inodeIndices /\ openFiles' = openFiles
        /\ call' = NoCall
    BY <1>9 DEF Fail, Return
  <2>2. TableOK' /\ NamesOK'
    BY <1>2, <2>1, NamesKept DEF TableOK
  <2>3. IsLayout(disk', inodeIndices', own, pos, lost, 0)
    BY <1>3, <2>1
  <2>4. CarefulInv(lost, tidy)'
    BY <2>1, <2>2, <2>3, Ended, StillLost
  <2> QED
    BY <2>1, <2>4, NoFileChanged DEF diskVars
<1>10. CASE slotsFrom(call.slot) # {}
  <2> DEFINE n == Min(slotsFrom(call.slot))
  <2>1. n \in slotsFrom(call.slot) /\ \A t \in slotsFrom(call.slot) : n <= t
    <3>1. slotsFrom(call.slot) \in SUBSET Nat
      BY DiskAssumption DEF slotsFrom, usedSlots, Slots
    <3> QED
      BY <1>10, <3>1, MinOfNats
  <2>2. PICK s \in Slots : s = n
    BY <2>1 DEF slotsFrom, usedSlots
  <2>3. s \in usedSlots /\ s \in Nat /\ \A t \in usedSlots : t >= call.slot => s <= t
    BY <2>1, <2>2, DiskAssumption DEF slotsFrom, Slots
  <2>4. PICK c \in Blocks : c = inodeIndices[s]
    BY <2>3, SlotsLinked
  <2>5. c \in placed(disk, lost) /\ disk[c].blockID = INODE_ID /\ c \in Nat
        /\ own[c] = s /\ pos[c] = 0 /\ c # f
    BY <1>3, <1>7, <2>3, <2>4, InodesPlaced, DiskAssumption DEF usedSlots, Blocks
  <2>6. safeReadBlock(inodeIndices[Min(slotsFrom(call.slot))], {INODE_ID}) = 0
    <3>1. safeReadBlock(c, {INODE_ID}) = 0
      BY <2>5 DEF safeReadBlock
    <3> QED
      BY <2>2, <2>4, <3>1
  <2>7. \/ /\ f < c
           /\ disk' = [disk EXCEPT ![f] = disk[c]]
           /\ call' = [call EXCEPT !.pc = "swapInodeLink", !.slot = s, !.cur = c]
           /\ UNCHANGED <<inodeIndices, mounted, openList, ret>>
        \/ /\ c <= f
           /\ call' = [call EXCEPT !.pc = "iterateFEs", !.slot = s, !.prev = c, !.cur = disk[c].nextBlock]
           /\ UNCHANGED <<diskVars, mounted, openList, ret>>
    BY <1>4, <1>5, <1>10, <2>2, <2>4, <2>6 DEF DefragInode
  <2> HIDE DEF n
  <2>8. tidy => \A b \in placed(disk, lost) : own[b] < s => b < f
    <3> SUFFICES ASSUME tidy, NEW b \in placed(disk, lost), own[b] < s
                 PROVE  b < f
      OBVIOUS
    <3>1. own[b] \in usedSlots /\ own[b] \in Nat
      BY <1>7 DEF usedSlots
    <3>2. own[b] < call.slot
      <4>1. call.slot \in Nat
        BY <1>6 DEF Locals
      <4>2. ~(s <= own[b])
        BY <2>3, <3>1
      <4> QED
        BY <2>3, <3>1, <4>1, <4>2
    <3> QED
      BY <1>8, <3>2
  <2>9. CASE /\ f < c
             /\ disk' = [disk EXCEPT ![f] = disk[c]]
             /\ call' = [call EXCEPT !.pc = "swapInodeLink", !.slot = s, !.cur = c]
             /\ UNCHANGED <<inodeIndices, mounted, openList, ret>>
    <3>1. /\ call'.op = "defrag" /\ call'.pc = "swapInodeLink" /\ call'.slot = s
          /\ call'.cur = c /\ call'.free = f
      BY <1>1, <1>4, <1>6, <2>9 DEF Locals
    <3>2. disk'[f] = disk[c] /\ disk'[c] = disk[c] /\ \A b \in Blocks : b # f => disk'[b] = disk[b]
      BY <1>6, <2>5, <2>9
    <3>3. inodeIndices' = inodeIndices /\ openFiles' = openFiles
      BY <2>9 DEF openList
    <3>4. floating' = {f} /\ afloat(lost)' = lost \cup {f}
      BY <3>1 DEF floating, afloat
    <3>5. placed(disk', lost \cup {f}) = placed(disk, lost)
      BY <1>5, <3>2 DEF placed
    <3>6. \A b \in placed(disk, lost) : disk'[b] = disk[b]
      BY <1>7, <3>2
    <3>7. IsLayout(disk', inodeIndices', own, pos, lost \cup {f}, 0)
      BY <1>3, <3>3, <3>5, <3>6, SameLayout
    <3>8. Compacted(lost, tidy, own, pos, -1)'
      BY <1>7, <2>8, <3>1, <3>4, <3>5 DEF Compacted
    <3>9. Moving(lost, tidy, own, pos)'
      BY <1>2, <2>4, <2>5, <3>1, <3>2, <3>3, <3>8 DEF Moving
    <3>10. NamesOK'
      <4>1. \A t \in usedSlots : inodeIndices[t] \in placed(disk, lost)
        BY <1>1, SlotsLinked
      <4> QED
        BY <3>3, <3>6, <4>1, NamesKept
    <3>11. LostOK(lost)'
      BY <1>5, <2>5, <3>2, <3>4, LostStays DEF INODE_ID, FREE_ID
    <3>12. CarefulInv(lost, tidy)'
      BY <1>2, <3>1, <3>3, <3>4, <3>7, <3>9, <3>10, <3>11, DefragGoesOn
    <3>13. OnlyChanges({})
      <4>1. LinksKept(inodeIndices, inodeIndices', {})
        BY <3>3 DEF LinksKept
      <4>2. BlocksKept(disk, own, pos, lost, 0, disk', own, pos, lost \cup {f}, 0, {})
        BY <1>7, <3>5, <3>6 DEF BlocksKept
      <4> QED
        BY <1>3, <3>7, <4>1, <4>2, OthersKept
    <3> QED
      BY <3>12, <3>13
  <2>10. CASE /\ c <= f
              /\ call' = [call EXCEPT !.pc = "iterateFEs", !.slot = s, !.prev = c, !.cur = disk[c].nextBlock]
              /\ UNCHANGED <<diskVars, mounted, openList, ret>>
    <3>1. /\ call'.op = "defrag" /\ call'.pc = "iterateFEs" /\ call'.slot = s
          /\ call'.prev = c /\ call'.cur = disk[c].nextBlock /\ call'.free = f
      BY <1>1, <1>4, <1>6, <2>10 DEF Locals
    <3>2. disk' = disk /\ inodeIndices' = inodeIndices /\ openFiles' = openFiles
      BY <2>10 DEF diskVars, openList
    <3>3. floating' = {} /\ afloat(lost)' = lost
      BY <3>1 DEF floating, afloat
    <3>4. tidy => \A b \in placed(disk, lost) : (own[b] = s /\ pos[b] <= 0) => b < f
      <4> SUFFICES ASSUME tidy, NEW b \in placed(disk, lost), own[b] = s, pos[b] <= 0
                   PROVE  b < f
        OBVIOUS
      <4>1. pos[b] = 0
        BY <1>7
      <4>2. b = c
        BY <1>3, <2>5, <4>1 DEF IsLayout, Apart
      <4> QED
        BY <1>5, <2>5, <2>10, <4>2
    <3>5. Compacted(lost, tidy, own, pos, pos[call.prev])'
      BY <2>5, <2>8, <3>1, <3>2, <3>3, <3>4 DEF Compacted
    <3>6. Moving(lost, tidy, own, pos)'
      BY <1>2, <2>5, <3>1, <3>2, <3>3, <3>5 DEF Moving
    <3>7. NamesOK'
      BY <3>2, NamesKept
    <3>8. IsLayout(disk', inodeIndices', own, pos, afloat(lost)', 0)
      BY <1>3, <3>2, <3>3
    <3>9. LostOK(lost)'
      BY <3>2, <3>3, LostStays
    <3>10. CarefulInv(lost, tidy)'
      BY <1>2, <3>1, <3>2, <3>6, <3>7, <3>8, <3>9, DefragGoesOn
    <3> QED
      BY <2>10, <3>10, NoFileChanged
  <2> QED
    BY <2>7, <2>9, <2>10
<1> QED
  BY <1>9, <1>10 DEF DefragInode

\* The slot turns from the old copy of the inode to the new one.
LEMMA CSwapInodeLink ==
  ASSUME NEW CONSTANT lost, NEW CONSTANT tidy, Inv, Inv', CarefulInv(lost, tidy), SwapInodeLink
  PROVE  CarefulInv(lost, tidy)' /\ OnlyChanges({})
<1>1. call.pc = "swapInodeLink" /\ call.op = "defrag"
  BY OpOfPhase DEF SwapInodeLink, CarefulInv
<1>2. PICK f \in Blocks, c \in Blocks, s \in Slots : f = call.free /\ c = call.cur /\ s = call.slot
  BY <1>1 DEF Inv, TypeOK, LocalsOK
<1>3. floating = {f} /\ afloat(lost) = lost \cup {f} /\ DOMAIN openFiles = {}
  BY <1>1, <1>2, AtDefrag DEF floating, afloat
<1>4. PICK own \in [Blocks -> Slots], pos \in [Blocks -> Nat] :
        IsLayout(disk, inodeIndices, own, pos, lost \cup {f}, 0) /\ Moving(lost, tidy, own, pos)
  BY <1>1, <1>3, AtDefrag
<1>5. /\ disk[c] = disk[f] /\ disk[c].blockID = INODE_ID /\ inodeIndices[s] = c
      /\ tidy => \A b \in placed(disk, lost \cup {f}) : own[b] < s => b < f
  BY <1>1, <1>2, <1>3, <1>4 DEF Moving, Compacted
<1>6. /\ disk \in [Blocks -> Block] /\ inodeIndices \in [Slots -> BlockLink] /\ call \in Locals
      /\ inodeIndices' \in [Slots -> BlockLink]
  BY Types, TypesAfter
<1>7. c # 0 /\ f # 0 /\ s \in Nat
  BY DiskAssumption DEF Blocks, Slots
<1>8. /\ inodeIndices' = [inodeIndices EXCEPT ![s] = f]
      /\ disk' = disk /\ openFiles' = openFiles
      /\ call' = [call EXCEPT !.pc = "freeOldInode"]
  BY <1>2 DEF SwapInodeLink, openList
<1>9. /\ call'.op = "defrag" /\ call'.pc = "freeOldInode" /\ call'.slot = s
      /\ call'.cur = c /\ call'.free = f
  BY <1>1, <1>2, <1>6, <1>8 DEF Locals
<1>10. floating' = {c} /\ afloat(lost)' = lost \cup {c}
  BY <1>9 DEF floating, afloat
<1>11. inodeIndices'[s] = f /\ \A t \in Slots : t # s => inodeIndices'[t] = inodeIndices[t]
  BY <1>6, <1>8
<1>12. PICK own2 \in [Blocks -> Slots], pos2 \in [Blocks -> Nat] :
         own2 = [own EXCEPT ![f] = s] /\ pos2 = [pos EXCEPT ![f] = 0]
  OBVIOUS
<1>13. own2[f] = s /\ pos2[f] = 0
       /\ \A b \in Blocks : b # f => own2[b] = own[b] /\ pos2[b] = pos[b]
  BY <1>12
<1>14. MovesInode(disk, inodeIndices, own, pos, lost, f, s, inodeIndices', own2, pos2)
  <2>1. /\ OnlyAt(inodeIndices, inodeIndices', Slots, s) /\ OnlyAt(own, own2, Blocks, f)
        /\ OnlyAt(pos, pos2, Blocks, f)
    BY <1>11, <1>13 DEF OnlyAt
  <2>2. f \notin lost
    BY <1>3 DEF CarefulInv, LostOK
  <2> QED
    BY <1>4, <1>5, <1>6, <1>7, <1>11, <1>13, <2>1, <2>2 DEF MovesInode, noBlockLink
<1>15. /\ placed(disk, lost \cup {c}) = (placed(disk, lost \cup {f}) \ {c}) \cup {f}
       /\ c # f /\ c \in placed(disk, lost \cup {f})
       /\ IsLayout(disk, inodeIndices', own2, pos2, lost \cup {c}, 0)
  <2>1. /\ placed(disk, lost \cup {inodeIndices[s]}) = (placed(disk, lost \cup {f}) \ {inodeIndices[s]}) \cup {f}
        /\ inodeIndices[s] # f /\ inodeIndices[s] \in placed(disk, lost \cup {f})
        /\ IsLayout(disk, inodeIndices', own2, pos2, lost \cup {inodeIndices[s]}, 0)
    BY <1>14, InodeMoved
  <2> QED
    BY <1>5, <2>1
<1>16. IsLayout(disk', inodeIndices', own2, pos2, lost \cup {c}, 0)
  BY <1>8, <1>15
<1>17. \A b \in placed(disk, lost \cup {f}) : b \in Blocks /\ b # f /\ b # 0
  BY DiskAssumption DEF placed, Blocks
<1>18. \A b \in placed(disk, lost \cup {c}) : b # f => /\ b \in placed(disk, lost \cup {f})
                                             /\ own2[b] = own[b] /\ pos2[b] = pos[b]
  BY <1>13, <1>15, <1>17
<1>19. Moving(lost, tidy, own2, pos2)'
  <2>1. tidy => \A b \in placed(disk, lost \cup {c}) : own2[b] < s => b < f
    BY <1>5, <1>7, <1>13, <1>18
  <2> QED
    BY <1>3, <1>5, <1>8, <1>9, <1>10, <1>11, <2>1 DEF Moving
<1>20. NamesOK'
  <2>1. usedSlots' = usedSlots
    BY <1>5, <1>7, <1>11 DEF usedSlots, noBlockLink
  <2>2. \A t \in usedSlots : disk[inodeIndices'[t]].fileName = disk[inodeIndices[t]].fileName
    BY <1>5, <1>11 DEF usedSlots
  <2> QED
    BY <1>8, <2>1, <2>2 DEF CarefulInv, NamesOK, inodeOf
<1>21. LostOK(lost)'
  BY <1>3, <1>8, <1>10, <1>15, LostStays
<1>22. CarefulInv(lost, tidy)'
  BY <1>3, <1>8, <1>9, <1>10, <1>16, <1>19, <1>20, <1>21, DefragGoesOn
<1>23. OnlyChanges({s})
  <2>1. LinksKept(inodeIndices, inodeIndices', {s})
    BY <1>11 DEF LinksKept
  <2>2. BlocksKept(disk, own, pos, lost \cup {f}, 0, disk', own2, pos2, lost \cup {c}, 0, {s})
    BY <1>8, <1>13, <1>17, <1>18 DEF BlocksKept
  <2> QED
    BY <1>4, <1>16, <2>1, <2>2, OthersKept
<1>24. fileIn(s)' = fileIn(s)
  <2>1. SameData(disk, own, pos, lost \cup {f}, disk', own2, pos2, lost \cup {c}, s)
    <3>1. \A b, e \in placed(disk, lost \cup {f}) : (own[b] = own[e] /\ pos[b] = pos[e]) => b = e
      BY <1>4 DEF IsLayout, Apart
    <3> SUFFICES ASSUME NEW b \in placed(disk, lost \cup {f}), NEW e \in placed(disk', lost \cup {c}),
                        own[b] = s, own2[e] = s, pos[b] # 0, pos[b] = pos2[e]
                 PROVE  disk'[e].data = disk[b].data
      BY DEF SameData
    <3>2. e # f
      BY <1>13
    <3>3. e = b
      BY <1>8, <1>18, <3>1, <3>2
    <3> QED
      BY <1>8, <3>3
  <2>2. Complete(disk, own, lost \cup {f}, 0, s) /\ Complete(disk', own2, lost \cup {c}, 0, s)
    BY <1>7, <1>8, <1>17, <1>18 DEF Complete
  <2>3. /\ inodeIndices[s] # noBlockLink /\ inodeIndices'[s] # noBlockLink
        /\ disk'[inodeIndices'[s]] = disk[inodeIndices[s]]
    BY <1>5, <1>7, <1>8, <1>11 DEF noBlockLink
  <2>4. disk' \in [Blocks -> Block]
    BY TypesAfter
  <2>5. /\ disk'[inodeIndices'[s]].fileName = disk[inodeIndices[s]].fileName
        /\ disk'[inodeIndices'[s]].fileSize = disk[inodeIndices[s]].fileSize
        /\ disk'[inodeIndices'[s]].readMode = disk[inodeIndices[s]].readMode
    BY <2>3
  <2> QED
    BY <1>4, <1>6, <1>16, <2>1, <2>2, <2>3, <2>4, <2>5, SameFile
<1> QED
  BY <1>22, <1>23, <1>24 DEF OnlyChanges

\* The last write of a move frees the old block: no layout has it.
LEMMA OldBlockFreed ==
  ASSUME NEW CONSTANT lost, NEW CONSTANT tidy,
         Inv, Inv', CarefulInv(lost, tidy), NEW CONSTANT c \in Blocks, disk[c].blockID # FREE_ID,
         NEW CONSTANT own \in [Blocks -> Slots], NEW CONSTANT pos \in [Blocks -> Nat],
         floating = {c} /\ afloat(lost) = lost \cup {c}, IsLayout(disk, inodeIndices, own, pos, lost \cup {c}, 0),
         disk' = [disk EXCEPT ![c] = freeBlock], UNCHANGED inodeIndices
  PROVE  /\ placed(disk', lost) = placed(disk, lost \cup {c})
         /\ \A b \in placed(disk, lost \cup {c}) : b \in Blocks /\ b # c /\ disk'[b] = disk[b]
         /\ IsLayout(disk', inodeIndices', own, pos, lost, 0)
         /\ NamesOK' /\ OnlyChanges({}) /\ (floating' = {} => LostOK(lost)')
<1>1. disk'[c].blockID = FREE_ID /\ \A b \in Blocks : b # c => disk'[b] = disk[b]
  BY Types DEF freeBlock
<1>2. placed(disk', lost) = placed(disk, lost \cup {c})
  BY <1>1 DEF placed
<1>3. \A b \in placed(disk, lost \cup {c}) : b \in Blocks /\ b # c /\ b # 0 /\ disk'[b] = disk[b]
  BY <1>1, DiskAssumption DEF placed, Blocks
<1>4. IsLayout(disk', inodeIndices', own, pos, lost, 0)
  BY <1>2, <1>3, SameLayout
<1>5. NamesOK'
  <2>1. \A t \in usedSlots : inodeIndices[t] \in placed(disk, lost \cup {c})
    BY SlotsLinked
  <2> QED
    BY <1>3, <2>1, NamesKept
<1>6. OnlyChanges({})
  <2>1. LinksKept(inodeIndices, inodeIndices', {})
    BY DEF LinksKept
  <2>2. BlocksKept(disk, own, pos, lost \cup {c}, 0, disk', own, pos, lost, 0, {})
    BY <1>2, <1>3 DEF BlocksKept
  <2> QED
    BY <1>4, <2>1, <2>2, OthersKept
<1>7. floating' = {} => LostOK(lost)'
  BY <1>1, LostStays
<1> QED
  BY <1>2, <1>3, <1>4, <1>5, <1>6, <1>7

\* The free block tfs_defrag goes on with lies behind the one it has just used.
LEMMA NextCursor ==
  ASSUME Inv, call.pc \in {"freeOldInode", "freeOldExtent"},
         disk' = [disk EXCEPT ![call.cur] = freeBlock]
  PROVE  /\ findFreeBlock(disk', call.free) \in Blocks
         /\ findFreeBlock(disk', call.free) > call.free
         /\ ~(findFreeBlock(disk', call.free) < 0)
<1>1. /\ call.cur \in Blocks /\ call.free \in Blocks /\ call.free < call.cur
      /\ \A b \in freeBlocks : call.free < b
  BY DEF Inv, TypeOK, LocalsOK, DefragCursor
<1>2. /\ findFreeBlock(disk', call.free) \in Blocks
      /\ findFreeBlock(disk', call.free) > call.free
  BY <1>1, CursorAdvances
<1> QED
  BY <1>2, DiskAssumption DEF Blocks

\* The old copy is freed; the next free block lies behind what is compacted.
LEMMA CFreeOldInode ==
  ASSUME NEW CONSTANT lost, NEW CONSTANT tidy, Inv, Inv', CarefulInv(lost, tidy), FreeOldInode
  PROVE  CarefulInv(lost, tidy)' /\ OnlyChanges({})
<1>1. call.pc = "freeOldInode" /\ call.op = "defrag"
  BY OpOfPhase DEF FreeOldInode, CarefulInv
<1>2. PICK f \in Blocks, c \in Blocks, s \in Slots : f = call.free /\ c = call.cur /\ s = call.slot
  BY <1>1 DEF Inv, TypeOK, LocalsOK
<1>3. floating = {c} /\ afloat(lost) = lost \cup {c} /\ DOMAIN openFiles = {}
  BY <1>1, <1>2, AtDefrag DEF floating, afloat
<1>4. PICK own \in [Blocks -> Slots], pos \in [Blocks -> Nat] :
        IsLayout(disk, inodeIndices, own, pos, lost \cup {c}, 0) /\ Moving(lost, tidy, own, pos)
  BY <1>1, <1>3, AtDefrag
<1>5. /\ disk[c] = disk[f] /\ disk[c].blockID = INODE_ID /\ inodeIndices[s] = f
      /\ tidy => \A b \in placed(disk, lost \cup {c}) : own[b] < s => b < f
  BY <1>1, <1>2, <1>3, <1>4 DEF Moving
<1>6. /\ disk' = [disk EXCEPT ![c] = freeBlock]
      /\ inodeIndices' = inodeIndices /\ openFiles' = openFiles
  BY <1>2 DEF FreeOldInode, openList
<1>7. PICK g \in Blocks : /\ g = findFreeBlock(disk', f) /\ g > f /\ ~(g < 0)
  BY <1>1, <1>2, <1>6, NextCursor
<1>8. call' = [call EXCEPT !.pc = "iterateFEs", !.free = g, !.prev = f, !.cur = disk[c].nextBlock]
  BY <1>2, <1>7 DEF FreeOldInode
<1>9. /\ call'.op = "defrag" /\ call'.pc = "iterateFEs" /\ call'.slot = s
      /\ call'.prev = f /\ call'.free = g /\ call'.cur = disk[c].nextBlock
  BY <1>1, <1>2, <1>8, Types DEF Locals
<1>10. floating' = {} /\ afloat(lost)' = lost
  BY <1>9 DEF floating, afloat
<1>11. /\ placed(disk', lost) = placed(disk, lost \cup {c})
       /\ \A b \in placed(disk, lost \cup {c}) : b \in Blocks /\ b # c /\ disk'[b] = disk[b]
       /\ IsLayout(disk', inodeIndices', own, pos, lost, 0)
       /\ NamesOK' /\ OnlyChanges({}) /\ LostOK(lost)'
  BY <1>3, <1>4, <1>5, <1>6, <1>10, OldBlockFreed DEF INODE_ID, FREE_ID
<1>12. f \in placed(disk, lost \cup {c}) /\ own[f] = s /\ pos[f] = 0
  <2>1. inodeIndices[s] # noBlockLink
    BY <1>5, DiskAssumption DEF Blocks, noBlockLink
  <2> QED
    BY <1>4, <1>5, <2>1, InodesPlaced
<1>13. Compacted(lost, tidy, own, pos, 0)'
  <2>1. \A b \in placed(disk, lost \cup {c}) : b \in Nat /\ f \in Nat /\ g \in Nat /\ own[b] \in Nat /\ pos[b] \in Nat
    BY <1>11, DiskAssumption DEF Blocks, Slots
  <2>2. ASSUME tidy, NEW b \in placed(disk, lost \cup {c}), own[b] = s, pos[b] <= 0
        PROVE  b < g
    <3>1. pos[b] = pos[f] /\ own[b] = own[f]
      BY <1>12, <2>1, <2>2
    <3>2. b = f
      BY <1>4, <1>12, <3>1 DEF IsLayout, Apart
    <3> QED
      BY <1>7, <3>2
  <2>3. ASSUME tidy, NEW b \in placed(disk, lost \cup {c}), own[b] < s
        PROVE  b < g
    BY <1>5, <1>7, <2>1, <2>3
  <2> QED
    BY <1>9, <1>10, <1>11, <2>2, <2>3 DEF Compacted
<1>14. Moving(lost, tidy, own, pos)'
  <2>1. disk'[f].nextBlock = disk[c].nextBlock
    BY <1>5, <1>11, <1>12
  <2>2. f \in placed(disk', lost) /\ own[f] = s
    BY <1>11, <1>12
  <2> QED
    BY <1>3, <1>6, <1>9, <1>10, <1>12, <1>13, <2>1, <2>2 DEF Moving
<1>15. CarefulInv(lost, tidy)'
  BY <1>3, <1>6, <1>9, <1>10, <1>11, <1>14, DefragGoesOn
<1> QED
  BY <1>11, <1>15

\* The next extent lies in front of the free block, or is copied to it.
LEMMA CIterateFEs ==
  ASSUME NEW CONSTANT lost, NEW CONSTANT tidy, Inv, Inv', CarefulInv(lost, tidy), IterateFEs
  PROVE  CarefulInv(lost, tidy)' /\ OnlyChanges({})
<1>1. call.pc = "iterateFEs" /\ call.op = "defrag" /\ floating = {} /\ afloat(lost) = lost
  BY OpOfPhase DEF IterateFEs, CarefulInv, floating, afloat
<1>2. DOMAIN openFiles = {}
  BY <1>1, AtDefrag
<1>3. PICK own \in [Blocks -> Slots], pos \in [Blocks -> Nat] :
        IsLayout(disk, inodeIndices, own, pos, lost, 0) /\ Moving(lost, tidy, own, pos)
  BY <1>1, AtDefrag
<1>4. PICK f \in Blocks, p \in Blocks, s \in Slots : f = call.free /\ p = call.prev /\ s = call.slot
  BY <1>1 DEF Inv, TypeOK, LocalsOK
<1>5. PICK c \in BlockLink : c = call.cur
  BY Types DEF Locals
<1>6. disk[f].blockID = FREE_ID /\ f # 0 /\ f \in Nat /\ ~(f < 0)
  BY <1>1, <1>4, DiskAssumption DEF Inv, DefragCursor, freeBlocks, Blocks
<1>7. disk \in [Blocks -> Block] /\ inodeIndices \in [Slots -> BlockLink] /\ call \in Locals
  BY Types
<1>8. \A b \in placed(disk, lost) : /\ b \in Blocks /\ b # 0 /\ b # f
                                  /\ own[b] \in Slots /\ own[b] \in Nat /\ pos[b] \in Nat
  BY <1>6, DiskAssumption DEF placed, Blocks, Slots
<1>9. /\ p \in placed(disk, lost) /\ own[p] = s /\ disk[p].nextBlock = c
      /\ tidy => \A b \in placed(disk, lost) : (own[b] < s \/ (own[b] = s /\ pos[b] <= pos[p])) => b < f
  BY <1>1, <1>3, <1>4, <1>5 DEF Moving, Compacted
<1> DEFINE K == extents(disk, inodeIndices, s)
<1>10. IF pos[p] = K
       THEN c = noBlockLink
       ELSE c \in placed(disk, lost) /\ own[c] = s /\ pos[c] = pos[p] + 1
  BY <1>3, <1>8, <1>9 DEF IsLayout, Linked
<1>11. \A b \in placed(disk, lost) : own[b] = s => pos[b] \in 0..K
  BY <1>3 DEF IsLayout, Placed
<1>12. K \in Nat /\ s \in Nat
  <2>1. inodeIndices[s] # noBlockLink
    BY <1>3, <1>9 DEF IsLayout, Placed
  <2> QED
    BY <1>3, <1>7, <2>1, ExtentsNat, DiskAssumption DEF Slots
<1> HIDE DEF K
<1>13. \A t \in usedSlots : inodeIndices[t] \in placed(disk, lost)
  BY <1>1, SlotsLinked
<1>14. CASE c = noBlockLink
  <2>1. pos[p] = K
    BY <1>8, <1>10, <1>14 DEF noBlockLink
  <2>2. call' = nextSlot /\ disk' = disk /\ inodeIndices' = inodeIndices /\ openFiles' = openFiles
    BY <1>5, <1>14 DEF IterateFEs, diskVars, openList
  <2>3. /\ call'.op = "defrag" /\ call'.pc = "defragInode" /\ call'.slot = s + 1
        /\ call'.free = f
    BY <1>1, <1>4, <1>7, <2>2 DEF nextSlot, Locals
  <2>4. floating' = {} /\ afloat(lost)' = lost
    BY <2>3 DEF floating, afloat
  <2>5. Compacted(lost, tidy, own, pos, -1)'
    <3> SUFFICES ASSUME tidy, NEW b \in placed(disk, lost), own[b] < s + 1 \/ (own[b] = s + 1 /\ pos[b] <= -1)
                 PROVE  b < f
      BY <2>2, <2>3, <2>4 DEF Compacted
    <3>1. own[b] < s \/ own[b] = s
      BY <1>8, <1>12
    <3>2. own[b] = s => pos[b] <= pos[p]
      BY <1>11, <1>12, <2>1
    <3> QED
      BY <1>9, <3>1, <3>2
  <2>6. Moving(lost, tidy, own, pos)'
    BY <1>2, <2>2, <2>3, <2>5 DEF Moving
  <2>7. NamesOK'
    BY <2>2, NamesKept
  <2>8. IsLayout(disk', inodeIndices', own, pos, afloat(lost)', 0)
    BY <1>3, <2>2, <2>4
  <2>9. LostOK(lost)'
    BY <2>2, <2>4, LostStays
  <2>10. CarefulInv(lost, tidy)'
    BY <1>2, <2>2, <2>3, <2>6, <2>7, <2>8, <2>9, DefragGoesOn
  <2> QED
    BY <2>2, <2>10, NoFileChanged DEF diskVars
<1>15. CASE c # noBlockLink
  <2>1. c \in placed(disk, lost) /\ own[c] = s /\ pos[c] = pos[p] + 1
    BY <1>10, <1>15
  <2>2. c \in Blocks /\ c \in Nat /\ c # f /\ pos[c] # 0 /\ pos[p] \in Nat
    BY <1>8, <1>9, <2>1, DiskAssumption DEF Blocks
  <2>3. disk[c].blockID = FILE_EXTENT_ID
    <3>1. disk[c].blockID # FREE_ID /\ disk[c].blockID # INODE_ID
      BY <1>3, <2>1, <2>2 DEF placed, IsLayout, Placed
    <3> QED
      BY <1>7, <2>2, <3>1, BlockFields
  <2>4. safeReadBlock(call.cur, {FILE_EXTENT_ID}) = 0
    <3>1. safeReadBlock(c, {FILE_EXTENT_ID}) = 0
      BY <2>2, <2>3 DEF safeReadBlock
    <3> QED
      BY <1>5, <3>1
  <2>5. \/ /\ f < c
           /\ disk' = [disk EXCEPT ![f] = disk[c]]
           /\ call' = [call EXCEPT !.pc = "swapExtentLink"]
           /\ UNCHANGED <<inodeIndices, openList>>
        \/ /\ c <= f
           /\ call' = [call EXCEPT !.prev = c, !.cur = disk[c].nextBlock]
           /\ UNCHANGED <<diskVars, openList>>
    BY <1>4, <1>5, <1>6, <1>15, <2>4 DEF IterateFEs
  <2>6. CASE /\ f < c
             /\ disk' = [disk EXCEPT ![f] = disk[c]]
             /\ call' = [call EXCEPT !.pc = "swapExtentLink"]
             /\ UNCHANGED <<inodeIndices, openList>>
    <3>1. /\ call'.op = "defrag" /\ call'.pc = "swapExtentLink" /\ call'.slot = s
          /\ call'.cur = c /\ call'.free = f /\ call'.prev = p
      BY <1>1, <1>4, <1>5, <1>7, <2>6 DEF Locals
    <3>2. disk'[f] = disk[c] /\ \A b \in Blocks : b # f => disk'[b] = disk[b]
      BY <1>7, <2>6
    <3>3. inodeIndices' = inodeIndices /\ openFiles' = openFiles
      BY <2>6 DEF openList
    <3>4. floating' = {f} /\ afloat(lost)' = lost \cup {f}
      BY <3>1 DEF floating, afloat
    <3>5. placed(disk', lost \cup {f}) = placed(disk, lost)
      BY <1>6, <3>2 DEF placed
    <3>6. \A b \in placed(disk, lost) : disk'[b] = disk[b]
      BY <1>8, <3>2
    <3>7. IsLayout(disk', inodeIndices', own, pos, lost \cup {f}, 0)
      BY <1>3, <3>3, <3>5, <3>6, SameLayout
    <3>8. Compacted(lost, tidy, own, pos, pos[p])'
      BY <1>9, <3>1, <3>4, <3>5 DEF Compacted
    <3>9. Moving(lost, tidy, own, pos)'
      <4>1. disk'[c] = disk[c] /\ disk'[p].nextBlock = c
        BY <1>9, <2>1, <3>6
      <4>2. p \in placed(disk', afloat(lost)')
        BY <1>9, <3>4, <3>5
      <4>3. disk'[c] = disk'[f] /\ disk'[c].blockID = FILE_EXTENT_ID
        BY <2>3, <3>2, <4>1
      <4> QED
        BY <1>2, <1>9, <3>1, <3>3, <3>8, <4>1, <4>2, <4>3 DEF Moving
    <3>10. NamesOK'
      BY <1>13, <3>3, <3>6, NamesKept
    <3>11. LostOK(lost)'
      BY <1>6, <2>2, <2>3, <3>2, <3>4, LostStays
    <3>12. CarefulInv(lost, tidy)'
      BY <1>2, <3>1, <3>3, <3>4, <3>7, <3>9, <3>10, <3>11, DefragGoesOn
    <3>13. OnlyChanges({})
      <4>1. LinksKept(inodeIndices, inodeIndices', {})
        BY <3>3 DEF LinksKept
      <4>2. BlocksKept(disk, own, pos, lost, 0, disk', own, pos, lost \cup {f}, 0, {})
        BY <1>8, <3>5, <3>6 DEF BlocksKept
      <4> QED
        BY <1>3, <3>7, <4>1, <4>2, OthersKept
    <3> QED
      BY <3>12, <3>13
  <2>7. CASE /\ c <= f
             /\ call' = [call EXCEPT !.prev = c, !.cur = disk[c].nextBlock]
             /\ UNCHANGED <<diskVars, openList>>
    <3>1. /\ call'.op = "defrag" /\ call'.pc = "iterateFEs" /\ call'.slot = s
          /\ call'.prev = c /\ call'.cur = disk[c].nextBlock /\ call'.free = f
      BY <1>1, <1>4, <1>7, <2>7 DEF Locals
    <3>2. disk' = disk /\ inodeIndices' = inodeIndices /\ openFiles' = openFiles
      BY <2>7 DEF diskVars, openList
    <3>3. floating' = {} /\ afloat(lost)' = lost
      BY <3>1 DEF floating, afloat
    <3>4. Compacted(lost, tidy, own, pos, pos[c])'
      <4> SUFFICES ASSUME tidy, NEW b \in placed(disk, lost), own[b] < s \/ (own[b] = s /\ pos[b] <= pos[c])
                   PROVE  b < f
        BY <3>1, <3>2, <3>3 DEF Compacted
      <4>1. CASE own[b] = s /\ pos[b] = pos[c]
        <5>1. b = c
          BY <1>3, <2>1, <4>1 DEF IsLayout, Apart
        <5> QED
          BY <1>6, <2>2, <2>7, <5>1
      <4>2. CASE own[b] < s \/ (own[b] = s /\ pos[b] <= pos[p])
        BY <1>9, <4>2
      <4>3. pos[b] \in Nat /\ pos[p] \in Nat
        BY <1>8, <1>9
      <4> QED
        BY <2>1, <4>1, <4>2, <4>3
    <3>5. Moving(lost, tidy, own, pos)'
      BY <1>2, <2>1, <3>1, <3>2, <3>3, <3>4 DEF Moving
    <3>6. NamesOK'
      BY <3>2, NamesKept
    <3>7. IsLayout(disk', inodeIndices', own, pos, afloat(lost)', 0)
      BY <1>3, <3>2, <3>3
    <3>8. LostOK(lost)'
      BY <3>2, <3>3, LostStays
    <3>9. CarefulInv(lost, tidy)'
      BY <1>2, <3>1, <3>2, <3>5, <3>6, <3>7, <3>8, DefragGoesOn
    <3> QED
      BY <2>7, <3>9, NoFileChanged
  <2> QED
    BY <2>5, <2>6, <2>7
<1> QED
  BY <1>14, <1>15

\* swapFileExtent's write of a link keeps everything else of the block.
LEMMA LinkTurned ==
  ASSUME NEW bl \in Block, bl.blockID # FREE_ID, NEW x
  PROVE  LET m == [bl EXCEPT !.nextBlock = x]
         IN /\ m.blockID = bl.blockID /\ m.nextBlock = x
            /\ bl.blockID = INODE_ID => /\ m.fileSize = bl.fileSize /\ m.fileName = bl.fileName
                                        /\ m.readMode = bl.readMode
            /\ bl.blockID = FILE_EXTENT_ID => m.data = bl.data
BY DEF Block, INODE_ID, FREE_ID, FILE_EXTENT_ID

\* The block in front turns from the old copy of the extent to the new one.
LEMMA CSwapExtentLink ==
  ASSUME NEW CONSTANT lost, NEW CONSTANT tidy, Inv, Inv', CarefulInv(lost, tidy), SwapExtentLink
  PROVE  CarefulInv(lost, tidy)' /\ OnlyChanges({})
<1>1. call.pc = "swapExtentLink" /\ call.op = "defrag"
  BY OpOfPhase DEF SwapExtentLink, CarefulInv
<1>2. PICK f \in Blocks, c \in Blocks, p \in Blocks, s \in Slots :
        f = call.free /\ c = call.cur /\ p = call.prev /\ s = call.slot
  BY <1>1 DEF Inv, TypeOK, LocalsOK
<1>3. floating = {f} /\ afloat(lost) = lost \cup {f} /\ DOMAIN openFiles = {}
  BY <1>1, <1>2, AtDefrag DEF floating, afloat
<1>4. PICK own \in [Blocks -> Slots], pos \in [Blocks -> Nat] :
        IsLayout(disk, inodeIndices, own, pos, lost \cup {f}, 0) /\ Moving(lost, tidy, own, pos)
  BY <1>1, <1>3, AtDefrag
<1>5. /\ disk[c] = disk[f] /\ disk[c].blockID = FILE_EXTENT_ID
      /\ p \in placed(disk, lost \cup {f}) /\ own[p] = s /\ disk[p].nextBlock = c
      /\ tidy => \A b \in placed(disk, lost \cup {f}) : (own[b] < s \/ (own[b] = s /\ pos[b] <= pos[p])) => b < f
  BY <1>1, <1>2, <1>3, <1>4 DEF Moving, Compacted
<1>6. /\ disk \in [Blocks -> Block] /\ inodeIndices \in [Slots -> BlockLink] /\ call \in Locals
      /\ disk' \in [Blocks -> Block]
  BY Types, TypesAfter
<1>7. \A b \in placed(disk, lost \cup {f}) : /\ b \in Blocks /\ b # f /\ b # 0
                                   /\ own[b] \in Nat /\ pos[b] \in Nat
  BY DiskAssumption DEF placed, Blocks, Slots
<1>8. c # 0 /\ f # 0 /\ s \in Nat /\ p \in Nat /\ f \in Nat /\ p # f
  <2>1. p # f
    BY <1>5, <1>7
  <2> QED
    BY <2>1, DiskAssumption DEF Blocks, Slots
<1>9. disk[p].blockID # FREE_ID /\ disk[p] \in Block
  BY <1>5, <1>6 DEF placed
<1>10. /\ disk' = [disk EXCEPT ![p].nextBlock = f]
       /\ inodeIndices' = inodeIndices /\ openFiles' = openFiles
       /\ call' = [call EXCEPT !.pc = "freeOldExtent"]
  BY <1>2 DEF SwapExtentLink, openList
<1>11. /\ call'.op = "defrag" /\ call'.pc = "freeOldExtent" /\ call'.slot = s
       /\ call'.cur = c /\ call'.free = f
  BY <1>1, <1>2, <1>6, <1>10 DEF Locals
<1>12. floating' = {c} /\ afloat(lost)' = lost \cup {c}
  BY <1>11 DEF floating, afloat
<1>13. disk'[p] = [disk[p] EXCEPT !.nextBlock = f] /\ \A b \in Blocks : b # p => disk'[b] = disk[b]
  BY <1>6, <1>10
<1>14. /\ disk'[p].blockID = disk[p].blockID /\ disk'[p].nextBlock = f
       /\ disk[p].blockID = INODE_ID => /\ disk'[p].fileSize = disk[p].fileSize
                                        /\ disk'[p].fileName = disk[p].fileName
                                        /\ disk'[p].readMode = disk[p].readMode
       /\ disk[p].blockID = FILE_EXTENT_ID => disk'[p].data = disk[p].data
  BY <1>9, <1>13, LinkTurned
<1>15. PICK own2 \in [Blocks -> Slots], pos2 \in [Blocks -> Nat] :
         own2 = [own EXCEPT ![f] = own[c]] /\ pos2 = [pos EXCEPT ![f] = pos[c]]
  OBVIOUS
<1>16. own2[f] = own[c] /\ pos2[f] = pos[c]
       /\ \A b \in Blocks : b # f => own2[b] = own[b] /\ pos2[b] = pos[b]
  BY <1>15
<1>17. pos[p] < f
  <2>1. pos[p] <= p
    BY <1>4, <1>5 DEF IsLayout, Placed
  <2>2. p < f
    BY <1>1, <1>2 DEF Inv, DefragCursor
  <2> QED
    BY <1>5, <1>7, <1>8, <2>1, <2>2
<1>18. MovesExtent(disk, inodeIndices, own, pos, lost, f, p, c, disk', own2, pos2)
  <2>1. /\ OnlyAt(disk, disk', Blocks, p) /\ OnlyAt(own, own2, Blocks, f)
        /\ OnlyAt(pos, pos2, Blocks, f)
    BY <1>13, <1>16 DEF OnlyAt
  <2>2. f \notin lost
    BY <1>3 DEF CarefulInv, LostOK
  <2> QED
    BY <1>4, <1>5, <1>6, <1>14, <1>16, <1>17, <2>1, <2>2 DEF MovesExtent
<1>19. /\ placed(disk', lost \cup {c}) = (placed(disk, lost \cup {f}) \ {c}) \cup {f}
       /\ c # f /\ c # p /\ c \in placed(disk, lost \cup {f})
       /\ own[c] = s /\ pos[c] = pos[p] + 1
       /\ IsLayout(disk', inodeIndices', own2, pos2, lost \cup {c}, 0)
  <2>1. /\ placed(disk', lost \cup {c}) = (placed(disk, lost \cup {f}) \ {c}) \cup {f}
        /\ c # f /\ c # p /\ c \in placed(disk, lost \cup {f})
        /\ own[c] = own[p] /\ pos[c] = pos[p] + 1
        /\ IsLayout(disk', inodeIndices, own2, pos2, lost \cup {c}, 0)
    BY <1>18, ExtentMoved
  <2> QED
    BY <1>5, <1>10, <2>1
<1>20. \A b \in placed(disk', lost \cup {c}) : b # f => /\ b \in placed(disk, lost \cup {f})
                                              /\ own2[b] = own[b] /\ pos2[b] = pos[b]
  BY <1>7, <1>16, <1>19
<1>21. f \in placed(disk', lost \cup {c}) /\ own2[f] = s /\ pos2[f] = pos[p] + 1
       /\ pos[p] \in Nat /\ disk'[f] = disk[f] /\ disk'[c] = disk[c]
  BY <1>5, <1>7, <1>8, <1>13, <1>16, <1>19
<1>22. Compacted(lost, tidy, own2, pos2, pos2[f] - 1)'
  <2> SUFFICES ASSUME tidy, NEW b \in placed(disk', lost \cup {c}),
                      own2[b] < s \/ (own2[b] = s /\ pos2[b] <= pos2[f] - 1)
               PROVE  b < f
    BY <1>11, <1>12 DEF Compacted
  <2>1. b # f
    BY <1>8, <1>21
  <2>2. b \in placed(disk, lost \cup {f}) /\ own2[b] = own[b] /\ pos2[b] = pos[b] /\ pos[b] \in Nat
    BY <1>7, <1>20, <2>1
  <2>3. own[b] < s \/ (own[b] = s /\ pos[b] <= pos[p])
    BY <1>21, <2>2
  <2> QED
    BY <1>5, <2>2, <2>3
<1>23. Moving(lost, tidy, own2, pos2)'
  <2>1. disk'[c] = disk'[f] /\ disk'[c].blockID = FILE_EXTENT_ID
    BY <1>5, <1>21
  <2>2. f \in placed(disk', afloat(lost)')
    BY <1>12, <1>21
  <2> QED
    BY <1>3, <1>10, <1>11, <1>21, <1>22, <2>1, <2>2 DEF Moving
<1>24. \A t \in usedSlots : /\ inodeIndices[t] \in Blocks /\ disk[inodeIndices[t]].blockID = INODE_ID
                            /\ disk'[inodeIndices[t]].fileName = disk[inodeIndices[t]].fileName
                            /\ disk'[inodeIndices[t]].fileSize = disk[inodeIndices[t]].fileSize
                            /\ disk'[inodeIndices[t]].readMode = disk[inodeIndices[t]].readMode
  <2> SUFFICES ASSUME NEW t \in usedSlots
               PROVE  /\ inodeIndices[t] \in Blocks /\ disk[inodeIndices[t]].blockID = INODE_ID
                      /\ disk'[inodeIndices[t]].fileName = disk[inodeIndices[t]].fileName
                      /\ disk'[inodeIndices[t]].fileSize = disk[inodeIndices[t]].fileSize
                      /\ disk'[inodeIndices[t]].readMode = disk[inodeIndices[t]].readMode
    OBVIOUS
  <2>1. inodeIndices[t] \in Blocks /\ disk[inodeIndices[t]].blockID = INODE_ID
    BY SlotsLinked
  <2>2. CASE inodeIndices[t] = p
    BY <1>14, <2>1, <2>2
  <2>3. CASE inodeIndices[t] # p
    BY <1>13, <2>1, <2>3
  <2> QED
    BY <2>1, <2>2, <2>3
<1>25. NamesOK'
  BY <1>10, <1>24, NamesKept
<1>26. LostOK(lost)'
  <2>1. \A b \in Blocks : disk'[b].blockID = FREE_ID => disk[b].blockID = FREE_ID
    BY <1>13, <1>14
  <2> QED
    BY <1>3, <1>12, <1>19, <2>1, LostStays
<1>27. CarefulInv(lost, tidy)'
  BY <1>3, <1>10, <1>11, <1>12, <1>19, <1>23, <1>25, <1>26, DefragGoesOn
<1>28. OnlyChanges({s})
  <2>1. LinksKept(inodeIndices, inodeIndices', {s})
    BY <1>10 DEF LinksKept
  <2>2. \A b \in placed(disk', lost \cup {c}) : own2[b] \notin {s} =>
          /\ b \in placed(disk, lost \cup {f}) /\ own[b] = own2[b] /\ pos2[b] = pos[b]
          /\ disk'[b] = disk[b] /\ b # 0
    BY <1>5, <1>7, <1>13, <1>20, <1>21
  <2>3. BlocksKept(disk, own, pos, lost \cup {f}, 0, disk', own2, pos2, lost \cup {c}, 0, {s})
    BY <1>7, <2>2 DEF BlocksKept
  <2> QED
    BY <1>4, <1>19, <2>1, <2>3, OthersKept
<1>29. fileIn(s)' = fileIn(s)
  <2>1. SameData(disk, own, pos, lost \cup {f}, disk', own2, pos2, lost \cup {c}, s)
    <3> SUFFICES ASSUME NEW b \in placed(disk, lost \cup {f}), NEW e \in placed(disk', lost \cup {c}),
                        own[b] = s, own2[e] = s, pos[b] # 0, pos[b] = pos2[e]
                 PROVE  disk'[e].data = disk[b].data
      BY DEF SameData
    <3>1. \A b1, b2 \in placed(disk, lost \cup {f}) : (own[b1] = own[b2] /\ pos[b1] = pos[b2]) => b1 = b2
      BY <1>4 DEF IsLayout, Apart
    <3>2. CASE e = f
      <4>1. b = c
        BY <1>16, <1>19, <3>1, <3>2
      <4> QED
        BY <1>5, <1>21, <3>2, <4>1
    <3>3. CASE e # f
      <4>1. b = e
        BY <1>20, <3>1, <3>3
      <4>2. CASE b = p
        <5>1. disk[p].blockID # INODE_ID
          BY <1>4, <4>2 DEF IsLayout, Placed
        <5>2. disk[p].blockID = FILE_EXTENT_ID
          BY <1>9, <5>1, BlockFields
        <5> QED
          BY <1>14, <4>1, <4>2, <5>2
      <4>3. CASE b # p
        BY <1>7, <1>13, <4>1, <4>3
      <4> QED
        BY <4>2, <4>3
    <3> QED
      BY <3>2, <3>3
  <2>2. Complete(disk, own, lost \cup {f}, 0, s) /\ Complete(disk', own2, lost \cup {c}, 0, s)
    BY <1>7, <1>8, <1>20 DEF Complete
  <2>3. inodeIndices[s] # noBlockLink /\ s \in usedSlots
    BY <1>4, <1>5 DEF IsLayout, Placed, usedSlots
  <2>4. /\ inodeIndices'[s] # noBlockLink
        /\ disk'[inodeIndices'[s]].fileName = disk[inodeIndices[s]].fileName
        /\ disk'[inodeIndices'[s]].fileSize = disk[inodeIndices[s]].fileSize
        /\ disk'[inodeIndices'[s]].readMode = disk[inodeIndices[s]].readMode
    BY <1>10, <1>24, <2>3
  <2>5. inodeIndices' \in [Slots -> BlockLink]
    BY TypesAfter
  <2>6. /\ IsLayout(disk, inodeIndices, own, pos, lost \cup {f}, 0)
        /\ IsLayout(disk', inodeIndices', own2, pos2, lost \cup {c}, 0)
    BY <1>4, <1>19
  <2> QED
    BY <1>6, <2>1, <2>2, <2>3, <2>4, <2>5, <2>6, SameFile
<1> QED
  BY <1>27, <1>28, <1>29 DEF OnlyChanges

\* The old copy is freed, and the walk goes on behind the new one.
LEMMA CFreeOldExtent ==
  ASSUME NEW CONSTANT lost, NEW CONSTANT tidy, Inv, Inv', CarefulInv(lost, tidy), FreeOldExtent
  PROVE  CarefulInv(lost, tidy)' /\ OnlyChanges({})
<1>1. call.pc = "freeOldExtent" /\ call.op = "defrag"
  BY OpOfPhase DEF FreeOldExtent, CarefulInv
<1>2. PICK f \in Blocks, c \in Blocks, s \in Slots : f = call.free /\ c = call.cur /\ s = call.slot
  BY <1>1 DEF Inv, TypeOK, LocalsOK
<1>3. floating = {c} /\ afloat(lost) = lost \cup {c} /\ DOMAIN openFiles = {}
  BY <1>1, <1>2, AtDefrag DEF floating, afloat
<1>4. PICK own \in [Blocks -> Slots], pos \in [Blocks -> Nat] :
        IsLayout(disk, inodeIndices, own, pos, lost \cup {c}, 0) /\ Moving(lost, tidy, own, pos)
  BY <1>1, <1>3, AtDefrag
<1>5. /\ disk[c] = disk[f] /\ disk[c].blockID = FILE_EXTENT_ID
      /\ f \in placed(disk, lost \cup {c}) /\ own[f] = s
      /\ tidy => \A b \in placed(disk, lost \cup {c}) : (own[b] < s \/ (own[b] = s /\ pos[b] <= pos[f] - 1)) => b < f
  BY <1>1, <1>2, <1>3, <1>4 DEF Moving, Compacted
<1>6. /\ disk' = [disk EXCEPT ![c] = freeBlock]
      /\ inodeIndices' = inodeIndices /\ openFiles' = openFiles
  BY <1>2 DEF FreeOldExtent, openList
<1>7. PICK g \in Blocks : /\ g = findFreeBlock(disk', f) /\ g > f /\ ~(g < 0)
  BY <1>1, <1>2, <1>6, NextCursor
<1>8. call' = [call EXCEPT !.pc = "iterateFEs", !.free = g, !.prev = f, !.cur = disk[f].nextBlock]
  BY <1>2, <1>7 DEF FreeOldExtent
<1>9. /\ call'.op = "defrag" /\ call'.pc = "iterateFEs" /\ call'.slot = s
      /\ call'.prev = f /\ call'.free = g /\ call'.cur = disk[f].nextBlock
  BY <1>1, <1>2, <1>8, Types DEF Locals
<1>10. floating' = {} /\ afloat(lost)' = lost
  BY <1>9 DEF floating, afloat
<1>11. /\ placed(disk', lost) = placed(disk, lost \cup {c})
       /\ \A b \in placed(disk, lost \cup {c}) : b \in Blocks /\ b # c /\ disk'[b] = disk[b]
       /\ IsLayout(disk', inodeIndices', own, pos, lost, 0)
       /\ NamesOK' /\ OnlyChanges({}) /\ LostOK(lost)'
  BY <1>3, <1>4, <1>5, <1>6, <1>10, OldBlockFreed DEF FILE_EXTENT_ID, FREE_ID
<1>12. \A b \in placed(disk, lost \cup {c}) : b \in Nat /\ f \in Nat /\ g \in Nat /\ pos[b] \in Nat
  BY <1>11, DiskAssumption DEF Blocks
<1>13. Compacted(lost, tidy, own, pos, pos[f])'
  <2> SUFFICES ASSUME tidy, NEW b \in placed(disk, lost \cup {c}), own[b] < s \/ (own[b] = s /\ pos[b] <= pos[f])
               PROVE  b < g
    BY <1>9, <1>10, <1>11 DEF Compacted
  <2>1. CASE own[b] = s /\ pos[b] = pos[f]
    <3>1. b = f
      BY <1>4, <1>5, <2>1 DEF IsLayout, Apart
    <3> QED
      BY <1>7, <3>1
  <2>2. CASE own[b] < s \/ (own[b] = s /\ pos[b] <= pos[f] - 1)
    <3>1. b < f /\ f < g
      BY <1>5, <1>7, <2>2
    <3>2. b \in Nat /\ f \in Nat /\ g \in Nat
      BY <1>12
    <3> QED
      BY ONLY <3>1, <3>2
  <2>3. pos[b] \in Nat /\ pos[f] \in Nat
    BY <1>5, <1>12
  <2> QED
    BY <2>1, <2>2, <2>3
<1>14. Moving(lost, tidy, own, pos)'
  <2>1. disk'[f].nextBlock = disk[f].nextBlock
    BY <1>5, <1>11
  <2>2. f \in placed(disk', lost) /\ own[f] = s
    BY <1>5, <1>11
  <2> QED
    BY <1>3, <1>6, <1>9, <1>10, <1>13, <2>1, <2>2 DEF Moving
<1>15. CarefulInv(lost, tidy)'
  BY <1>3, <1>6, <1>9, <1>10, <1>11, <1>14, DefragGoesOn
<1> QED
  BY <1>11, <1>15

-----------------------------------------------------------------------------
(* The invariant                                                           *)

\* A disk that has just been formatted has the empty layout.
LEMMA InitCareful == Init => CarefulInv({}, TRUE)
<1> SUFFICES ASSUME Init PROVE CarefulInv({}, TRUE)
  OBVIOUS
<1>1. call = NoCall /\ call.pc = "idle" /\ call.op = "none" /\ DOMAIN openFiles = {}
  BY DEF Init, NoCall
<1>2. /\ \A b \in Blocks : disk[b].blockID = FREE_ID
      /\ \A s \in Slots : inodeIndices[s] = noBlockLink
  BY DEF Init, Format, freeBlock
<1>3. floating = {} /\ afloat({}) = {} /\ placed(disk, {}) = {} /\ usedSlots = {}
  BY <1>1, <1>2 DEF floating, afloat, placed, usedSlots
<1>4. PICK own \in [Blocks -> Slots], pos \in [Blocks -> Nat] :
        own = [b \in Blocks |-> 0] /\ pos = [b \in Blocks |-> 0]
  <2>1. 0 \in Slots /\ 0 \in Nat
    BY DiskAssumption DEF Slots
  <2>2. [b \in Blocks |-> 0] \in [Blocks -> Slots] /\ [b \in Blocks |-> 0] \in [Blocks -> Nat]
    BY <2>1
  <2> QED
    BY <2>2
<1>5. IsLayout(disk, inodeIndices, own, pos, {}, 0)
  BY <1>2, <1>3 DEF IsLayout, Placed, Apart, Rooted, Linked
<1>6. Erasing({}, own, pos, 0) /\ Writing({}, own, pos, 0) /\ Moving({}, TRUE, own, pos) /\ 0 \in BlockLink
  BY <1>1, DiskAssumption DEF Erasing, Writing, Moving, BlockLink
<1>7. LayoutOK({}, TRUE)
  BY <1>3, <1>5, <1>6 DEF LayoutOK, noBlockLink
<1>8. PhaseOK /\ Linking
  BY <1>1 DEF PhaseOK, phases, idle, Linking
<1>9. TableOK /\ NamesOK
  BY <1>1, <1>3 DEF TableOK, NamesOK
<1> QED
  BY <1>3, <1>7, <1>8, <1>9 DEF CarefulInv, LostOK

\* The calls a client may make whatever else it does.
LEMMA CSafeCall ==
  ASSUME NEW CONSTANT lost, NEW CONSTANT tidy, Inv, Inv', CarefulInv(lost, tidy), SafeCall
  PROVE  idle /\ CarefulInv(lost, tidy)' /\ \E s \in Slots : OnlyChanges({s})
<1>1. idle
  BY DEF SafeCall, Mount, Unmount, CallUnmounted, NullName, Readdir, DisplayFragments, OpenFile,
         MakeRO, MakeRW, ChangePermissions, CloseFile, DeleteFile, ReadByte, ReadFileInfo, Seek,
         WriteByte, Ready
<1>2. ASSUME CarefulInv(lost, tidy)' /\ OnlyChanges({})
      PROVE  CarefulInv(lost, tidy)' /\ \E s \in Slots : OnlyChanges({s})
  BY <1>2, AtMostOne
<1>3. CASE Mount
  BY <1>1, <1>2, <1>3, CMount
<1>4. CASE Unmount
  BY <1>1, <1>2, <1>4, CUnmount
<1>5. CASE CallUnmounted \/ NullName \/ Readdir \/ \E fd \in FDs : ReadFileInfo(fd)
  BY <1>1, <1>2, <1>5, CRefusals
<1>6. CASE DisplayFragments
  BY <1>1, <1>2, <1>6, CDisplayFragments
<1>7. ASSUME NEW CONSTANT name \in UserNames, OpenFile(name)
      PROVE  CarefulInv(lost, tidy)' /\ \E s \in Slots : OnlyChanges({s})
  BY <1>2, <1>7, COpenFile
<1>8. ASSUME NEW CONSTANT name \in UserNames, MakeRO(name) \/ MakeRW(name)
      PROVE  CarefulInv(lost, tidy)' /\ \E s \in Slots : OnlyChanges({s})
  BY <1>8, CChangePermissions DEF MakeRO, MakeRW, readFlag
<1>9. ASSUME NEW CONSTANT fd \in FDs, CloseFile(fd)
      PROVE  CarefulInv(lost, tidy)' /\ \E s \in Slots : OnlyChanges({s})
  BY <1>2, <1>9, CCloseFile
<1>10. ASSUME NEW CONSTANT fd \in FDs, DeleteFile(fd)
       PROVE  CarefulInv(lost, tidy)' /\ \E s \in Slots : OnlyChanges({s})
  BY <1>2, <1>10, CDeleteFile
<1>11. ASSUME NEW CONSTANT fd \in FDs, ReadByte(fd)
       PROVE  CarefulInv(lost, tidy)' /\ \E s \in Slots : OnlyChanges({s})
  BY <1>2, <1>11, CReadByte
<1>12. ASSUME NEW CONSTANT fd \in FDs, NEW CONSTANT offset \in SeekOffsets, Seek(fd, offset)
       PROVE  CarefulInv(lost, tidy)' /\ \E s \in Slots : OnlyChanges({s})
  BY <1>2, <1>12, CSeek
<1>13. ASSUME NEW CONSTANT fd \in FDs, NEW CONSTANT byte \in WriteBytes, WriteByte(fd, byte)
       PROVE  CarefulInv(lost, tidy)' /\ \E s \in Slots : OnlyChanges({s})
  BY <1>13, CWriteByte
<1> QED
  BY <1>1, <1>3, <1>4, <1>5, <1>6, <1>7, <1>8, <1>9, <1>10, <1>11, <1>12, <1>13 DEF SafeCall

\* Which files the next step of a call may change.
LEMMA CContinue ==
  ASSUME NEW CONSTANT lost, NEW CONSTANT tidy, Inv, Inv', CarefulInv(lost, tidy), Continue
  PROVE  /\ CarefulInv(lost, tidy)' /\ \E s \in Slots : OnlyChanges({s})
         /\ call.op \in {"writeFile", "deleteFile"} => OnlyChanges({busySlot})
         /\ call.op = "defrag" => OnlyChanges({})
<1>1. OnlyChanges({}) => OnlyChanges({busySlot}) /\ \E s \in Slots : OnlyChanges({s})
  BY AtMostOne DEF OnlyChanges
<1>2. CASE LinkInode
  <2>1. call.op = "openFile"
    BY <1>2, Types DEF LinkInode, CarefulInv, PhaseOK, phases, Locals
  <2> QED
    BY <1>2, <2>1, CLinkInode
<1>3. CASE EraseBlock \/ UpdateInode \/ WriteBlock \/ RemoveInode
  <2>1. CarefulInv(lost, tidy)' /\ OnlyChanges({busySlot})
    BY <1>3, CEraseBlock, CUpdateInode, CWriteBlock, CRemoveInode
  <2>2. call.pc \in {"eraseFileData", "writeBlocks"}
    BY <1>3 DEF EraseBlock, UpdateInode, WriteBlock, RemoveInode
  <2>3. call.op # "defrag" /\ busySlot \in Slots
    BY <2>2, OpOfPhase, BusyFile DEF CarefulInv
  <2> QED
    BY <2>1, <2>3
<1>4. CASE FreeInode \/ DisplayBlock
  BY <1>1, <1>4, CFreeInode, CDisplayBlock
<1>5. CASE DefragInode \/ SwapInodeLink \/ FreeOldInode
  BY <1>1, <1>5, CDefragInode, CSwapInodeLink, CFreeOldInode
<1>6. CASE IterateFEs \/ SwapExtentLink \/ FreeOldExtent
  BY <1>1, <1>6, CIterateFEs, CSwapExtentLink, CFreeOldExtent
<1> QED
  BY <1>2, <1>3, <1>4, <1>5, <1>6 DEF Continue

\* A step that changes no variable.
LEMMA Stuttering ==
  ASSUME NEW CONSTANT lost, NEW CONSTANT tidy, CarefulInv(lost, tidy), UNCHANGED vars
  PROVE  CarefulInv(lost, tidy)'
<1>1. /\ disk' = disk /\ inodeIndices' = inodeIndices /\ openFiles' = openFiles
      /\ call' = call
  BY DEF vars
<1>2. PhaseOK'
  BY <1>1 DEF CarefulInv, PhaseOK, idle, busySlot, unusedSlots, usedSlots, freeBlocks, inodeOf
<1>3. Linking' /\ TableOK' /\ NamesOK'
  BY <1>1 DEF CarefulInv, Linking, TableOK, NamesOK, usedSlots, inodeOf
<1>4. PICK own \in [Blocks -> Slots], pos \in [Blocks -> Nat], tail \in BlockLink :
        /\ IsLayout(disk, inodeIndices, own, pos, afloat(lost), tail)
        /\ call.pc \notin {"eraseFileData", "writeBlocks"} => tail = noBlockLink
        /\ Erasing(lost, own, pos, tail)
        /\ Writing(lost, own, pos, tail)
        /\ Moving(lost, tidy, own, pos)
  BY DEF CarefulInv, LayoutOK
<1>5. /\ floating' = floating /\ afloat(lost)' = afloat(lost)
      /\ freeBlocks' = freeBlocks /\ busySlot' = busySlot /\ toWrite' = toWrite
  BY <1>1 DEF floating, afloat, freeBlocks, busySlot, toWrite
<1>6. toErase(pos)' = toErase(pos)
  BY <1>1, <1>5 DEF toErase
<1>7. Erasing(lost, own, pos, tail)' /\ Writing(lost, own, pos, tail)'
  BY <1>1, <1>4, <1>5, <1>6 DEF Erasing, Writing, inodeOf
<1>8. Compacted(lost, tidy, own, pos, -1)' = Compacted(lost, tidy, own, pos, -1)
  BY <1>1, <1>5 DEF Compacted
<1>9. Compacted(lost, tidy, own, pos, pos[call.prev])' = Compacted(lost, tidy, own, pos, pos[call.prev])
  BY <1>1, <1>5 DEF Compacted
<1>10. Compacted(lost, tidy, own, pos, pos[call.free] - 1)' = Compacted(lost, tidy, own, pos, pos[call.free] - 1)
  BY <1>1, <1>5 DEF Compacted
<1>11. Moving(lost, tidy, own, pos)'
  BY <1>1, <1>4, <1>5, <1>8, <1>9, <1>10 DEF Moving
<1>12. LayoutOK(lost, tidy)'
  BY <1>1, <1>4, <1>5, <1>7, <1>11 DEF LayoutOK
<1>13. LostOK(lost)'
  BY <1>5 DEF CarefulInv, LostOK
<1> QED
  BY <1>2, <1>3, <1>12, <1>13 DEF CarefulInv

\* Every step of a client that keeps all the rules keeps the invariant, changes at
\* most one file, and in the middle of a call only the file the call is about.
LEMMA CarefulNext ==
  ASSUME NEW CONSTANT lost, NEW CONSTANT tidy,
         Inv, Inv', CarefulInv(lost, tidy), [ClientNext]_vars, Habits \subseteq {"reuseName"}
  PROVE  /\ CarefulInv(lost, tidy)' /\ \E s \in Slots : OnlyChanges({s})
         /\ call.op \in {"writeFile", "deleteFile"} => OnlyChanges({busySlot})
         /\ call.op = "defrag" => OnlyChanges({})
<1>1. idle => call.op = "none"
  BY DEF CarefulInv, PhaseOK, NoCall
<1>2. CASE SafeCall
  BY <1>1, <1>2, CSafeCall
<1>3. CASE Continue
  BY <1>3, CContinue
<1>4. ASSUME NEW CONSTANT fd \in FDs, NEW CONSTANT buffer \in Buffers, ClientWrite(fd, buffer)
      PROVE  idle /\ CarefulInv(lost, tidy)' /\ OnlyChanges({})
  <2>1. buffer # <<>> /\ fits(fd, buffer) /\ WriteFile(fd, buffer)
    BY <1>4 DEF ClientWrite
  <2>2. idle
    BY <2>1 DEF WriteFile, Ready
  <2> QED
    BY <2>1, <2>2, CWriteFile
<1>5. ASSUME NEW CONSTANT fd \in FDs, NEW CONSTANT name \in UserNames, ClientRename(fd, name)
      PROVE  idle /\ CarefulInv(lost, tidy)' /\ \E s \in Slots : OnlyChanges({s})
  <2>1. /\ "reuseName" \notin Habits =>
             \A s \in usedSlots : ~(isFile(s) /\ inodeOf(s).fileName = formatName(name))
        /\ Rename(fd, name)
    BY <1>5 DEF ClientRename
  <2>2. idle
    BY <2>1 DEF Rename, Ready
  <2> QED
    BY <2>1, <2>2, CRename
<1>6. CASE ClientDefrag
  <2>1. DOMAIN openFiles = {} /\ Defrag
    BY <1>6 DEF ClientDefrag
  <2>2. idle
    BY <2>1 DEF Defrag, Ready
  <2> QED
    BY <1>1, <2>1, <2>2, CDefrag, AtMostOne
<1>7. CASE UNCHANGED vars
  <2>1. OnlyChanges({})
    BY <1>7, NoFileChanged DEF vars, diskVars
  <2>2. CarefulInv(lost, tidy)'
    BY <1>7, Stuttering
  <2> QED
    BY <2>1, <2>2, AtMostOne DEF OnlyChanges
<1>8. (\E s \in Slots : OnlyChanges({s})) \/ ~OnlyChanges({})
  BY AtMostOne
<1>9. ~ClientFormat
  BY DEF ClientFormat
<1> QED
  BY <1>1, <1>2, <1>3, <1>4, <1>5, <1>6, <1>7, <1>8, <1>9 DEF ClientNext

\* A client of any habits makes steps of TinyFS.
LEMMA ClientInv == ClientSpec => []Inv
<1>1. [ClientNext]_vars => [Next]_vars
  BY DEF ClientNext, ClientWrite, ClientRename, ClientDefrag, ClientFormat, Next
<1> QED
  BY <1>1, InitInv, NextInv, PTL DEF ClientSpec

\* The inductive invariant of the careful client.
LEMMA AlwaysCareful ==
  ASSUME Habits \subseteq {"reuseName"}
  PROVE  ClientSpec => [](Inv /\ CarefulInv({}, TRUE))
<1>1. Inv /\ Inv' /\ CarefulInv({}, TRUE) /\ [ClientNext]_vars => CarefulInv({}, TRUE)'
  BY CarefulNext
<1> QED
  BY <1>1, InitCareful, ClientInv, PTL DEF ClientSpec

-----------------------------------------------------------------------------
(* What always holds.  But for the names, it holds for a client that       *)
(* renames files to names in use, too: no call with a descriptor and no    *)
(* step of one goes by the name of a file.                                 *)

\* Between two calls the open list tells the truth about every open file: its inode,
\* first data block, size and name are those on the disk, and no two descriptors
\* stand for one file, in any sequence of calls of a client that keeps the rules, and
\* of one that renames files to names in use: whichever file a search by name finds.
THEOREM OpenTableFreshCorrect ==
  ASSUME Habits \subseteq {"reuseName"}
  PROVE  ClientSpec => []OpenTableFresh
<1>1. ASSUME CarefulInv({}, TRUE) PROVE OpenTableFresh
  <2> SUFFICES ASSUME idle PROVE OpenTableFresh
    BY DEF OpenTableFresh
  <2>1. call.pc # "freeInode"
    BY DEF idle
  <2>2. \A fd \in DOMAIN openFiles : isFile(openFiles[fd].inodeLinkIndex)
    BY <1>1, <2>1, SlotsLinked DEF CarefulInv, TableOK
  <2> QED
    BY <1>1, <2>1, <2>2 DEF CarefulInv, TableOK, OpenTableFresh
<1>2. Inv /\ CarefulInv({}, TRUE) => OpenTableFresh
  BY <1>1
<1> QED
  BY <1>2, AlwaysCareful, PTL

\* No sequence of calls of a client that keeps the rules gives two files one name.
THEOREM NamesUniqueCorrect == ASSUME Habits = {} PROVE ClientSpec => []NamesUnique
<1>1. Inv /\ CarefulInv({}, TRUE) => NamesUnique
  BY DEF CarefulInv, NamesOK, NamesUnique
<1>2. ClientSpec => [](Inv /\ CarefulInv({}, TRUE))
  BY AlwaysCareful
<1> QED
  BY <1>1, <1>2, PTL

\* Between two calls every block is free or in exactly one file: writing, deleting and
\* defragmenting neither lose a block nor give one to two files, on any disk.
THEOREM BlocksPartitionedCorrect ==
  ASSUME Habits \subseteq {"reuseName"}
  PROVE  ClientSpec => []BlocksPartitioned
<1>1. ASSUME Inv, CarefulInv({}, TRUE) PROVE BlocksPartitioned
  <2> SUFFICES ASSUME idle PROVE BlocksPartitioned
    BY DEF BlocksPartitioned
  <2>1. PICK own \in [Blocks -> Slots], pos \in [Blocks -> Nat] :
          IsLayout(disk, inodeIndices, own, pos, {}, 0)
    BY <1>1, Settled DEF idle
  <2>2. disk \in [Blocks -> Block] /\ inodeIndices \in [Slots -> BlockLink]
    BY <1>1, Types
  <2>3. /\ \A b \in Blocks \ freeBlocks : \E s \in usedSlots : b \in fileBlocks(s)
        /\ \A s \in usedSlots : fileBlocks(s) \cap freeBlocks = {}
        /\ \A s, t \in usedSlots : s # t => fileBlocks(s) \cap fileBlocks(t) = {}
    BY <2>1, <2>2, LayoutPartitions
  <2> QED
    BY <2>3 DEF BlocksPartitioned
<1>2. Inv /\ CarefulInv({}, TRUE) => BlocksPartitioned
  BY <1>1
<1> QED
  BY <1>2, AlwaysCareful, PTL

\* Between two calls every used slot leads to a whole file: an inode, and as many
\* extents as the size in the inode calls for.
THEOREM ChainsMatchSizesCorrect ==
  ASSUME Habits \subseteq {"reuseName"}
  PROVE  ClientSpec => []ChainsMatchSizes
<1>1. ASSUME Inv, CarefulInv({}, TRUE), idle, NEW s \in usedSlots
      PROVE  /\ isFile(s)
             /\ LET ext == fileBlocks(s) \ {inodeIndices[s]}
                IN /\ Cardinality(ext) = blocksFor(inodeOf(s).fileSize)
                   /\ \A b \in ext : disk[b].blockID = FILE_EXTENT_ID
  <2>1. PICK own \in [Blocks -> Slots], pos \in [Blocks -> Nat] :
          IsLayout(disk, inodeIndices, own, pos, {}, 0)
    BY <1>1, Settled DEF idle
  <2>2. disk \in [Blocks -> Block] /\ inodeIndices \in [Slots -> BlockLink]
    BY <1>1, Types
  <2> QED
    BY <1>1, <2>1, <2>2, LayoutMatchesSizes
<1>2. Inv /\ CarefulInv({}, TRUE) => ChainsMatchSizes
  BY <1>1 DEF ChainsMatchSizes
<1> QED
  BY <1>2, AlwaysCareful, PTL

-----------------------------------------------------------------------------
(* What a step may do                                                      *)

\* A set of at most one element.
LEMMA AtMostOneElement == ASSUME NEW x, NEW T \in SUBSET {x} PROVE Cardinality(T) <= 1
<1>1. IsFiniteSet({x}) /\ Cardinality({x}) = 1
  BY FS_Singleton
<1> QED
  BY <1>1, FS_Subset

\* changedFiles are the files that a step does not leave as they are.
LEMMA ChangedFiles ==
  ASSUME NEW S \in SUBSET Slots, OnlyChanges(S)
  PROVE  changedFiles \subseteq S
BY DEF OnlyChanges, changedFiles

\* No step of a careful client changes two files, and the steps of a write or a
\* deletion change only the file behind the descriptor the call was given, be there
\* another file of the same name or not.
THEOREM OthersUntouchedCorrect ==
  ASSUME Habits \subseteq {"reuseName"}
  PROVE  ClientSpec => OthersUntouched
<1> DEFINE untouched ==
      /\ Cardinality(changedFiles) <= 1
      /\ call.op \in {"writeFile", "deleteFile"} =>
           changedFiles \subseteq {openFiles[call.fd].inodeLinkIndex}
<1>1. ASSUME Inv, Inv', CarefulInv({}, TRUE), [ClientNext]_vars PROVE untouched
  <2>1. PICK s \in Slots : OnlyChanges({s})
    BY <1>1, CarefulNext
  <2>2. changedFiles \subseteq {s}
    BY <2>1, ChangedFiles
  <2>3. Cardinality(changedFiles) <= 1
    BY <2>2, AtMostOneElement
  <2>4. ASSUME call.op \in {"writeFile", "deleteFile"}
        PROVE  changedFiles \subseteq {openFiles[call.fd].inodeLinkIndex}
    <3>1. OnlyChanges({busySlot})
      BY <1>1, <2>4, CarefulNext
    <3>2. changedFiles \subseteq {busySlot}
      BY <3>1 DEF OnlyChanges, changedFiles
    <3> QED
      BY <3>2 DEF busySlot
  <2> QED
    BY <2>3, <2>4
<1>2. Inv /\ Inv' /\ CarefulInv({}, TRUE) /\ [ClientNext]_vars => [untouched]_vars
  BY <1>1
<1> HIDE DEF untouched
<1>3. ClientSpec => [][untouched]_vars
  BY <1>2, AlwaysCareful, PTL DEF ClientSpec
<1> QED
  BY <1>3 DEF OthersUntouched, untouched

\* A call that erases or deletes a file takes no slot.
LEMMA ErasingTakesNoSlot ==
  ASSUME Inv, call.pc \in {"eraseFileData", "freeInode"}, [Next]_vars
  PROVE  unusedSlots \ unusedSlots' = {}
<1>1. CASE inodeIndices' = inodeIndices
  BY <1>1 DEF unusedSlots, usedSlots
<1>2. CASE UNCHANGED vars
  BY <1>1, <1>2 DEF vars
<1>3. CASE Next
  <2>1. ~idle
    BY DEF idle
  <2>2. Continue
    BY <1>3, <2>1 DEF Next, SafeCall, Mount, Unmount, CallUnmounted, NullName, Readdir,
       DisplayFragments, OpenFile, MakeRO, MakeRW, ChangePermissions, CloseFile, DeleteFile,
       ReadByte, ReadFileInfo, Seek, WriteByte, Ready, WriteFile, Rename, Defrag, FormatMounted
  <2>3. EraseBlock \/ UpdateInode \/ RemoveInode \/ FreeInode
    BY <2>2 DEF Continue, LinkInode, WriteBlock, DisplayBlock, DefragInode, SwapInodeLink,
       FreeOldInode, IterateFEs, SwapExtentLink, FreeOldExtent
  <2>4. CASE RemoveInode
    <3>1. \A t \in Slots : inodeIndices'[t] = inodeIndices[t] \/ inodeIndices'[t] = noBlockLink
      BY <2>4, Types DEF RemoveInode
    <3> QED
      BY <3>1 DEF unusedSlots, usedSlots
  <2>5. CASE EraseBlock \/ UpdateInode \/ FreeInode
    BY <1>1, <2>5 DEF EraseBlock, UpdateInode, FreeInode, Fail
  <2> QED
    BY <2>3, <2>4, <2>5
<1> QED
  BY <1>2, <1>3

\* A step of any client on a disk where the open files have slots in use takes no
\* slot that a descriptor still stands for.
LEMMA SlotTakenIsNobodys ==
  ASSUME Inv, TableOK, [Next]_vars,
         NEW s \in unusedSlots \ unusedSlots', NEW fd \in DOMAIN openFiles
  PROVE  openFiles[fd].inodeLinkIndex # s
<1>1. call.pc # "freeInode"
  BY ErasingTakesNoSlot
<1>2. openFiles[fd].inodeLinkIndex \in usedSlots
  BY <1>1 DEF TableOK
<1> QED
  BY <1>2 DEF usedSlots, unusedSlots

\* A file that a careful client creates is nobody's: when its slot is taken, every
\* descriptor of the file that was in the slot before is gone from the open list.
THEOREM NoFileInheritedCorrect ==
  ASSUME Habits \subseteq {"reuseName"}
  PROVE  ClientSpec => NoFileInherited
<1> DEFINE nobodys == \A s \in unusedSlots \ unusedSlots' :
                        \A fd \in DOMAIN openFiles : openFiles[fd].inodeLinkIndex # s
<1>1. [ClientNext]_vars => [Next]_vars
  BY DEF ClientNext, ClientWrite, ClientRename, ClientDefrag, ClientFormat, Next
<1>2. Inv /\ CarefulInv({}, TRUE) /\ [ClientNext]_vars => [nobodys]_vars
  BY <1>1, SlotTakenIsNobodys DEF CarefulInv
<1> HIDE DEF nobodys
<1>3. ClientSpec => [][nobodys]_vars
  BY <1>2, AlwaysCareful, PTL DEF ClientSpec
<1> QED
  BY <1>3 DEF NoFileInherited, nobodys

\* After every single block write of tfs_defrag, every file on the disk still has its
\* name, its mode and its bytes: the disk holds all files whole at each of these points.
THEOREM DefragKeepsFilesCorrect ==
  ASSUME Habits \subseteq {"reuseName"}
  PROVE  ClientSpec => DefragKeepsFiles
<1> DEFINE kept == call.op = "defrag" => changedFiles = {}
<1>1. ASSUME Inv, Inv', CarefulInv({}, TRUE), [ClientNext]_vars PROVE kept
  <2> SUFFICES ASSUME call.op = "defrag" PROVE changedFiles = {}
    OBVIOUS
  <2>1. OnlyChanges({})
    BY <1>1, CarefulNext
  <2> QED
    BY <2>1 DEF OnlyChanges, changedFiles
<1>2. Inv /\ Inv' /\ CarefulInv({}, TRUE) /\ [ClientNext]_vars => [kept]_vars
  BY <1>1
<1> HIDE DEF kept
<1>3. ClientSpec => [][kept]_vars
  BY <1>2, AlwaysCareful, PTL DEF ClientSpec
<1> QED
  BY <1>3 DEF DefragKeepsFiles, kept

\* The only step that ends tfs_defrag: no slot is left.
LEMMA DefragEnds ==
  ASSUME NEW CONSTANT lost, NEW CONSTANT tidy,
         Inv, CarefulInv(lost, tidy), call.op = "defrag", idle', [ClientNext]_vars
  PROVE  call.pc = "defragInode" /\ slotsFrom(call.slot) = {} /\ Fail(0)
<1>1. call.pc \in {"defragInode", "swapInodeLink", "freeOldInode", "iterateFEs",
                   "swapExtentLink", "freeOldExtent"}
      /\ call \in Locals
  BY OpOfPhase, Types DEF CarefulInv
<1>2. Continue
  <2>1. ~idle
    BY <1>1 DEF idle
  <2>2. ~UNCHANGED vars
    BY <2>1 DEF vars, idle
  <2> QED
    BY <2>1, <2>2 DEF ClientNext, SafeCall, Mount, Unmount, CallUnmounted, NullName, Readdir,
       DisplayFragments, OpenFile, MakeRO, MakeRW, ChangePermissions, CloseFile, DeleteFile, ReadByte,
       ReadFileInfo, Seek, WriteByte, Ready, ClientWrite, WriteFile, ClientRename, Rename, ClientDefrag,
       Defrag, ClientFormat, FormatMounted
<1>3. DefragInode
  <2>1. ~SwapInodeLink /\ ~SwapExtentLink /\ ~FreeOldExtent /\ ~IterateFEs
    BY <1>1 DEF SwapInodeLink, SwapExtentLink, FreeOldExtent, IterateFEs, nextSlot, Locals, idle
  <2>2. ~FreeOldInode
    <3> SUFFICES ASSUME FreeOldInode PROVE FALSE
      OBVIOUS
    <3>1. call.pc = "freeOldInode" /\ disk' = [disk EXCEPT ![call.cur] = freeBlock]
      BY DEF FreeOldInode
    <3>2. ~(findFreeBlock(disk', call.free) < 0)
      BY <3>1, NextCursor
    <3>3. call'.pc = "iterateFEs"
      BY <1>1, <3>2 DEF FreeOldInode, Locals
    <3> QED
      BY <3>3 DEF idle
  <2>3. ~LinkInode /\ ~EraseBlock /\ ~UpdateInode /\ ~WriteBlock /\ ~RemoveInode /\ ~FreeInode /\ ~DisplayBlock
    BY <1>1 DEF LinkInode, EraseBlock, UpdateInode, WriteBlock, RemoveInode, FreeInode, DisplayBlock
  <2> QED
    BY <1>2, <2>1, <2>2, <2>3 DEF Continue
<1>4. call.pc = "defragInode" /\ ~(call.free < 0)
  <2>1. call.free \in Blocks
    BY <1>3 DEF DefragInode, Inv, DefragCursor, freeBlocks
  <2> QED
    BY <1>3, <2>1, DiskAssumption DEF DefragInode, Blocks
<1>5. slotsFrom(call.slot) = {}
  <2> SUFFICES ASSUME slotsFrom(call.slot) # {} PROVE FALSE
    OBVIOUS
  <2>1. slotsFrom(call.slot) \in SUBSET Nat
    BY DiskAssumption DEF slotsFrom, usedSlots, Slots
  <2>2. Min(slotsFrom(call.slot)) \in usedSlots
    BY <2>1, MinOfNats DEF slotsFrom
  <2>3. safeReadBlock(inodeIndices[Min(slotsFrom(call.slot))], {INODE_ID}) = 0
    BY <2>2, SlotsLinked DEF safeReadBlock
  <2>4. call'.pc \in {"swapInodeLink", "iterateFEs"}
    BY <1>1, <1>3, <1>4, <2>3 DEF DefragInode, Locals
  <2> QED
    BY <2>4 DEF idle
<1>6. Fail(0)
  BY <1>3, <1>5 DEF DefragInode
<1> QED
  BY <1>4, <1>5, <1>6

\* tfs_defrag of a careful client never fails, and leaves all free blocks together at
\* the end of the disk, whatever the sizes and the fragmentation of the files.
THEOREM DefragCompactsCorrect ==
  ASSUME Habits \subseteq {"reuseName"}
  PROVE  ClientSpec => DefragCompacts
<1> DEFINE compacts ==
      (call.op = "defrag" /\ idle') =>
        /\ ret'.code = 0
        /\ \A b \in freeBlocks, c \in Blocks : c > b => c \in freeBlocks
<1>1. ASSUME Inv, Inv', CarefulInv({}, TRUE), [ClientNext]_vars PROVE compacts
  <2> SUFFICES ASSUME call.op = "defrag", idle'
               PROVE  ret'.code = 0 /\ \A b \in freeBlocks, c \in Blocks : c > b => c \in freeBlocks
    OBVIOUS
  <2>1. call.pc = "defragInode" /\ slotsFrom(call.slot) = {} /\ Fail(0)
    BY <1>1, DefragEnds
  <2>2. ret'.code = 0
    BY <2>1 DEF Fail, Return
  <2>3. floating = {} /\ afloat({}) = {}
    BY <2>1 DEF floating, afloat
  <2>4. PICK own \in [Blocks -> Slots], pos \in [Blocks -> Nat] :
          IsLayout(disk, inodeIndices, own, pos, {}, 0) /\ Moving({}, TRUE, own, pos)
    BY <1>1, <2>3, AtDefrag
  <2>5. call.free \in Blocks /\ \A b \in freeBlocks : call.free <= b
    BY <1>1, <2>1 DEF Inv, DefragCursor, freeBlocks
  <2>6. \A b \in placed(disk, {}) : b < call.free
    <3> SUFFICES ASSUME NEW b \in placed(disk, {}) PROVE b < call.free
      OBVIOUS
    <3>1. own[b] \in usedSlots /\ own[b] \in Nat
      BY <2>4, DiskAssumption DEF IsLayout, Placed, usedSlots, Slots
    <3>2. ~(own[b] >= call.slot)
      BY <2>1, <3>1 DEF slotsFrom
    <3>3. call.slot \in Nat
      BY <1>1, Types DEF Locals
    <3>4. own[b] < call.slot
      BY <3>1, <3>2, <3>3
    <3> QED
      BY <2>1, <2>3, <2>4, <3>4 DEF Moving, Compacted
  <2>7. ASSUME NEW b \in freeBlocks, NEW c \in Blocks, c > b
        PROVE  c \in freeBlocks
    <3>1. b \in Nat /\ c \in Nat /\ call.free \in Nat
      BY <2>5, DiskAssumption DEF freeBlocks, Blocks
    <3>2. c \notin placed(disk, {})
      BY <2>5, <2>6, <2>7, <3>1
    <3> QED
      BY <3>2 DEF placed, freeBlocks
  <2> QED
    BY <2>2, <2>7
<1>2. Inv /\ Inv' /\ CarefulInv({}, TRUE) /\ [ClientNext]_vars => [compacts]_vars
  BY <1>1
<1> HIDE DEF compacts
<1>3. ClientSpec => [][compacts]_vars
  BY <1>2, AlwaysCareful, PTL DEF ClientSpec
<1> QED
  BY <1>3 DEF DefragCompacts, compacts

-----------------------------------------------------------------------------
(* A disk without room                                                     *)

\* There is always an unused slot: the used ones lead to different blocks, and there
\* is one slot more than blocks behind the super block.
LEMMA SlotLeft == ASSUME NEW CONSTANT lost, NEW CONSTANT tidy, CarefulInv(lost, tidy) PROVE unusedSlots # {}
<1> SUFFICES ASSUME unusedSlots = {} PROVE FALSE
  OBVIOUS
<1>1. Slots = usedSlots
  BY DEF unusedSlots, usedSlots
<1>2. /\ IsFiniteSet(Slots) /\ Cardinality(Slots) = NumBlocks
      /\ IsFiniteSet(Blocks) /\ Cardinality(Blocks) = NumBlocks - 1
  <2>1. NumBlocks \in Int /\ NumBlocks >= 1
    BY DiskAssumption
  <2>2. Cardinality(0..(NumBlocks - 1)) = NumBlocks /\ IsFiniteSet(0..(NumBlocks - 1))
    BY <2>1, FS_Interval
  <2>3. Cardinality(1..(NumBlocks - 1)) = NumBlocks - 1 /\ IsFiniteSet(1..(NumBlocks - 1))
    BY <2>1, FS_Interval
  <2> QED
    BY <2>2, <2>3 DEF Slots, Blocks
<1> DEFINE f == [s \in Slots |-> inodeIndices[s]]
<1>3. f \in [Slots -> Blocks]
  BY <1>1, SlotsLinked
<1>4. Cardinality(Blocks) < Cardinality(Slots)
  BY <1>2, DiskAssumption
<1> HIDE DEF f
<1>5. PICK s \in Slots, t \in Slots : s # t /\ f[s] = f[t]
  <2>1. \E s, t \in Slots : s # t /\ f[s] = f[t]
    BY <1>2, <1>3, <1>4, FS_PigeonHole, Zenon
  <2> QED
    BY <2>1
<1> QED
  BY <1>1, <1>5, SlotsApart DEF f

\* The codes of the calls that do not look for a free block.
LEMMA OtherCodes ==
  ASSUME NEW CONSTANT lost, NEW CONSTANT tidy,
         Inv, CarefulInv(lost, tidy), NumBlocks # MaxBlockCount, idle', ret'.code = ENOSPC
  PROVE  /\ ~Mount /\ ~Unmount /\ ~CallUnmounted /\ ~NullName /\ ~Readdir /\ ~DisplayFragments
         /\ \A fd \in FDs : /\ ~CloseFile(fd) /\ ~DeleteFile(fd) /\ ~ReadByte(fd) /\ ~ReadFileInfo(fd)
                            /\ \A offset \in SeekOffsets : ~Seek(fd, offset)
                            /\ \A byte \in WriteBytes : ~WriteByte(fd, byte)
                            /\ \A buffer \in Buffers : ~WriteFile(fd, buffer)
                            /\ \A name \in UserNames : ~Rename(fd, name)
         /\ \A name \in UserNames : ~MakeRO(name) /\ ~MakeRW(name)
         /\ ~Defrag
<1>1. \A code : Fail(code) \/ Return(code) => code = ENOSPC
  BY DEF Fail, Return
<1>2. \A b, types : safeReadBlock(b, types) # ENOSPC
  BY SafeReadBlock DEF ENOSPC, EIO, ECORRUPT
<1>3. \A file : locateByte(file) # ENOSPC
  BY <1>2 DEF locateByte, ENOSPC, ERANGE, ECORRUPT
<1>4. ENOSPC # 0
  BY DEF ENOSPC
<1>5. ~Mount /\ ~Unmount /\ ~CallUnmounted /\ ~NullName /\ ~Readdir
  BY <1>1 DEF Mount, Unmount, CallUnmounted, NullName, Readdir, ENOSPC, EALREADY, ENOENT, ENODEV,
              EPARAM, ECORRUPT
<1>6. ~DisplayFragments
  BY DEF DisplayFragments, Begin, idle, NoCall
<1>7. ASSUME NEW fd \in FDs
      PROVE  /\ ~CloseFile(fd) /\ ~ReadByte(fd) /\ ~ReadFileInfo(fd)
             /\ \A offset \in SeekOffsets : ~Seek(fd, offset)
             /\ \A byte \in WriteBytes : ~WriteByte(fd, byte)
             /\ \A name \in UserNames : ~Rename(fd, name)
  <2>1. ~CloseFile(fd) /\ \A offset \in SeekOffsets : ~Seek(fd, offset)
    BY <1>1 DEF CloseFile, Seek, ENOSPC, ENOENT, ERANGE
  <2>2. ~ReadFileInfo(fd) /\ \A name \in UserNames : ~Rename(fd, name)
    BY <1>1, <1>2, <1>4 DEF ReadFileInfo, Rename, ENOSPC, ENOENT
  <2>3. ~ReadByte(fd)
    BY <1>1, <1>2, <1>3, <1>4 DEF ReadByte, ENOSPC, ENOENT
  <2>4. \A byte \in WriteBytes : ~WriteByte(fd, byte)
    BY <1>1, <1>3, <1>4 DEF WriteByte, ENOSPC, ENOENT, EPERM
  <2> QED
    BY <2>1, <2>2, <2>3, <2>4
<1>8. ASSUME NEW fd \in FDs
      PROVE  ~DeleteFile(fd) /\ \A buffer \in Buffers : ~WriteFile(fd, buffer)
  <2>1. ~DeleteFile(fd)
    <3>1. ~Fail(ENOENT)
      BY <1>1 DEF ENOSPC, ENOENT
    <3>2. ~Begin([NoCall EXCEPT !.op = "deleteFile", !.pc = "eraseFileData", !.fd = fd,
                                !.cur = openFiles[fd].nextBlockIndex])
      BY DEF Begin, idle, NoCall
    <3> QED
      BY <3>1, <3>2 DEF DeleteFile
  <2>2. ASSUME NEW buffer \in Buffers PROVE ~WriteFile(fd, buffer)
    <3>1. ~Fail(ENOENT) /\ ~Fail(EPERM)
      BY <1>1 DEF ENOSPC, ENOENT, EPERM
    <3>2. ~Begin([NoCall EXCEPT !.op = "writeFile", !.pc = "eraseFileData", !.fd = fd,
                                !.buf = buffer, !.cur = openFiles[fd].nextBlockIndex])
      BY DEF Begin, idle, NoCall
    <3> QED
      BY <3>1, <3>2 DEF WriteFile
  <2> QED
    BY <2>1, <2>2
<1>9. ASSUME NEW name \in UserNames PROVE ~MakeRO(name) /\ ~MakeRW(name)
  <2>1. searchSB(formatName(name)).code # ENOSPC
    BY SearchSBFound, SlotLeft
  <2>2. ASSUME NEW mode, ChangePermissions(name, mode) PROVE FALSE
    BY <1>1, <2>1, <2>2 DEF ChangePermissions, ENOSPC, ENOENT
  <2> QED
    BY <2>2 DEF MakeRO, MakeRW
<1>10. ~Defrag
  BY <1>1, <1>4 DEF Defrag, Begin, idle, NoCall
<1> QED
  BY <1>5, <1>6, <1>7, <1>8, <1>9, <1>10

\* tfs_openFile reports ENOSPC only when it has looked for a free block and there is
\* none.
LEMMA OpenFileNoSpace ==
  ASSUME NEW CONSTANT lost, NEW CONSTANT tidy,
         Inv, CarefulInv(lost, tidy), NumBlocks # MaxBlockCount, idle', ret'.code = ENOSPC,
         NEW name \in UserNames, OpenFile(name)
  PROVE  freeBlocks = {} /\ disk' = disk
<1> DEFINE target == findFreeBlock(disk, 0)
<1>1. searchSB(formatName(name)).code # ENOSPC
  BY SearchSBFound, SlotLeft
<1>2. \A code : Fail(code) \/ Return(code) => code = ENOSPC
  BY DEF Fail, Return
<1>3. \A fd \in DOMAIN openFiles : fd \in Nat
  BY DiskAssumption DEF Inv, TypeOK, OpenListOK
<1>4. openUnder(formatName(name)) # {} => openFDs_searchByName(formatName(name)) # ENOSPC
  <2> SUFFICES ASSUME openUnder(formatName(name)) # {}
               PROVE  openFDs_searchByName(formatName(name)) # ENOSPC
    OBVIOUS
  <2>1. openUnder(formatName(name)) \in SUBSET (0..MaxFD) /\ MaxFD \in Nat
    BY DiskAssumption DEF openUnder, Inv, TypeOK, OpenListOK
  <2>2. openFDs_searchByName(formatName(name)) \in 0..MaxFD
    BY <2>1, MaxOfBoundedNats DEF openFDs_searchByName
  <2> QED
    BY <2>2 DEF ENOSPC
<1>5. currentFD # ENOSPC
  BY DiskAssumption DEF Inv, TypeOK, OpenListOK, ENOSPC
<1>6. ~Begin([NoCall EXCEPT !.op = "openFile", !.pc = "linkInode", !.cur = target,
                            !.slot = searchSB(formatName(name)).slot, !.name = formatName(name)])
  BY DEF Begin, idle, NoCall
<1>7. target < 0 /\ Fail(target)
  BY <1>1, <1>2, <1>4, <1>5, <1>6 DEF OpenFile
<1>8. freeBlocks = {}
  <2>1. \A b \in Blocks : b > 0 /\ b \in Nat
    BY DiskAssumption DEF Blocks
  <2>2. target \notin Blocks
    BY <1>7, <2>1
  <2>3. \A b \in Blocks : b > 0 => disk[b].blockID # FREE_ID
    BY <2>2, FindFreeBlock
  <2> QED
    BY <2>1, <2>3 DEF freeBlocks
<1> QED
  BY <1>7, <1>8 DEF Fail

\* A write that goes on finds its next block: it has room for the rest of its buffer.
LEMMA RoomLeft ==
  ASSUME NEW CONSTANT lost, NEW CONSTANT tidy,
         Inv, CarefulInv(lost, tidy), call.pc = "writeBlocks", ~(Len(call.buf) <= DataPerBlock)
  PROVE  ~(findFreeBlock(disk, call.cur) < 0)
<1>1. PICK own \in [Blocks -> Slots], pos \in [Blocks -> Nat], tail \in BlockLink :
        Writing(lost, own, pos, tail)
  BY DEF CarefulInv, LayoutOK
<1>2. PICK c \in Blocks : c = call.cur
  BY DEF Inv, TypeOK, LocalsOK
<1>3. /\ call.buf # <<>> /\ toWrite <= Cardinality(freeBlocks)
      /\ c \in freeBlocks /\ \A b \in freeBlocks : c <= b
  BY <1>1, <1>2 DEF Writing
<1>4. call.buf \in Seq(Byte)
  BY Types DEF Locals
<1>5. toWrite >= 2 /\ toWrite \in Nat
  BY <1>3, <1>4, BufferBlocks DEF toWrite
<1>6. Cardinality(freeBlocks) >= 2 /\ Cardinality(freeBlocks \ {c}) = Cardinality(freeBlocks) - 1
  BY <1>3, <1>5, FreeFinite
<1>7. PICK e \in freeBlocks : e # c
  <2>1. freeBlocks \ {c} # {}
    BY <1>6, FS_EmptySet, FreeFinite
  <2> QED
    BY <2>1
<1>8. c \in Int /\ e \in Blocks /\ e > c /\ disk[e].blockID = FREE_ID
  BY <1>3, <1>7, DiskAssumption DEF freeBlocks, Blocks
<1>9. findFreeBlock(disk, c) \in Blocks
  BY <1>8, FindFreeBlock
<1> QED
  BY <1>2, <1>9, DiskAssumption DEF Blocks

\* Nor do the steps behind the first one of a call report ENOSPC for any other reason;
\* a write that fits never runs out of blocks behind its inode.
LEMMA ContinueNoSpace ==
  ASSUME NEW CONSTANT lost, NEW CONSTANT tidy,
         Inv, Inv', CarefulInv(lost, tidy), idle', ret'.code = ENOSPC, Continue
  PROVE  freeBlocks = {} /\ disk' = disk
<1>1. \A code : Fail(code) \/ Return(code) => code = ENOSPC
  BY DEF Fail, Return
<1>2. ENOSPC # 0 /\ call \in Locals
  BY Types DEF ENOSPC
<1>3. ~LinkInode
  BY <1>1, DiskAssumption DEF LinkInode, Inv, TypeOK, OpenListOK, ENOSPC
<1>4. ~EraseBlock /\ ~RemoveInode /\ ~FreeInode /\ ~DisplayBlock
  <2>1. ~EraseBlock
    BY <1>2 DEF EraseBlock, idle, Locals
  <2>2. ~RemoveInode
    BY <1>2 DEF RemoveInode, Begin, idle, Locals
  <2>3. ~FreeInode
    BY <1>1 DEF FreeInode, ENOSPC, EIO
  <2>4. ~DisplayBlock
    BY <1>1, <1>2 DEF DisplayBlock, idle, Locals
  <2> QED
    BY <2>1, <2>2, <2>3, <2>4
<1>5. ~(call.op = "defrag")
  <2> SUFFICES ASSUME call.op = "defrag" PROVE FALSE
    OBVIOUS
  <2>1. [ClientNext]_vars
    BY DEF ClientNext
  <2>2. Fail(0)
    BY <2>1, DefragEnds
  <2> QED
    BY <1>1, <1>2, <2>2
<1>6. ~DefragInode /\ ~SwapInodeLink /\ ~FreeOldInode /\ ~IterateFEs /\ ~SwapExtentLink /\ ~FreeOldExtent
  BY <1>5, OpOfPhase
     DEF CarefulInv, DefragInode, SwapInodeLink, FreeOldInode, IterateFEs, SwapExtentLink, FreeOldExtent
<1>7. ~WriteBlock
  <2> SUFFICES ASSUME WriteBlock PROVE FALSE
    OBVIOUS
  <2> DEFINE next == IF Len(call.buf) <= DataPerBlock THEN noBlockLink ELSE findFreeBlock(disk, call.cur)
  <2>1. next < 0 /\ Fail(next)
    BY <1>1, <1>2 DEF WriteBlock, Begin, idle, Locals
  <2>2. disk' = disk /\ call' = NoCall
    BY <2>1 DEF Fail, Return
  <2>3. ~(Len(call.buf) <= DataPerBlock)
    BY <2>1 DEF noBlockLink
  <2> QED
    BY <2>1, <2>3, RoomLeft DEF WriteBlock
<1>8. CASE UpdateInode
  <2> DEFINE first == findFreeBlock(disk, 0)
  <2>1. first < 0 /\ Fail(first)
    <3>1. ~Fail(EIO) /\ ~Return(0)
      BY <1>1, <1>2 DEF ENOSPC, EIO
    <3>2. ~Begin([call EXCEPT !.pc = "writeBlocks", !.cur = first])
      BY <1>2 DEF Begin, idle, Locals
    <3> QED
      BY <1>8, <3>1, <3>2 DEF UpdateInode
  <2>2. \A b \in Blocks : b > 0 /\ b \in Nat
    BY DiskAssumption DEF Blocks
  <2>3. first \notin Blocks
    BY <2>1, <2>2
  <2>4. \A b \in Blocks : b > 0 => disk[b].blockID # FREE_ID
    BY <2>3, FindFreeBlock
  <2>5. freeBlocks = {}
    BY <2>2, <2>4 DEF freeBlocks
  <2> QED
    BY <2>1, <2>5 DEF Fail
<1> QED
  BY <1>3, <1>4, <1>6, <1>7, <1>8 DEF Continue

\* On any disk but one of the full size, whose super block tfs_openFile takes for full,
\* a call of a careful client reports ENOSPC only when no block is free, and then it
\* has not taken one either.
THEOREM NoSpaceMeansFullCorrect ==
  ASSUME Habits \subseteq {"reuseName"}, NumBlocks # MaxBlockCount
  PROVE  ClientSpec => NoSpaceMeansFull
<1> DEFINE full == (idle' /\ ret'.code = ENOSPC) => (freeBlocks \cup freeBlocks') = {}
<1>1. ASSUME Inv, Inv', CarefulInv({}, TRUE), ClientNext PROVE full
  <2> SUFFICES ASSUME idle', ret'.code = ENOSPC PROVE (freeBlocks \cup freeBlocks') = {}
    OBVIOUS
  <2>1. freeBlocks = {} /\ disk' = disk
    <3>1. CASE \E name \in UserNames : OpenFile(name)
      BY <1>1, <3>1, OpenFileNoSpace
    <3>2. CASE Continue
      BY <1>1, <3>2, ContinueNoSpace
    <3> QED
      BY <1>1, <3>1, <3>2, OtherCodes
         DEF ClientNext, SafeCall, ClientWrite, ClientRename, ClientDefrag, ClientFormat
  <2> QED
    BY <2>1 DEF freeBlocks
<1>2. Inv /\ Inv' /\ CarefulInv({}, TRUE) /\ [ClientNext]_vars => [full]_vars
  BY <1>1
<1> HIDE DEF full
<1>3. ClientSpec => [][full]_vars
  BY <1>2, AlwaysCareful, PTL DEF ClientSpec
<1> QED
  BY <1>3 DEF NoSpaceMeansFull, full

=============================================================================
