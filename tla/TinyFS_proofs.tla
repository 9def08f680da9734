--------------------------- MODULE TinyFS_proofs ---------------------------
(***************************************************************************)
(* Invariants of TinyFS for every disk size, block size, set of names and  *)
(* set of buffers, and for a client that makes any sequence of calls.      *)
(*                                                                         *)
(* TypeOK alone is not inductive: swapFileExtent writes back the block in  *)
(* front of the one it moves, and that block keeps a legal format only     *)
(* because it is not a free block, which is what DefragCursor says.  So    *)
(* the inductive invariant is the conjunction of TypeOK, DefragCursor and  *)
(* ExtentsPointForward, whose defragmentation step rests on DefragCursor.  *)
(***************************************************************************)
EXTENDS TinyFSProperties, MinMax_proofs

-----------------------------------------------------------------------------
(* The helpers                                                             *)

\* findFreeBlock returns ENOSPC or the lowest free block behind start.
LEMMA FindFreeBlock ==
  ASSUME NEW d, NEW start \in Int
  PROVE  LET f == findFreeBlock(d, start)
         IN \/ /\ f = ENOSPC
               /\ \A b \in Blocks : b > start => d[b].blockID # FREE_ID
            \/ /\ f \in Blocks /\ f > start /\ d[f].blockID = FREE_ID
               /\ \A b \in Blocks : b > start /\ d[b].blockID = FREE_ID => f <= b
<1> DEFINE free == {b \in Blocks : b > start /\ d[b].blockID = FREE_ID}
<1>1. free \in SUBSET Nat
  BY DiskAssumption DEF Blocks
<1>2. CASE free = {}
  BY <1>2 DEF findFreeBlock
<1>3. CASE free # {}
  <2>1. findFreeBlock(d, start) = Min(free)
    BY <1>3 DEF findFreeBlock
  <2>2. Min(free) \in free /\ \A y \in free : Min(free) <= y
    BY <1>1, <1>3, MinOfNats
  <2> QED
    BY <2>1, <2>2
<1> QED
  BY <1>2, <1>3

\* safeReadBlock returns 0 only for a block of the disk that has one of the types.
LEMMA SafeReadBlock ==
  ASSUME NEW b, NEW types
  PROVE  /\ safeReadBlock(b, types) \in {0, EIO, ECORRUPT}
         /\ safeReadBlock(b, types) = 0 => b \in Blocks /\ disk[b].blockID \in types
BY DEF safeReadBlock, EIO, ECORRUPT

\* searchSB returns an error, or 0 with a slot for a new inode, or 1 with the slot
\* of an inode.
LEMMA SearchSB ==
  ASSUME NEW name
  PROVE  LET found == searchSB(name)
         IN /\ found.code \in {0, 1, ENOSPC, EIO, ECORRUPT}
            /\ found.code = 0 => found.slot \in Slots
            /\ found.code = 1 => /\ found.slot \in Slots
                                 /\ inodeIndices[found.slot] \in Blocks
                                 /\ disk[inodeIndices[found.slot]].blockID = INODE_ID
<1> DEFINE hits   == slotHits(name)
           unused == unusedSlots
           err == safeReadBlock(inodeIndices[Min(hits)], {INODE_ID})
<1>1. hits \subseteq Slots /\ unused \subseteq Slots /\ Slots \subseteq Nat
  BY DiskAssumption DEF Slots, slotHits, usedSlots, unusedSlots
<1>2. hits # {} => Min(hits) \in Slots
  <2> HIDE DEF hits
  <2> QED
    BY <1>1, MinOfNats
<1>3. unused # {} => Min(unused) \in Slots
  <2> HIDE DEF unused
  <2> QED
    BY <1>1, MinOfNats
<1>4. /\ err \in {0, EIO, ECORRUPT}
      /\ err = 0 => /\ inodeIndices[Min(hits)] \in Blocks
                    /\ disk[inodeIndices[Min(hits)]].blockID = INODE_ID
  BY SafeReadBlock
<1>5. CASE NumBlocks = MaxBlockCount
  BY <1>5 DEF searchSB, ENOSPC
<1>6. CASE NumBlocks # MaxBlockCount /\ hits # {}
  <2>1. searchSB(name) = [code |-> IF err = 0 THEN 1 ELSE err, slot |-> Min(hits)]
    BY <1>6 DEF searchSB
  <2>2. CASE err = 0
    <3> HIDE DEF hits, err
    <3> QED
      BY <2>1, <2>2, <1>2, <1>4, <1>6
  <2>3. CASE err # 0
    <3> HIDE DEF hits, err
    <3>1. searchSB(name).code = err
      BY <2>1, <2>3
    <3> QED
      BY <3>1, <2>3, <1>4 DEF EIO, ECORRUPT
  <2> QED
    BY <2>2, <2>3
<1>7. CASE NumBlocks # MaxBlockCount /\ hits = {} /\ unused = {}
  <2>1. searchSB(name) = [code |-> ENOSPC, slot |-> 0]
    BY <1>7 DEF searchSB
  <2> QED
    BY <2>1 DEF ENOSPC
<1>8. CASE NumBlocks # MaxBlockCount /\ hits = {} /\ unused # {}
  <2>1. searchSB(name) = [code |-> 0, slot |-> Min(unused)]
    BY <1>8 DEF searchSB
  <2> QED
    BY <2>1, <1>3, <1>8
<1> QED
  BY <1>5, <1>6, <1>7, <1>8

\* The byte at the file pointer is read only inside an extent, and only at a
\* position up to the file size.
LEMMA LocateByte ==
  ASSUME NEW file
  PROVE  LET b == extentAt(file.nextBlockIndex, file.location \div DataPerBlock)
         IN locateByte(file) = 0 =>
              /\ b \in Blocks /\ disk[b].blockID = FILE_EXTENT_ID
              /\ ~(file.location > file.fileSize)
<1> DEFINE b == extentAt(file.nextBlockIndex, file.location \div DataPerBlock)
<1> HIDE DEF b
<1>1. locateByte(file) = IF file.location > file.fileSize THEN ERANGE
                         ELSE IF b = -1 THEN ECORRUPT
                         ELSE safeReadBlock(b, {FILE_EXTENT_ID})
  BY DEF locateByte, b
<1>2. safeReadBlock(b, {FILE_EXTENT_ID}) = 0 => b \in Blocks /\ disk[b].blockID = FILE_EXTENT_ID
  BY SafeReadBlock
<1>3. locateByte(file) = 0 =>
        b \in Blocks /\ disk[b].blockID = FILE_EXTENT_ID /\ ~(file.location > file.fileSize)
  BY <1>1, <1>2 DEF ERANGE, ECORRUPT
<1> QED
  BY <1>3 DEF b

-----------------------------------------------------------------------------
(* Blocks                                                                  *)

\* The blocks the program writes from scratch have a legal format.
LEMMA WrittenBlocks ==
  /\ freeBlock \in Block
  /\ \A name \in Name, size \in Nat, next \in BlockLink, mode \in readFlag :
       inodeBlock(name, size, next, mode) \in Block
  /\ \A next \in BlockLink, data \in BlockData : fileExtentBlock(next, data) \in Block
BY DEF Block, freeBlock, inodeBlock, fileExtentBlock, noBlockLink

\* The fields of a block have their types, and a free block links nowhere.
LEMMA BlockFields ==
  ASSUME NEW bl \in Block
  PROVE  /\ bl.blockID \in {INODE_ID, FILE_EXTENT_ID, FREE_ID}
         /\ bl.nextBlock \in BlockLink
         /\ bl.blockID = FREE_ID => bl.nextBlock = noBlockLink
         /\ bl.blockID = INODE_ID => bl.fileName \in Name /\ bl.fileSize \in Nat
         /\ bl.blockID = FILE_EXTENT_ID => bl.data \in BlockData
BY DiskAssumption DEF Block, BlockLink, noBlockLink, INODE_ID, FILE_EXTENT_ID, FREE_ID

\* The writes that change one field of a block leave a legal block, and leave the
\* block's type and (but for the first) its link alone.
LEMMA ChangedBlocks ==
  ASSUME NEW bl \in Block
  PROVE  /\ bl.blockID # FREE_ID =>
              \A next \in BlockLink : /\ [bl EXCEPT !.nextBlock = next] \in Block
                                      /\ [bl EXCEPT !.nextBlock = next].blockID = bl.blockID
                                      /\ [bl EXCEPT !.nextBlock = next].nextBlock = next
         /\ bl.blockID = INODE_ID =>
              \A name \in Name : /\ [bl EXCEPT !.fileName = name] \in Block
                                 /\ [bl EXCEPT !.fileName = name].blockID = bl.blockID
                                 /\ [bl EXCEPT !.fileName = name].nextBlock = bl.nextBlock
         /\ bl.blockID # FILE_EXTENT_ID =>
              \A mode \in readFlag : /\ [bl EXCEPT !.readMode = mode] \in Block
                                     /\ [bl EXCEPT !.readMode = mode].blockID = bl.blockID
                                     /\ [bl EXCEPT !.readMode = mode].nextBlock = bl.nextBlock
         /\ bl.blockID = FILE_EXTENT_ID =>
              \A i \in 0..(DataPerBlock - 1), byte \in Byte :
                /\ [bl EXCEPT !.data[i] = byte] \in Block
                /\ [bl EXCEPT !.data[i] = byte].blockID = bl.blockID
                /\ [bl EXCEPT !.data[i] = byte].nextBlock = bl.nextBlock
<1> DEFINE FreeFormat   == [blockID : {FREE_ID}, nextBlock : {noBlockLink}, readMode : {0} \cup readFlag]
           InodeFormat  == [blockID : {INODE_ID}, nextBlock : BlockLink, fileName : Name,
                            fileSize : Nat, readMode : readFlag]
           ExtentFormat == [blockID : {FILE_EXTENT_ID}, nextBlock : BlockLink, data : BlockData]
<1>1. CASE bl \in FreeFormat
  BY <1>1 DEF Block, INODE_ID, FILE_EXTENT_ID, FREE_ID
<1>2. CASE bl \in InodeFormat
  BY <1>2 DEF Block, INODE_ID, FILE_EXTENT_ID, FREE_ID
<1>3. CASE bl \in ExtentFormat
  <2>1. \A i \in 0..(DataPerBlock - 1), byte \in Byte :
          /\ [bl EXCEPT !.data[i] = byte] \in ExtentFormat
          /\ [bl EXCEPT !.data[i] = byte].blockID = bl.blockID
          /\ [bl EXCEPT !.data[i] = byte].nextBlock = bl.nextBlock
    BY <1>3 DEF BlockData
  <2>2. \A next \in BlockLink : /\ [bl EXCEPT !.nextBlock = next] \in ExtentFormat
                                /\ [bl EXCEPT !.nextBlock = next].blockID = bl.blockID
                                /\ [bl EXCEPT !.nextBlock = next].nextBlock = next
    BY <1>3
  <2>3. bl.blockID = FILE_EXTENT_ID
    BY <1>3
  <2> QED
    BY <2>1, <2>2, <2>3 DEF Block, INODE_ID, FILE_EXTENT_ID, FREE_ID
<1> QED
  BY <1>1, <1>2, <1>3 DEF Block

\* A position taken modulo the block size is a position inside a block.
LEMMA Modulo ==
  ASSUME NEW x \in Nat
  PROVE  x % DataPerBlock \in 0..(DataPerBlock - 1)
BY DiskAssumption

\* The names and buffers the client passes arrive in the form blocks store.
LEMMA Inputs ==
  /\ \A name \in UserNames : formatName(name) \in Name
  /\ \A buffer \in Buffers : buffer \in Seq(Byte)
  /\ \A byte \in WriteBytes : byte \in Byte
  /\ \A buffer \in Seq(Byte) : /\ blockOf(buffer) \in BlockData
                               /\ restOf(buffer) \in Seq(Byte)
<1>1. \A name \in UserNames : formatName(name) \in Name
  BY DEF Name
<1>2. ASSUME NEW buffer \in Seq(Byte)
      PROVE  blockOf(buffer) \in BlockData /\ restOf(buffer) \in Seq(Byte)
  <2>1. blockOf(buffer) \in BlockData
    <3>1. \A i \in 0..(DataPerBlock - 1) : i < Len(buffer) => i + 1 \in 1..Len(buffer)
      BY DiskAssumption
    <3>2. \A i \in 0..(DataPerBlock - 1) :
            (IF i < Len(buffer) THEN buffer[i + 1] ELSE 0) \in Byte
      <4>1. \A j \in 1..Len(buffer) : buffer[j] \in Byte
        OBVIOUS
      <4>2. 0 \in Byte
        BY DEF Byte
      <4> QED
        BY <3>1, <4>1, <4>2
    <3> QED
      BY <3>2 DEF blockOf, BlockData
  <2>2. restOf(buffer) \in Seq(Byte)
    BY DiskAssumption DEF restOf
  <2> QED
    BY <2>1, <2>2
<1> QED
  BY <1>1, <1>2, ClientAssumption

-----------------------------------------------------------------------------
(* The inductive invariant                                                 *)

Inv == TypeOK /\ DefragCursor /\ ExtentsPointForward

\* What a step leaves of the disk when it writes no block, or one legal block whose
\* link, if the block is an extent, points forward.
LEMMA NoBlockWritten ==
  ASSUME Inv, UNCHANGED diskVars
  PROVE  DiskOK' /\ ExtentsPointForward'
BY DEF Inv, TypeOK, DiskOK, ExtentsPointForward, diskVars

LEMMA OneBlockWritten ==
  ASSUME Inv, NEW b \in Blocks, NEW bl \in Block,
         disk' = [disk EXCEPT ![b] = bl],
         bl.blockID = FILE_EXTENT_ID => bl.nextBlock = noBlockLink \/ bl.nextBlock > b,
         UNCHANGED inodeIndices
  PROVE  DiskOK' /\ ExtentsPointForward'
<1>1. disk \in [Blocks -> Block] /\ inodeIndices \in [Slots -> BlockLink]
  BY DEF Inv, TypeOK, DiskOK
<1>2. DiskOK'
  BY <1>1 DEF DiskOK
<1>3. ASSUME NEW c \in Blocks, disk'[c].blockID = FILE_EXTENT_ID
      PROVE  disk'[c].nextBlock = noBlockLink \/ disk'[c].nextBlock > c
  <2>1. CASE c = b
    BY <1>1, <1>3, <2>1
  <2>2. CASE c # b
    <3>1. disk'[c] = disk[c]
      BY <1>1, <2>2
    <3> QED
      BY <1>3, <3>1 DEF Inv, ExtentsPointForward
  <2> QED
    BY <2>1, <2>2
<1> QED
  BY <1>2, <1>3 DEF ExtentsPointForward

LEMMA OneLinkWritten ==
  ASSUME Inv, NEW s \in Slots, NEW b \in BlockLink,
         inodeIndices' = [inodeIndices EXCEPT ![s] = b], UNCHANGED disk
  PROVE  DiskOK' /\ ExtentsPointForward'
BY DEF Inv, TypeOK, DiskOK, ExtentsPointForward

LEMMA OpenListKept ==
  ASSUME Inv, UNCHANGED <<openList, mounted>>
  PROVE  OpenListOK'
BY DEF Inv, TypeOK, OpenListOK, openList

\* After a call has returned there are no locals to speak of.
LEMMA Returned ==
  ASSUME NEW code \in Int, Return(code)
  PROVE  LocalsOK' /\ DefragCursor' /\ ret' \in [code : Int, byte : Byte]
<1>1. <<>> \in Seq(Byte) /\ 0 \in BlockLink /\ 0 \in Byte
  BY DiskAssumption DEF BlockLink, Byte
<1>2. call' = NoCall /\ call'.pc = "idle" /\ call' \in Locals
  BY <1>1 DEF Return, NoCall, Locals
<1>3. LocalsOK' /\ DefragCursor'
  BY <1>2 DEF LocalsOK, DefragCursor
<1> QED
  BY <1>1, <1>3 DEF Return

LEMMA Failed ==
  ASSUME Inv, NEW code \in Int, Fail(code)
  PROVE  Inv'
<1>1. Return(code) /\ UNCHANGED <<openList, mounted>> /\ UNCHANGED diskVars
  BY DEF Fail, openList, diskVars
<1> QED
  BY <1>1, Returned, OpenListKept, NoBlockWritten DEF Inv, TypeOK

\* A new entry of the open list, and the removal of one.
LEMMA Added ==
  ASSUME Inv, currentFD <= MaxFD, UNCHANGED mounted,
         NEW size \in Nat, NEW name \in Name, NEW slot \in Slots, NEW next \in BlockLink,
         openFDs_add(size, name, slot, next)
  PROVE  OpenListOK'
<1>1. OpenListOK
  BY DEF Inv, TypeOK
<1>2. currentFD' = currentFD + 1 /\ currentFD' \in 1..(MaxFD + 1)
  BY <1>1, DiskAssumption DEF openFDs_add, OpenListOK
<1>3. DOMAIN openFiles' = DOMAIN openFiles \cup {currentFD}
  BY DEF openFDs_add
<1>4. DOMAIN openFiles' \subseteq 1..(currentFD' - 1)
  BY <1>1, <1>2, <1>3, DiskAssumption DEF OpenListOK
<1>5. ASSUME NEW fd \in DOMAIN openFiles'
      PROVE  openFiles'[fd] \in TinyOpenFile
  <2>1. CASE fd = currentFD
    <3>1. openFiles'[fd] = [location |-> 0, inodeLinkIndex |-> slot, nextBlockIndex |-> next,
                            fileSize |-> size, fileName |-> name]
      BY <2>1 DEF openFDs_add
    <3> QED
      BY <3>1 DEF TinyOpenFile
  <2>2. CASE fd # currentFD
    <3>1. fd \in DOMAIN openFiles /\ openFiles'[fd] = openFiles[fd]
      BY <1>3, <1>5, <2>2 DEF openFDs_add
    <3> QED
      BY <1>1, <3>1 DEF OpenListOK
  <2> QED
    BY <2>1, <2>2
<1> QED
  BY <1>1, <1>2, <1>4, <1>5 DEF OpenListOK

LEMMA Removed ==
  ASSUME Inv, UNCHANGED mounted, NEW fd, openFDs_removeByFD(fd)
  PROVE  OpenListOK'
BY DEF Inv, TypeOK, OpenListOK, openFDs_removeByFD, Restrict

\* An entry of the open list that has changed.
LEMMA Updated ==
  ASSUME Inv, UNCHANGED <<mounted, currentFD>>,
         NEW fd \in DOMAIN openFiles, NEW file \in TinyOpenFile,
         openFiles' = [openFiles EXCEPT ![fd] = file]
  PROVE  OpenListOK' /\ DOMAIN openFiles' = DOMAIN openFiles
BY DEF Inv, TypeOK, OpenListOK

\* An open file leads to a slot of the super block, which is unused or leads to a
\* block.
LEMMA OpenFileFields ==
  ASSUME Inv, NEW fd \in DOMAIN openFiles
  PROVE  /\ openFiles[fd] \in TinyOpenFile
         /\ openFiles[fd].inodeLinkIndex \in Slots
         /\ openFiles[fd].nextBlockIndex \in BlockLink
         /\ openFiles[fd].location \in Nat /\ openFiles[fd].fileSize \in Nat
         /\ openFiles[fd].fileName \in Name
         /\ inodeLink(openFiles[fd]) \in BlockLink
         /\ inodeLink(openFiles[fd]) # noBlockLink => inodeLink(openFiles[fd]) \in Blocks
<1>1. openFiles[fd] \in TinyOpenFile
  BY DEF Inv, TypeOK, OpenListOK
<1>2. inodeIndices \in [Slots -> BlockLink]
  BY DEF Inv, TypeOK, DiskOK
<1>3. \A b \in BlockLink : b # noBlockLink => b \in Blocks
  BY DiskAssumption DEF BlockLink, Blocks, noBlockLink
<1> QED
  BY <1>1, <1>2, <1>3 DEF TinyOpenFile, inodeLink

-----------------------------------------------------------------------------
(* The calls of tinyFS.c                                                   *)

LEMMA ErrorCodes ==
  /\ {ENOSPC, ERANGE, EIO, ENOENT, EALREADY, ENODEV, ECORRUPT, EPARAM, EPERM} \subseteq Int
  /\ ENOSPC < 0
BY DEF ENOSPC, ERANGE, EIO, ENOENT, EALREADY, ENODEV, ECORRUPT, EPARAM, EPERM

LEMMA MountStep == ASSUME Inv, Mount PROVE Inv'
<1>1. ASSUME Fail(EALREADY) \/ Fail(ENOENT) PROVE Inv'
  BY <1>1, Failed, ErrorCodes
<1>2. ASSUME mounted' = TRUE, Return(0), UNCHANGED <<diskVars, openList>>
      PROVE  Inv'
  <2>1. OpenListOK'
    BY <1>2 DEF Inv, TypeOK, OpenListOK, openList
  <2> QED
    BY <1>2, <2>1, Returned, NoBlockWritten DEF Inv, TypeOK
<1> QED
  BY <1>1, <1>2 DEF Mount

LEMMA UnmountStep == ASSUME Inv, Unmount PROVE Inv'
<1>1. OpenListOK'
  <2>1. CASE mounted
    <3>1. openFiles' = [fd \in {} |-> NoResult] /\ currentFD' = 1 /\ mounted' = FALSE
      BY <2>1 DEF Unmount, openFDs_Reset
    <3>2. DOMAIN openFiles' = {}
      BY <3>1
    <3>3. mounted' \in BOOLEAN
      BY <3>1
    <3>4. currentFD' \in 1..(MaxFD + 1)
      BY <3>1, DiskAssumption
    <3> QED
      BY <3>2, <3>3, <3>4 DEF OpenListOK
  <2>2. CASE ~mounted
    BY <2>2 DEF Unmount, Inv, TypeOK, OpenListOK, openList
  <2> QED
    BY <2>1, <2>2
<1> QED
  BY <1>1, Returned, NoBlockWritten DEF Unmount, Inv, TypeOK

LEMMA OpenFileStep == ASSUME Inv, NEW name \in UserNames, OpenFile(name) PROVE Inv'
<1> DEFINE fname  == formatName(name)
           found  == searchSB(fname)
           target == findFreeBlock(disk, 0)
<1>1. /\ fname \in Name
      /\ found.code \in {0, 1, ENOSPC, EIO, ECORRUPT}
      /\ found.code = 0 => found.slot \in Slots
      /\ found.code = 1 => /\ found.slot \in Slots
                           /\ inodeIndices[found.slot] \in Blocks
                           /\ disk[inodeIndices[found.slot]].blockID = INODE_ID
      /\ target = ENOSPC \/ target \in Blocks
  BY Inputs, SearchSB, FindFreeBlock
<1>2. CASE openUnder(fname) # {} /\ Fail(openFDs_searchByName(fname))
  <2>1. currentFD \in Nat /\ openUnder(fname) \in SUBSET (0..currentFD)
    BY DiskAssumption DEF Inv, TypeOK, OpenListOK, openUnder
  <2>2. openFDs_searchByName(fname) \in Int
    BY <1>2, <2>1, MaxOfBoundedNats DEF openFDs_searchByName
  <2> QED
    BY <1>2, <2>2, Failed
<1>3. CASE Fail(found.code)
  BY <1>1, <1>3, Failed, ErrorCodes
<1>4. CASE /\ found.code = 1
           /\ openFDs_add(disk[inodeIndices[found.slot]].fileSize, fname, found.slot,
                          disk[inodeIndices[found.slot]].nextBlock)
           /\ Return(currentFD)
           /\ UNCHANGED <<diskVars, mounted>>
  <2> DEFINE in == disk[inodeIndices[found.slot]]
  <2>1. in \in Block /\ in.blockID = INODE_ID
    BY <1>1, <1>4 DEF Inv, TypeOK, DiskOK
  <2>2. in.fileSize \in Nat /\ in.nextBlock \in BlockLink
    BY <2>1, BlockFields
  <2>3. currentFD <= MaxFD /\ currentFD \in Int
    BY DiskAssumption DEF OpenFile, Inv, TypeOK, OpenListOK
  <2>4. OpenListOK'
    <3> HIDE DEF fname, found, in
    <3> QED
      BY <1>1, <1>4, <2>2, <2>3, Added DEF in
  <2> QED
    BY <1>4, <2>3, <2>4, Returned, NoBlockWritten DEF Inv, TypeOK
<1>5. CASE target < 0 /\ Fail(target)
  BY <1>1, <1>5, Failed, ErrorCodes, DiskAssumption DEF Blocks
<1>6. CASE /\ found.code = 0 /\ target > 0
           /\ disk' = [disk EXCEPT ![target] = inodeBlock(fname, 0, noBlockLink, readAndWrite)]
           /\ Begin([NoCall EXCEPT !.op = "openFile", !.pc = "linkInode", !.cur = target,
                                   !.slot = found.slot, !.name = fname])
           /\ UNCHANGED <<inodeIndices, mounted, openList>>
  <2>1. target \in Blocks
    BY <1>1, <1>6, ErrorCodes
  <2>2. inodeBlock(fname, 0, noBlockLink, readAndWrite) \in Block
    BY <1>1, WrittenBlocks, DiskAssumption DEF BlockLink, noBlockLink, readFlag
  <2>3. inodeBlock(fname, 0, noBlockLink, readAndWrite).nextBlock = noBlockLink
    BY DEF inodeBlock
  <2>4. DiskOK' /\ ExtentsPointForward'
    BY <1>6, <2>1, <2>2, <2>3, OneBlockWritten
  <2>5. OpenListOK'
    BY <1>6, OpenListKept
  <2>6. <<>> \in Seq(Byte) /\ 0 \in BlockLink /\ 0 \in Byte /\ Blocks \subseteq BlockLink
        /\ Slots \subseteq Nat
    BY DiskAssumption DEF BlockLink, Byte, Blocks, Slots
  <2>7. /\ call'.pc = "linkInode" /\ call'.cur = target /\ call'.slot = found.slot
        /\ call'.name = fname
        /\ call' \in Locals
        /\ ret' \in [code : Int, byte : Byte]
    <3> HIDE DEF fname, found, target
    <3>1. call' = [op |-> "openFile", pc |-> "linkInode", fd |-> 0, slot |-> found.slot,
                   cur |-> target, prev |-> 0, free |-> 0, buf |-> <<>>, name |-> fname]
      BY <1>6 DEF Begin, NoCall
    <3>2. found.slot \in Nat /\ target \in BlockLink
      BY <1>1, <1>6, <2>1, <2>6
    <3>3. call' \in Locals
      BY <1>1, <2>6, <3>1, <3>2 DEF Locals
    <3> QED
      BY <1>6, <2>6, <3>1, <3>3 DEF Begin, NoResult
  <2>8. currentFD' <= MaxFD
    BY <1>6 DEF OpenFile, openList
  <2>9. LocalsOK' /\ DefragCursor'
    <3> HIDE DEF fname, found, target
    <3> QED
      BY <1>1, <1>6, <2>1, <2>7, <2>8 DEF LocalsOK, DefragCursor
  <2> QED
    BY <2>4, <2>5, <2>7, <2>9 DEF Inv, TypeOK
<1> QED
  BY <1>2, <1>3, <1>4, <1>5, <1>6 DEF OpenFile

LEMMA LinkInodeStep == ASSUME Inv, LinkInode PROVE Inv'
<1>1. /\ call.cur \in Blocks /\ call.slot \in Slots /\ call.name \in Name
      /\ currentFD <= MaxFD /\ currentFD \in Int
  BY DiskAssumption DEF LinkInode, Inv, TypeOK, LocalsOK, OpenListOK
<1>2. 0 \in BlockLink /\ noBlockLink \in BlockLink /\ Blocks \subseteq BlockLink
  BY DiskAssumption DEF BlockLink, Blocks, noBlockLink
<1>3. DiskOK' /\ ExtentsPointForward'
  BY <1>1, <1>2, OneLinkWritten DEF LinkInode
<1>4. OpenListOK'
  BY <1>1, <1>2, Added DEF LinkInode
<1> QED
  BY <1>1, <1>3, <1>4, Returned DEF LinkInode, Inv, TypeOK

LEMMA CloseFileStep == ASSUME Inv, NEW fd \in FDs, CloseFile(fd) PROVE Inv'
<1>1. CASE Fail(ENOENT)
  BY <1>1, Failed, ErrorCodes
<1>2. CASE openFDs_removeByFD(fd) /\ Return(0) /\ UNCHANGED <<diskVars, mounted>>
  BY <1>2, Removed, Returned, NoBlockWritten DEF Inv, TypeOK
<1> QED
  BY <1>1, <1>2 DEF CloseFile

LEMMA NoCallFields ==
  /\ NoCall \in Locals
  /\ 0 \in BlockLink /\ noBlockLink \in BlockLink /\ 0 \in Byte
  /\ Blocks \subseteq BlockLink /\ Blocks \subseteq Nat /\ BlockLink \subseteq Nat
  /\ Slots \subseteq Nat
  /\ \A b \in BlockLink : b # noBlockLink => b \in Blocks
  /\ NoResult \in [code : Int, byte : Byte]
<1>1. <<>> \in Seq(Byte) /\ 0 \in BlockLink /\ 0 \in Byte
  BY DiskAssumption DEF BlockLink, Byte
<1>2. NoCall \in Locals
  BY <1>1 DEF NoCall, Locals
<1>3. NoResult \in [code : Int, byte : Byte]
  BY <1>1 DEF NoResult
<1>4. /\ noBlockLink \in BlockLink
      /\ Blocks \subseteq BlockLink /\ Blocks \subseteq Nat /\ BlockLink \subseteq Nat
      /\ Slots \subseteq Nat
      /\ \A b \in BlockLink : b # noBlockLink => b \in Blocks
  BY DiskAssumption DEF BlockLink, Blocks, noBlockLink, Slots
<1> QED
  BY <1>1, <1>2, <1>3, <1>4

LEMMA WriteFileStep ==
  ASSUME Inv, NEW fd \in FDs, NEW buffer \in Buffers, WriteFile(fd, buffer)
  PROVE  Inv'
<1>1. CASE Fail(ENOENT) \/ Fail(EPERM)
  BY <1>1, Failed, ErrorCodes
<1>2. CASE /\ isOpen(fd)
           /\ Begin([NoCall EXCEPT !.op = "writeFile", !.pc = "eraseFileData", !.fd = fd,
                                   !.buf = buffer, !.cur = openFiles[fd].nextBlockIndex])
           /\ UNCHANGED <<diskVars, mounted, openList>>
  <2>1. openFiles[fd].nextBlockIndex \in BlockLink /\ fd \in Nat /\ buffer \in Seq(Byte)
    BY <1>2, OpenFileFields, Inputs, DiskAssumption DEF isOpen, FDs
  <2>2. call' = [op |-> "writeFile", pc |-> "eraseFileData", fd |-> fd, slot |-> 0,
                 cur |-> openFiles[fd].nextBlockIndex, prev |-> 0, free |-> 0,
                 buf |-> buffer, name |-> <<>>]
    BY <1>2 DEF Begin, NoCall
  <2>3. call' \in Locals
    BY <2>1, <2>2, NoCallFields DEF Locals
  <2>4. LocalsOK' /\ DefragCursor'
    BY <1>2, <2>2, <2>3 DEF LocalsOK, DefragCursor, isOpen, openList
  <2>5. ret' \in [code : Int, byte : Byte]
    BY <1>2, NoCallFields DEF Begin
  <2> QED
    BY <1>2, <2>4, <2>5, NoBlockWritten, OpenListKept DEF Inv, TypeOK
<1> QED
  BY <1>1, <1>2 DEF WriteFile

LEMMA DeleteFileStep == ASSUME Inv, NEW fd \in FDs, DeleteFile(fd) PROVE Inv'
<1>1. CASE Fail(ENOENT)
  BY <1>1, Failed, ErrorCodes
<1>2. CASE /\ isOpen(fd)
           /\ Begin([NoCall EXCEPT !.op = "deleteFile", !.pc = "eraseFileData", !.fd = fd,
                                   !.cur = openFiles[fd].nextBlockIndex])
           /\ UNCHANGED <<diskVars, mounted, openList>>
  <2>1. openFiles[fd].nextBlockIndex \in BlockLink /\ fd \in Nat /\ <<>> \in Seq(Byte)
    BY <1>2, OpenFileFields, DiskAssumption DEF isOpen, FDs
  <2>2. call' = [op |-> "deleteFile", pc |-> "eraseFileData", fd |-> fd, slot |-> 0,
                 cur |-> openFiles[fd].nextBlockIndex, prev |-> 0, free |-> 0,
                 buf |-> <<>>, name |-> <<>>]
    BY <1>2 DEF Begin, NoCall
  <2>3. call' \in Locals
    BY <2>1, <2>2, NoCallFields DEF Locals
  <2>4. LocalsOK' /\ DefragCursor'
    BY <1>2, <2>2, <2>3 DEF LocalsOK, DefragCursor, isOpen, openList
  <2>5. ret' \in [code : Int, byte : Byte]
    BY <1>2, NoCallFields DEF Begin
  <2> QED
    BY <1>2, <2>4, <2>5, NoBlockWritten, OpenListKept DEF Inv, TypeOK
<1> QED
  BY <1>1, <1>2 DEF DeleteFile

LEMMA EraseBlockStep == ASSUME Inv, EraseBlock PROVE Inv'
<1>1. call \in Locals /\ call.cur \in Blocks /\ isOpen(call.fd) /\ call.pc = "eraseFileData"
  BY NoCallFields DEF EraseBlock, Inv, TypeOK, LocalsOK, Locals
<1>2. DiskOK' /\ ExtentsPointForward'
  <2>1. freeBlock.blockID # FILE_EXTENT_ID
    BY DEF freeBlock, FREE_ID, FILE_EXTENT_ID
  <2> QED
    BY <1>1, <2>1, WrittenBlocks, OneBlockWritten DEF EraseBlock
<1>3. disk[call.cur].nextBlock \in BlockLink
  BY <1>1, BlockFields DEF Inv, TypeOK, DiskOK
<1>4. /\ call' = [call EXCEPT !.cur = disk[call.cur].nextBlock]
      /\ call' \in Locals /\ call'.pc = "eraseFileData" /\ call'.fd = call.fd
  BY <1>1, <1>3 DEF EraseBlock, Locals
<1>5. LocalsOK' /\ DefragCursor'
  BY <1>1, <1>4 DEF EraseBlock, LocalsOK, DefragCursor, isOpen, openList
<1> QED
  BY <1>2, <1>5, OpenListKept DEF EraseBlock, Inv, TypeOK

LEMMA UpdateInodeStep == ASSUME Inv, UpdateInode PROVE Inv'
<1> DEFINE file  == openFiles[call.fd]
           first == findFreeBlock(disk, 0)
<1>1. first = ENOSPC \/ first \in Blocks
  BY FindFreeBlock
<1>2. CASE Fail(first) \/ Fail(EIO)
  <2> HIDE DEF first
  <2>1. first \in Int /\ EIO \in Int
    BY <1>1, DiskAssumption DEF ENOSPC, EIO, Blocks
  <2> QED
    BY <1>2, <2>1, Failed
<1>3. CASE /\ first > 0 /\ inodeLink(file) # noBlockLink
           /\ \E mode \in readFlag :
                disk' = [disk EXCEPT ![inodeLink(file)] =
                           inodeBlock(file.fileName, Len(call.buf), first, mode)]
           /\ openFiles' = [openFiles EXCEPT
                              ![call.fd] = [file EXCEPT !.nextBlockIndex = first,
                                                        !.fileSize = Len(call.buf),
                                                        !.location = 0]]
           /\ IF call.buf = <<>>
              THEN Return(0)
              ELSE Begin([call EXCEPT !.pc = "writeBlocks", !.cur = first])
           /\ UNCHANGED <<inodeIndices, mounted, currentFD>>
  <2>1. call \in Locals /\ call.fd \in DOMAIN openFiles /\ call.pc = "eraseFileData"
    BY DEF UpdateInode, Inv, TypeOK, LocalsOK, isOpen
  <2>2. call.buf \in Seq(Byte) /\ Len(call.buf) \in Nat
    BY <2>1 DEF Locals
  <2>3. first \in Blocks /\ first \in BlockLink
    BY <1>1, <1>3, ErrorCodes, NoCallFields
  <2>4. /\ file \in TinyOpenFile /\ file.fileName \in Name /\ inodeLink(file) \in Blocks
    BY <1>3, <2>1, OpenFileFields
  <2> DEFINE newFile == [file EXCEPT !.nextBlockIndex = first, !.fileSize = Len(call.buf),
                                     !.location = 0]
  <2>5. newFile \in TinyOpenFile
    <3> HIDE DEF file, first
    <3> QED
      BY <2>2, <2>3, <2>4 DEF TinyOpenFile
  <2>6. OpenListOK' /\ DOMAIN openFiles' = DOMAIN openFiles
    <3> HIDE DEF newFile
    <3>1. openFiles' = [openFiles EXCEPT ![call.fd] = newFile]
      BY <1>3 DEF newFile
    <3> QED
      BY <1>3, <2>1, <2>5, <3>1, Updated
  <2>7. DiskOK' /\ ExtentsPointForward'
    <3>1. PICK mode \in readFlag :
            disk' = [disk EXCEPT ![inodeLink(file)] =
                       inodeBlock(file.fileName, Len(call.buf), first, mode)]
      BY <1>3
    <3> DEFINE block == inodeBlock(file.fileName, Len(call.buf), first, mode)
    <3> HIDE DEF first, file
    <3>2. block \in Block
      BY <2>2, <2>3, <2>4, WrittenBlocks
    <3>3. block.blockID # FILE_EXTENT_ID
      BY DEF inodeBlock, INODE_ID, FILE_EXTENT_ID
    <3> HIDE DEF block
    <3>4. disk' = [disk EXCEPT ![inodeLink(file)] = block]
      BY <3>1 DEF block
    <3> QED
      BY <1>3, <2>4, <3>2, <3>3, <3>4, OneBlockWritten
  <2>8. LocalsOK' /\ DefragCursor' /\ ret' \in [code : Int, byte : Byte]
    <3>1. CASE call.buf = <<>>
      BY <1>3, <3>1, Returned
    <3>2. CASE call.buf # <<>>
      <4> HIDE DEF first, file
      <4>1. Begin([call EXCEPT !.pc = "writeBlocks", !.cur = first])
        BY <1>3, <3>2
      <4>2. /\ call' \in Locals /\ call'.pc = "writeBlocks" /\ call'.fd = call.fd
            /\ call'.cur = first
        BY <2>1, <2>3, <4>1 DEF Begin, Locals
      <4>3. LocalsOK' /\ DefragCursor'
        BY <2>1, <2>3, <2>6, <4>2 DEF LocalsOK, DefragCursor, isOpen
      <4> QED
        BY <4>1, <4>3, NoCallFields DEF Begin
    <3> QED
      BY <3>1, <3>2
  <2> QED
    BY <2>6, <2>7, <2>8 DEF Inv, TypeOK
<1> QED
  BY <1>2, <1>3 DEF UpdateInode

LEMMA WriteBlockStep == ASSUME Inv, WriteBlock PROVE Inv'
<1> DEFINE isLast == Len(call.buf) <= DataPerBlock
           next   == IF isLast THEN noBlockLink ELSE findFreeBlock(disk, call.cur)
<1>1. /\ call \in Locals /\ call.cur \in Blocks /\ call.buf \in Seq(Byte)
      /\ call.pc = "writeBlocks" /\ isOpen(call.fd)
  BY DEF WriteBlock, Inv, TypeOK, LocalsOK, Locals
<1>2. \/ next \in {noBlockLink, ENOSPC}
      \/ next \in Blocks /\ next > call.cur
  <2>1. CASE isLast
    BY <2>1
  <2>2. CASE ~isLast
    <3>1. next = findFreeBlock(disk, call.cur)
      BY <2>2
    <3> HIDE DEF next
    <3>2. call.cur \in Int
      BY <1>1, DiskAssumption DEF Blocks
    <3> QED
      BY <3>1, <3>2, FindFreeBlock
  <2> QED
    BY <2>1, <2>2
<1>3. next \in Int /\ (next >= 0 => next \in BlockLink)
  <2> HIDE DEF next
  <2> QED
    BY <1>2, DiskAssumption DEF ENOSPC, noBlockLink, Blocks, BlockLink
<1>4. CASE next < 0 /\ Fail(next)
  <2> HIDE DEF next
  <2> QED
    BY <1>3, <1>4, Failed
<1>5. CASE /\ next >= 0
           /\ disk' = [disk EXCEPT ![call.cur] = fileExtentBlock(next, blockOf(call.buf))]
           /\ IF isLast
              THEN Return(0)
              ELSE Begin([call EXCEPT !.cur = next, !.buf = restOf(call.buf)])
           /\ UNCHANGED <<inodeIndices, mounted, openList>>
  <2> DEFINE block == fileExtentBlock(next, blockOf(call.buf))
  <2>1. block \in Block
    <3> HIDE DEF next
    <3> QED
      BY <1>1, <1>3, <1>5, Inputs, WrittenBlocks
  <2>2. block.nextBlock = noBlockLink \/ block.nextBlock > call.cur
    <3>1. block.nextBlock = next
      BY DEF fileExtentBlock
    <3> HIDE DEF next, block
    <3> QED
      BY <1>2, <1>5, <3>1, ErrorCodes DEF noBlockLink
  <2>3. DiskOK' /\ ExtentsPointForward'
    <3> HIDE DEF block
    <3>1. disk' = [disk EXCEPT ![call.cur] = block]
      BY <1>5 DEF block
    <3> QED
      BY <1>1, <1>5, <2>1, <2>2, <3>1, OneBlockWritten
  <2>4. LocalsOK' /\ DefragCursor' /\ ret' \in [code : Int, byte : Byte]
    <3>1. CASE isLast
      BY <1>5, <3>1, Returned
    <3>2. CASE ~isLast
      <4>1. next \in Blocks
        <5>1. next = findFreeBlock(disk, call.cur)
          BY <3>2
        <5>2. next # noBlockLink
          BY <1>1, <5>1, FindFreeBlock, NoCallFields, DiskAssumption
             DEF noBlockLink, ENOSPC, Blocks
        <5> HIDE DEF next
        <5> QED
          BY <1>3, <1>5, <5>2, NoCallFields
      <4>2. restOf(call.buf) \in Seq(Byte)
        BY <1>1, Inputs
      <4>3. Begin([call EXCEPT !.cur = next, !.buf = restOf(call.buf)])
        BY <1>5, <3>2
      <4> HIDE DEF next
      <4>4. /\ call' \in Locals /\ call'.pc = "writeBlocks" /\ call'.fd = call.fd
            /\ call'.cur = next
        BY <1>1, <1>3, <1>5, <4>2, <4>3 DEF Begin, Locals
      <4>5. LocalsOK' /\ DefragCursor'
        BY <1>1, <1>5, <4>1, <4>4 DEF LocalsOK, DefragCursor, isOpen, openList
      <4> QED
        BY <4>3, <4>5, NoCallFields DEF Begin
    <3> QED
      BY <3>1, <3>2
  <2> QED
    BY <1>5, <2>3, <2>4, OpenListKept DEF Inv, TypeOK
<1> QED
  BY <1>4, <1>5 DEF WriteBlock

LEMMA RemoveInodeStep == ASSUME Inv, RemoveInode PROVE Inv'
<1> DEFINE file == openFiles[call.fd]
<1>1. call \in Locals /\ call.fd \in DOMAIN openFiles /\ call.pc = "eraseFileData"
  BY DEF RemoveInode, Inv, TypeOK, LocalsOK, isOpen
<1>2. file.inodeLinkIndex \in Slots /\ inodeLink(file) \in BlockLink
  BY <1>1, OpenFileFields
<1>3. DiskOK' /\ ExtentsPointForward'
  BY <1>2, NoCallFields, OneLinkWritten DEF RemoveInode
<1>4. Begin([call EXCEPT !.pc = "freeInode", !.cur = inodeLink(file)])
  BY DEF RemoveInode
<1>5. call' \in Locals /\ call'.pc = "freeInode" /\ call'.fd = call.fd
  BY <1>1, <1>2, <1>4 DEF Begin, Locals
<1>6. LocalsOK' /\ DefragCursor'
  BY <1>1, <1>5 DEF RemoveInode, LocalsOK, DefragCursor, isOpen, openList
<1> QED
  BY <1>3, <1>4, <1>6, NoCallFields, OpenListKept DEF RemoveInode, Begin, Inv, TypeOK

LEMMA FreeInodeStep == ASSUME Inv, FreeInode PROVE Inv'
<1>1. CASE Fail(EIO)
  BY <1>1, Failed, ErrorCodes
<1>2. CASE /\ call.cur # noBlockLink
           /\ disk' = [disk EXCEPT ![call.cur] = freeBlock]
           /\ openFDs_removeByFD(call.fd)
           /\ Return(0)
           /\ UNCHANGED <<inodeIndices, mounted>>
  <2>1. call.cur \in Blocks
    BY <1>2, NoCallFields DEF Inv, TypeOK, LocalsOK, Locals
  <2>2. freeBlock \in Block /\ freeBlock.blockID # FILE_EXTENT_ID
    BY WrittenBlocks DEF freeBlock, FREE_ID, FILE_EXTENT_ID
  <2>3. DiskOK' /\ ExtentsPointForward'
    BY <1>2, <2>1, <2>2, OneBlockWritten
  <2> QED
    BY <1>2, <2>3, Removed, Returned DEF Inv, TypeOK
<1> QED
  BY <1>1, <1>2 DEF FreeInode

LEMMA ReadByteStep == ASSUME Inv, NEW fd \in FDs, ReadByte(fd) PROVE Inv'
<1> DEFINE file  == openFiles[fd]
           inErr == safeReadBlock(inodeLink(file), {INODE_ID})
           err   == locateByte(file)
           block == extentAt(file.nextBlockIndex, file.location \div DataPerBlock)
<1>1. inErr \in Int /\ err \in Int
  <2>1. \A b, types : safeReadBlock(b, types) \in Int
    BY SafeReadBlock, ErrorCodes
  <2> QED
    BY <2>1, ErrorCodes DEF locateByte
<1>2. CASE Fail(ENOENT) \/ Fail(inErr) \/ Fail(err)
  <2> HIDE DEF inErr, err
  <2> QED
    BY <1>1, <1>2, Failed, ErrorCodes
<1>3. CASE /\ isOpen(fd) /\ inErr = 0 /\ err = 0
           /\ openFiles' = [openFiles EXCEPT ![fd].location = @ + 1]
           /\ ret' = [code |-> 0, byte |-> disk[block].data[file.location % DataPerBlock]]
           /\ UNCHANGED <<diskVars, mounted, currentFD, call>>
  <2>1. block \in Blocks /\ disk[block].blockID = FILE_EXTENT_ID
    BY <1>3, LocateByte
  <2>2. disk[block].data[file.location % DataPerBlock] \in Byte
    <3> HIDE DEF block
    <3>1. disk[block].data \in BlockData
      BY <2>1, BlockFields DEF Inv, TypeOK, DiskOK
    <3>2. file.location \in Nat
      BY <1>3, OpenFileFields DEF isOpen
    <3>3. file.location % DataPerBlock \in 0..(DataPerBlock - 1)
      BY <3>2, Modulo
    <3> HIDE DEF file
    <3> QED
      BY <3>1, <3>3 DEF BlockData
  <2>3. OpenListOK' /\ DOMAIN openFiles' = DOMAIN openFiles
    <3> DEFINE newFile == [file EXCEPT !.location = @ + 1]
    <3>1. newFile \in TinyOpenFile
      BY <1>3, OpenFileFields DEF isOpen, TinyOpenFile
    <3>2. openFiles' = [openFiles EXCEPT ![fd] = newFile]
      BY <1>3
    <3> HIDE DEF newFile
    <3> QED
      BY <1>3, <3>1, <3>2, Updated DEF isOpen
  <2>4. LocalsOK' /\ DefragCursor'
    BY <1>3, <2>3 DEF diskVars, LocalsOK, DefragCursor, freeBlocks, isOpen, Inv, TypeOK
  <2>5. ret' \in [code : Int, byte : Byte]
    BY <1>3, <2>2
  <2> QED
    BY <1>3, <2>3, <2>4, <2>5, NoBlockWritten DEF Inv, TypeOK
<1> QED
  BY <1>2, <1>3 DEF ReadByte

LEMMA SeekStep ==
  ASSUME Inv, NEW fd \in FDs, NEW offset \in SeekOffsets, Seek(fd, offset) PROVE Inv'
<1>1. CASE Fail(ENOENT) \/ Fail(ERANGE)
  BY <1>1, Failed, ErrorCodes
<1>2. CASE /\ isOpen(fd) /\ offset \in 0..openFiles[fd].fileSize
           /\ openFiles' = [openFiles EXCEPT ![fd].location = offset]
           /\ Return(0)
           /\ UNCHANGED <<diskVars, mounted, currentFD>>
  <2> DEFINE newFile == [openFiles[fd] EXCEPT !.location = offset]
  <2>1. newFile \in TinyOpenFile
    BY <1>2, OpenFileFields DEF isOpen, TinyOpenFile
  <2>2. openFiles' = [openFiles EXCEPT ![fd] = newFile]
    BY <1>2
  <2> HIDE DEF newFile
  <2>3. OpenListOK'
    BY <1>2, <2>1, <2>2, Updated DEF isOpen
  <2> QED
    BY <1>2, <2>3, Returned, NoBlockWritten DEF Inv, TypeOK
<1> QED
  BY <1>1, <1>2 DEF Seek

-----------------------------------------------------------------------------
(* The add-ons                                                             *)

\* A call that only looks, or that fails, whatever it looks at.
LEMMA ReaddirStep == ASSUME Inv, Readdir PROVE Inv'
BY Failed, ErrorCodes DEF Readdir

LEMMA ReadFileInfoStep == ASSUME Inv, NEW fd \in FDs, ReadFileInfo(fd) PROVE Inv'
<1> DEFINE err == safeReadBlock(inodeLink(openFiles[fd]), {INODE_ID})
<1>1. err \in {0, EIO, ECORRUPT}
  BY SafeReadBlock
<1>2. Fail(ENOENT) \/ Fail(err) \/ Fail(0)
  BY DEF ReadFileInfo
<1> HIDE DEF err
<1> QED
  BY <1>1, <1>2, Failed, ErrorCodes

LEMMA RenameStep ==
  ASSUME Inv, NEW fd \in FDs, NEW newName \in UserNames, Rename(fd, newName)
  PROVE  Inv'
<1> DEFINE file == openFiles[fd]
           err  == safeReadBlock(inodeLink(file), {INODE_ID})
           name == formatName(newName)
<1>1. err \in {0, EIO, ECORRUPT}
  BY SafeReadBlock
<1>2. CASE Fail(ENOENT) \/ Fail(err)
  <2> HIDE DEF err
  <2> QED
    BY <1>1, <1>2, Failed, ErrorCodes
<1>3. CASE /\ isOpen(fd) /\ err = 0
           /\ disk' = [disk EXCEPT ![inodeLink(file)].fileName = name]
           /\ openFiles' = [openFiles EXCEPT ![fd].fileName = name]
           /\ Return(0)
           /\ UNCHANGED <<inodeIndices, mounted, currentFD>>
  <2> DEFINE b == inodeLink(file)
             block == [disk[b] EXCEPT !.fileName = name]
             newFile == [file EXCEPT !.fileName = name]
  <2>1. b \in Blocks /\ disk[b].blockID = INODE_ID /\ disk[b] \in Block
    BY <1>3, SafeReadBlock DEF Inv, TypeOK, DiskOK
  <2>2. name \in Name
    BY Inputs
  <2>3. block \in Block /\ block.blockID # FILE_EXTENT_ID
    <3> HIDE DEF name, b
    <3> QED
      BY <2>1, <2>2, ChangedBlocks DEF INODE_ID, FILE_EXTENT_ID
  <2>4. newFile \in TinyOpenFile
    <3> HIDE DEF name
    <3> QED
      BY <1>3, <2>2, OpenFileFields DEF isOpen, TinyOpenFile
  <2>5. disk' = [disk EXCEPT ![b] = block] /\ openFiles' = [openFiles EXCEPT ![fd] = newFile]
    BY <1>3
  <2> HIDE DEF block, newFile, b
  <2>6. DiskOK' /\ ExtentsPointForward'
    BY <1>3, <2>1, <2>3, <2>5, OneBlockWritten
  <2>7. OpenListOK'
    BY <1>3, <2>4, <2>5, Updated DEF isOpen
  <2> QED
    BY <1>3, <2>6, <2>7, Returned DEF Inv, TypeOK
<1> QED
  BY <1>2, <1>3 DEF Rename

\* The unchecked write of readMode keeps the format of whatever block it hits.
LEMMA SetReadMode ==
  ASSUME Inv, NEW slot \in Slots, NEW mode \in readFlag, setReadMode(slot, mode)
  PROVE  DiskOK' /\ ExtentsPointForward'
<1> DEFINE b == inodeIndices[slot]
<1>1. b \in BlockLink /\ inodeIndices \in [Slots -> BlockLink] /\ disk \in [Blocks -> Block]
  BY DEF Inv, TypeOK, DiskOK
<1>2. CASE b = noBlockLink
  <2>2. CASE readModeLink \in Slots
    <3>1. mode \in BlockLink
      BY <2>2, DiskAssumption
         DEF readModeLink, Slots, readFlag, readOnly, readAndWrite, BlockLink
    <3> QED
      BY <1>2, <2>2, <3>1, OneLinkWritten DEF setReadMode
  <2>3. CASE readModeLink \notin Slots
    BY <1>2, <2>3, NoBlockWritten DEF setReadMode, diskVars
  <2> QED
    BY <2>2, <2>3
<1>3. CASE b # noBlockLink /\ disk[b].blockID = FILE_EXTENT_ID
  <2> DEFINE block == [disk[b] EXCEPT !.data[readModeData] = mode]
  <2>1. b \in Blocks /\ disk[b] \in Block
    BY <1>1, <1>3, NoCallFields
  <2>2. readModeData \in 0..(DataPerBlock - 1) /\ mode \in Byte
    BY Modulo DEF readModeData, readFlag, readOnly, readAndWrite, Byte
  <2>3. /\ block \in Block /\ block.nextBlock = disk[b].nextBlock
        /\ block.blockID = FILE_EXTENT_ID
    BY <1>3, <2>1, <2>2, ChangedBlocks
  <2>4. block.nextBlock = noBlockLink \/ block.nextBlock > b
    BY <1>3, <2>1, <2>3 DEF Inv, ExtentsPointForward
  <2>5. disk' = [disk EXCEPT ![b] = block] /\ UNCHANGED inodeIndices
    BY <1>3 DEF setReadMode
  <2> HIDE DEF block
  <2> QED
    BY <2>1, <2>3, <2>4, <2>5, OneBlockWritten
<1>4. CASE b # noBlockLink /\ disk[b].blockID # FILE_EXTENT_ID
  <2> DEFINE block == [disk[b] EXCEPT !.readMode = mode]
  <2>1. b \in Blocks /\ disk[b] \in Block
    BY <1>1, <1>4, NoCallFields
  <2>2. block \in Block /\ block.blockID = disk[b].blockID
    BY <1>4, <2>1, ChangedBlocks
  <2>3. disk' = [disk EXCEPT ![b] = block] /\ UNCHANGED inodeIndices
    BY <1>4 DEF setReadMode
  <2> HIDE DEF block
  <2> QED
    BY <1>4, <2>1, <2>2, <2>3, OneBlockWritten
<1> QED
  BY <1>2, <1>3, <1>4

LEMMA ChangePermissionsStep ==
  ASSUME Inv, NEW name \in UserNames, NEW mode \in readFlag, ChangePermissions(name, mode)
  PROVE  Inv'
<1> DEFINE fname == formatName(name)
           found == searchSB(fname)
           openFD == openFDs_searchByName(fname)
<1>1. /\ found.code \in {0, 1, ENOSPC, EIO, ECORRUPT}
      /\ found.code = 1 => found.slot \in Slots
  BY SearchSB
<1>2. CASE Fail(found.code) \/ Fail(ENOENT)
  <2> HIDE DEF found
  <2> QED
    BY <1>1, <1>2, Failed, ErrorCodes
<1>3. CASE /\ openUnder(fname) # {}
           /\ setReadMode(openFiles[openFD].inodeLinkIndex, mode)
           /\ Return(0)
           /\ UNCHANGED <<mounted, openList>>
  <2>1. /\ currentFD \in Nat /\ openUnder(fname) \in SUBSET (0..currentFD)
        /\ openUnder(fname) \subseteq DOMAIN openFiles
    BY DiskAssumption DEF Inv, TypeOK, OpenListOK, openUnder
  <2>2. openFD \in DOMAIN openFiles
    BY <1>3, <2>1, MaxOfBoundedNats DEF openFDs_searchByName
  <2> HIDE DEF openFD
  <2>3. openFiles[openFD].inodeLinkIndex \in Slots
    BY <2>2, OpenFileFields
  <2> QED
    BY <1>3, <2>3, SetReadMode, OpenListKept, Returned DEF Inv, TypeOK
<1>4. CASE /\ found.code = 1
           /\ currentFD <= MaxFD
           /\ setReadMode(found.slot, mode)
           /\ currentFD' = currentFD + 1
           /\ Return(0)
           /\ UNCHANGED <<mounted, openFiles>>
  <2> HIDE DEF found
  <2>1. DiskOK' /\ ExtentsPointForward'
    BY <1>1, <1>4, SetReadMode
  <2>2. OpenListOK
    BY DEF Inv, TypeOK
  <2>3. currentFD' \in 1..(MaxFD + 1) /\ 1..(currentFD - 1) \subseteq 1..(currentFD' - 1)
    BY <1>4, <2>2, DiskAssumption DEF OpenListOK
  <2>4. OpenListOK'
    BY <1>4, <2>2, <2>3 DEF OpenListOK
  <2> QED
    BY <1>4, <2>1, <2>4, Returned DEF Inv, TypeOK
<1> QED
  BY <1>2, <1>3, <1>4 DEF ChangePermissions

LEMMA WriteByteStep ==
  ASSUME Inv, NEW fd \in FDs, NEW byte \in WriteBytes, WriteByte(fd, byte)
  PROVE  Inv'
<1> DEFINE file  == openFiles[fd]
           err   == locateByte(file)
           block == extentAt(file.nextBlockIndex, file.location \div DataPerBlock)
           i     == file.location % DataPerBlock
<1>1. err \in Int
  <2>1. \A b, types : safeReadBlock(b, types) \in Int
    BY SafeReadBlock, ErrorCodes
  <2> QED
    BY <2>1, ErrorCodes DEF locateByte
<1>2. CASE Fail(ENOENT) \/ Fail(EPERM) \/ Fail(err)
  <2> HIDE DEF err
  <2> QED
    BY <1>1, <1>2, Failed, ErrorCodes
<1>3. CASE /\ isOpen(fd) /\ err = 0
           /\ disk' = [disk EXCEPT ![block].data[i] = byte]
           /\ Return(0)
           /\ UNCHANGED <<inodeIndices, mounted, openList>>
  <2>1. block \in Blocks /\ disk[block].blockID = FILE_EXTENT_ID
    BY <1>3, LocateByte
  <2>2. file.location \in Nat
    BY <1>3, OpenFileFields DEF isOpen
  <2>3. i \in 0..(DataPerBlock - 1) /\ byte \in Byte
    BY <2>2, Modulo, Inputs
  <2> HIDE DEF block, i
  <2> DEFINE new == [disk[block] EXCEPT !.data[i] = byte]
  <2>4. disk[block] \in Block
    BY <2>1 DEF Inv, TypeOK, DiskOK
  <2>5. /\ new \in Block /\ new.blockID = FILE_EXTENT_ID
        /\ new.nextBlock = disk[block].nextBlock
    BY <2>1, <2>3, <2>4, ChangedBlocks
  <2>6. disk' = [disk EXCEPT ![block] = new]
    BY <1>3
  <2> HIDE DEF new
  <2>7. new.nextBlock = noBlockLink \/ new.nextBlock > block
    BY <2>1, <2>5 DEF Inv, ExtentsPointForward
  <2>8. DiskOK' /\ ExtentsPointForward'
    BY <1>3, <2>1, <2>5, <2>6, <2>7, OneBlockWritten
  <2> QED
    BY <1>3, <2>8, Returned, OpenListKept DEF Inv, TypeOK
<1> QED
  BY <1>2, <1>3 DEF WriteByte

LEMMA DisplayFragmentsStep == ASSUME Inv, DisplayFragments PROVE Inv'
<1>1. call' = [op |-> "displayFragments", pc |-> "display", fd |-> 0, slot |-> 0, cur |-> 0,
               prev |-> 0, free |-> 0, buf |-> <<>>, name |-> <<>>]
  BY DEF DisplayFragments, Begin, NoCall
<1>2. <<>> \in Seq(Byte)
  OBVIOUS
<1>3. call' \in Locals
  BY <1>1, <1>2, NoCallFields DEF Locals
<1>4. LocalsOK' /\ DefragCursor'
  BY <1>1, <1>3 DEF LocalsOK, DefragCursor
<1> QED
  BY <1>4, NoCallFields, NoBlockWritten, OpenListKept
     DEF DisplayFragments, Begin, Inv, TypeOK

\* The used slots the loops of the add-ons go through are slots, and lead to blocks.
LEMMA NextUsedSlot ==
  ASSUME Inv, NEW slot, slotsFrom(slot) # {}
  PROVE  LET s == Min(slotsFrom(slot)) IN s \in Slots /\ s \in Nat /\ inodeIndices[s] \in Blocks
<1>1. slotsFrom(slot) \in SUBSET Nat
  BY NoCallFields DEF slotsFrom, usedSlots
<1>2. Min(slotsFrom(slot)) \in slotsFrom(slot)
  BY <1>1, MinOfNats
<1> DEFINE s == Min(slotsFrom(slot))
<1> HIDE DEF s
<1>3. s \in Slots /\ inodeIndices[s] # noBlockLink
  BY <1>2 DEF s, slotsFrom, usedSlots
<1>4. inodeIndices[s] \in Blocks /\ s \in Nat
  BY <1>3, NoCallFields DEF Inv, TypeOK, DiskOK
<1> QED
  BY <1>3, <1>4 DEF s

LEMMA DisplayBlockStep == ASSUME Inv, DisplayBlock PROVE Inv'
<1>1. call \in Locals /\ call.pc = "display"
  BY DEF DisplayBlock, Inv, TypeOK, LocalsOK
<1>2. CASE Fail(0)
  BY <1>2, Failed
<1>3. ASSUME UNCHANGED <<diskVars, mounted, openList, ret>>,
             call' \in Locals, call'.pc = "display"
      PROVE  Inv'
  <2>1. LocalsOK' /\ DefragCursor'
    BY <1>3 DEF LocalsOK, DefragCursor
  <2> QED
    BY <1>3, <2>1, NoBlockWritten, OpenListKept DEF Inv, TypeOK
<1>4. CASE /\ call.cur # noBlockLink
           /\ call' = [call EXCEPT !.cur = disk[call.cur].nextBlock]
           /\ UNCHANGED <<diskVars, mounted, openList, ret>>
  <2>1. call.cur \in Blocks
    BY <1>1, <1>4, NoCallFields DEF Locals
  <2>2. disk[call.cur].nextBlock \in BlockLink
    BY <2>1, BlockFields DEF Inv, TypeOK, DiskOK
  <2>3. call' \in Locals /\ call'.pc = "display"
    BY <1>1, <1>4, <2>2 DEF Locals
  <2> QED
    BY <1>3, <1>4, <2>3
<1>5. CASE /\ slotsFrom(call.slot) # {}
           /\ LET s == Min(slotsFrom(call.slot))
              IN call' = [call EXCEPT !.slot = s + 1, !.cur = inodeIndices[s]]
           /\ UNCHANGED <<diskVars, mounted, openList, ret>>
  <2> DEFINE s    == Min(slotsFrom(call.slot))
             next == s + 1
             link == inodeIndices[s]
  <2>1. next \in Nat /\ link \in BlockLink
    BY <1>5, NextUsedSlot, NoCallFields
  <2>2. call' = [call EXCEPT !.slot = next, !.cur = link]
    BY <1>5
  <2> HIDE DEF next, link
  <2>3. call' \in Locals /\ call'.pc = "display"
    BY <1>1, <2>1, <2>2 DEF Locals
  <2> QED
    BY <1>3, <1>5, <2>3
<1> QED
  BY <1>2, <1>4, <1>5 DEF DisplayBlock

-----------------------------------------------------------------------------
(* Defragmentation                                                         *)

\* The free blocks after one block has been written.
LEMMA FreeBlocksAfter ==
  ASSUME Inv, NEW b \in Blocks, NEW bl, disk' = [disk EXCEPT ![b] = bl]
  PROVE  freeBlocks' = IF bl.blockID = FREE_ID THEN freeBlocks \cup {b} ELSE freeBlocks \ {b}
<1>1. /\ disk'[b] = bl
      /\ \A c \in Blocks : c # b => disk'[c] = disk[c]
  BY DEF Inv, TypeOK, DiskOK
<1> QED
  BY <1>1 DEF freeBlocks

\* A block is moved into the lowest free block and then freed itself, so a free
\* block behind the one just used exists, and the search finds the lowest.
LEMMA CursorAdvances ==
  ASSUME Inv, call.cur \in Blocks, call.free \in Blocks, call.free < call.cur,
         \A b \in freeBlocks : call.free < b,
         disk' = [disk EXCEPT ![call.cur] = freeBlock]
  PROVE  LET f == findFreeBlock(disk', call.free)
         IN /\ f \in Blocks /\ f > call.free
            /\ f \in freeBlocks' /\ \A b \in freeBlocks' : f <= b
<1> DEFINE f == findFreeBlock(disk', call.free)
<1>1. freeBlocks' = freeBlocks \cup {call.cur}
  <2>1. freeBlock.blockID = FREE_ID
    BY DEF freeBlock
  <2> QED
    BY <2>1, FreeBlocksAfter
<1>2. \A b \in freeBlocks' : b \in Blocks /\ b > call.free /\ disk'[b].blockID = FREE_ID
  <2>1. \A b \in freeBlocks' : b \in Blocks /\ disk'[b].blockID = FREE_ID
    BY DEF freeBlocks
  <2> QED
    BY <1>1, <2>1, DiskAssumption DEF Blocks
<1>3. call.free \in Int
  BY DiskAssumption DEF Blocks
<1>4. \/ /\ f = ENOSPC
         /\ \A b \in Blocks : b > call.free => disk'[b].blockID # FREE_ID
      \/ /\ f \in Blocks /\ f > call.free /\ disk'[f].blockID = FREE_ID
         /\ \A b \in Blocks : b > call.free /\ disk'[b].blockID = FREE_ID => f <= b
  BY <1>3, FindFreeBlock
<1> HIDE DEF f
<1>5. /\ f \in Blocks /\ f > call.free /\ disk'[f].blockID = FREE_ID
      /\ \A b \in Blocks : b > call.free /\ disk'[b].blockID = FREE_ID => f <= b
  BY <1>1, <1>2, <1>4
<1>6. f \in freeBlocks' /\ \A b \in freeBlocks' : f <= b
  BY <1>2, <1>5 DEF freeBlocks
<1> QED
  BY <1>5, <1>6 DEF f

\* The steps of tfs_defrag leave the open list and the result alone.
LEMMA DefragStep == ASSUME Inv, Defrag PROVE Inv'
<1> DEFINE free == findFreeBlock(disk, 0)
<1>1. CASE Fail(0)
  BY <1>1, Failed
<1>2. CASE /\ free > 0
           /\ Begin([NoCall EXCEPT !.op = "defrag", !.pc = "defragInode", !.free = free])
           /\ UNCHANGED <<diskVars, mounted, openList>>
  <2>1. free \in Blocks /\ free \in freeBlocks /\ \A b \in freeBlocks : free <= b
    <3>1. \/ free = ENOSPC
          \/ /\ free \in Blocks /\ disk[free].blockID = FREE_ID
             /\ \A b \in Blocks : b > 0 /\ disk[b].blockID = FREE_ID => free <= b
      BY FindFreeBlock
    <3>2. \A b \in Blocks : b > 0
      BY DiskAssumption DEF Blocks
    <3> HIDE DEF free
    <3> QED
      BY <1>2, <3>1, <3>2, ErrorCodes DEF freeBlocks
  <2> HIDE DEF free
  <2>2. call' = [op |-> "defrag", pc |-> "defragInode", fd |-> 0, slot |-> 0, cur |-> 0,
                 prev |-> 0, free |-> free, buf |-> <<>>, name |-> <<>>]
    BY <1>2 DEF Begin, NoCall
  <2>3. <<>> \in Seq(Byte) /\ free \in BlockLink
    BY <2>1, NoCallFields
  <2>4. call' \in Locals
    BY <2>2, <2>3, NoCallFields DEF Locals
  <2>5. freeBlocks' = freeBlocks
    BY <1>2 DEF freeBlocks, diskVars
  <2>6. LocalsOK' /\ DefragCursor'
    BY <2>1, <2>2, <2>4, <2>5 DEF LocalsOK, DefragCursor
  <2> QED
    BY <1>2, <2>6, NoCallFields, NoBlockWritten, OpenListKept DEF Begin, Inv, TypeOK
<1> QED
  BY <1>1, <1>2 DEF Defrag

LEMMA DefragInodeStep == ASSUME Inv, DefragInode PROVE Inv'
<1> DEFINE s    == Min(slotsFrom(call.slot))
           link == inodeIndices[s]
           err  == safeReadBlock(link, {INODE_ID})
<1>1. call \in Locals /\ call.pc = "defragInode" /\ call.free \in freeBlocks
      /\ \A b \in freeBlocks : call.free <= b
  BY DEF DefragInode, Inv, TypeOK, LocalsOK, DefragCursor
<1>2. call.free \in Blocks /\ disk[call.free].blockID = FREE_ID
  BY <1>1 DEF freeBlocks
<1>3. CASE Fail(0) \/ Fail(err) \/ Fail(EIO)
  <2>1. err \in Int
    BY SafeReadBlock, ErrorCodes
  <2> HIDE DEF err
  <2> QED
    BY <1>3, <2>1, Failed, ErrorCodes
<1>4. ASSUME slotsFrom(call.slot) # {}, err = 0
      PROVE  /\ s \in Slots /\ s \in Nat /\ link \in Blocks
             /\ disk[link].blockID = INODE_ID /\ disk[link] \in Block
             /\ disk[link].nextBlock \in BlockLink
             /\ link # call.free
  <2>1. s \in Slots /\ s \in Nat /\ link \in Blocks
    BY <1>4, NextUsedSlot
  <2>2. disk[link].blockID = INODE_ID
    BY <1>4, SafeReadBlock
  <2> HIDE DEF link, s
  <2>3. disk[link] \in Block
    BY <2>1 DEF Inv, TypeOK, DiskOK
  <2>4. link # call.free
    BY <1>2, <2>2 DEF INODE_ID, FREE_ID
  <2> QED
    BY <2>1, <2>2, <2>3, <2>4, BlockFields
<1>5. CASE /\ slotsFrom(call.slot) # {} /\ err = 0 /\ call.free < link
           /\ disk' = [disk EXCEPT ![call.free] = disk[link]]
           /\ call' = [call EXCEPT !.pc = "swapInodeLink", !.slot = s, !.cur = link]
           /\ UNCHANGED <<inodeIndices, mounted, openList, ret>>
  <2>1. /\ s \in Slots /\ s \in Nat /\ link \in Blocks
        /\ disk[link].blockID = INODE_ID /\ disk[link] \in Block
    BY <1>4, <1>5
  <2> HIDE DEF link, s, err
  <2>2. DiskOK' /\ ExtentsPointForward'
    BY <1>2, <1>5, <2>1, OneBlockWritten DEF INODE_ID, FILE_EXTENT_ID
  <2>3. freeBlocks' = freeBlocks \ {call.free}
    BY <1>2, <1>5, <2>1, FreeBlocksAfter DEF INODE_ID, FREE_ID
  <2>4. \A b \in freeBlocks' : call.free < b
    BY <1>1, <2>3, DiskAssumption DEF freeBlocks, Blocks
  <2>5. /\ call' \in Locals /\ call'.pc = "swapInodeLink" /\ call'.slot = s
        /\ call'.cur = link /\ call'.free = call.free
    BY <1>1, <1>5, <2>1, NoCallFields DEF Locals
  <2>6. LocalsOK' /\ DefragCursor'
    BY <1>2, <1>5, <2>1, <2>4, <2>5 DEF LocalsOK, DefragCursor
  <2> QED
    BY <1>5, <2>2, <2>6, OpenListKept DEF Inv, TypeOK
<1>6. CASE /\ slotsFrom(call.slot) # {} /\ err = 0 /\ link <= call.free
           /\ call' = [call EXCEPT !.pc = "iterateFEs", !.slot = s, !.prev = link,
                                   !.cur = disk[link].nextBlock]
           /\ UNCHANGED <<diskVars, mounted, openList, ret>>
  <2> DEFINE next == disk[link].nextBlock
  <2>1. /\ s \in Slots /\ s \in Nat /\ link \in Blocks /\ next \in BlockLink
        /\ link # call.free
    BY <1>4, <1>6
  <2>2. call' = [call EXCEPT !.pc = "iterateFEs", !.slot = s, !.prev = link, !.cur = next]
    BY <1>6
  <2> HIDE DEF next, s, err
  <2>3. link < call.free
    BY <1>2, <1>6, <2>1, DiskAssumption DEF Blocks
  <2> HIDE DEF link
  <2>4. /\ call' \in Locals /\ call'.pc = "iterateFEs" /\ call'.slot = s
        /\ call'.prev = link /\ call'.free = call.free
    BY <1>1, <2>1, <2>2, NoCallFields DEF Locals
  <2>5. freeBlocks' = freeBlocks
    BY <1>6 DEF freeBlocks, diskVars
  <2>6. LocalsOK' /\ DefragCursor'
    BY <1>1, <1>2, <2>1, <2>3, <2>4, <2>5 DEF LocalsOK, DefragCursor
  <2> QED
    BY <1>6, <2>6, NoBlockWritten, OpenListKept DEF Inv, TypeOK
<1> QED
  BY <1>3, <1>5, <1>6 DEF DefragInode

LEMMA SwapInodeLinkStep == ASSUME Inv, SwapInodeLink PROVE Inv'
<1>1. /\ call \in Locals /\ call.pc = "swapInodeLink"
      /\ call.cur \in Blocks /\ call.slot \in Slots /\ call.free \in Blocks
      /\ call.free < call.cur /\ \A b \in freeBlocks : call.free < b
  BY DEF SwapInodeLink, Inv, TypeOK, LocalsOK, DefragCursor
<1>2. DiskOK' /\ ExtentsPointForward'
  BY <1>1, NoCallFields, OneLinkWritten DEF SwapInodeLink
<1>3. /\ call' \in Locals /\ call'.pc = "freeOldInode" /\ call'.cur = call.cur
      /\ call'.slot = call.slot /\ call'.free = call.free
  BY <1>1 DEF SwapInodeLink, Locals
<1>4. freeBlocks' = freeBlocks
  BY DEF SwapInodeLink, freeBlocks
<1>5. LocalsOK' /\ DefragCursor'
  BY <1>1, <1>3, <1>4 DEF SwapInodeLink, LocalsOK, DefragCursor
<1> QED
  BY <1>2, <1>5, OpenListKept DEF SwapInodeLink, Inv, TypeOK

LEMMA FreeOldInodeStep == ASSUME Inv, FreeOldInode PROVE Inv'
<1> DEFINE free == findFreeBlock(disk', call.free)
           next == disk[call.cur].nextBlock
<1>1. /\ call \in Locals /\ call.pc = "freeOldInode"
      /\ call.cur \in Blocks /\ call.slot \in Slots /\ call.free \in Blocks
      /\ call.free < call.cur /\ \A b \in freeBlocks : call.free < b
  BY DEF FreeOldInode, Inv, TypeOK, LocalsOK, DefragCursor
<1>2. disk' = [disk EXCEPT ![call.cur] = freeBlock]
  BY DEF FreeOldInode
<1>3. /\ free \in Blocks /\ free > call.free
      /\ free \in freeBlocks' /\ \A b \in freeBlocks' : free <= b
  BY <1>1, <1>2, CursorAdvances
<1>4. next \in BlockLink
  BY <1>1, BlockFields DEF Inv, TypeOK, DiskOK
<1>5. freeBlock \in Block /\ freeBlock.blockID # FILE_EXTENT_ID
  BY WrittenBlocks DEF freeBlock, FREE_ID, FILE_EXTENT_ID
<1>6. DiskOK' /\ ExtentsPointForward'
  BY <1>1, <1>2, <1>5, OneBlockWritten DEF FreeOldInode
<1>7. ~(free < 0)
  BY <1>3, DiskAssumption DEF Blocks
<1>8. /\ call' = [call EXCEPT !.pc = "iterateFEs", !.free = free, !.prev = call.free,
                              !.cur = next]
      /\ UNCHANGED ret
  BY <1>7 DEF FreeOldInode
<1> HIDE DEF free, next
<1>9. /\ call' \in Locals /\ call'.pc = "iterateFEs" /\ call'.slot = call.slot
      /\ call'.prev = call.free /\ call'.free = free
  BY <1>1, <1>3, <1>4, <1>8, NoCallFields DEF Locals
<1>10. LocalsOK' /\ DefragCursor'
  BY <1>1, <1>3, <1>9 DEF LocalsOK, DefragCursor
<1> QED
  BY <1>6, <1>8, <1>10, OpenListKept DEF FreeOldInode, Inv, TypeOK

LEMMA IterateFEsStep == ASSUME Inv, IterateFEs PROVE Inv'
<1> DEFINE err == safeReadBlock(call.cur, {FILE_EXTENT_ID})
<1>1. /\ call \in Locals /\ call.pc = "iterateFEs" /\ call.slot \in Slots
      /\ call.prev \in Blocks /\ call.prev < call.free
      /\ call.free \in freeBlocks /\ \A b \in freeBlocks : call.free <= b
  BY DEF IterateFEs, Inv, TypeOK, LocalsOK, DefragCursor
<1>2. call.free \in Blocks /\ disk[call.free].blockID = FREE_ID
  BY <1>1 DEF freeBlocks
<1>3. ASSUME err = 0
      PROVE  /\ call.cur \in Blocks /\ disk[call.cur].blockID = FILE_EXTENT_ID
             /\ disk[call.cur] \in Block /\ disk[call.cur].nextBlock \in BlockLink
             /\ call.cur # call.free
             /\ \/ disk[call.cur].nextBlock = noBlockLink
                \/ disk[call.cur].nextBlock > call.cur
  <2>1. call.cur \in Blocks /\ disk[call.cur].blockID = FILE_EXTENT_ID
    BY <1>3, SafeReadBlock
  <2>2. disk[call.cur] \in Block
    BY <2>1 DEF Inv, TypeOK, DiskOK
  <2>3. call.cur # call.free
    BY <1>2, <2>1 DEF FILE_EXTENT_ID, FREE_ID
  <2>4. disk[call.cur].nextBlock = noBlockLink \/ disk[call.cur].nextBlock > call.cur
    BY <2>1 DEF Inv, ExtentsPointForward
  <2> QED
    BY <2>1, <2>2, <2>3, <2>4, BlockFields
<1>4. CASE /\ call' = nextSlot
           /\ UNCHANGED <<diskVars, mounted, openList, ret>>
  <2>1. call' = [call EXCEPT !.pc = "defragInode", !.slot = call.slot + 1,
                             !.prev = 0, !.cur = 0]
    BY <1>4 DEF nextSlot
  <2>2. call.slot + 1 \in Nat
    BY <1>1 DEF Locals
  <2>3. call' \in Locals /\ call'.pc = "defragInode" /\ call'.free = call.free
    BY <1>1, <2>1, <2>2, NoCallFields DEF Locals
  <2>4. freeBlocks' = freeBlocks
    BY <1>4 DEF freeBlocks, diskVars
  <2>5. LocalsOK' /\ DefragCursor'
    BY <1>1, <2>3, <2>4 DEF LocalsOK, DefragCursor
  <2> QED
    BY <1>4, <2>5, NoBlockWritten, OpenListKept DEF Inv, TypeOK
<1>5. CASE /\ err = 0 /\ call.free < call.cur
           /\ disk' = [disk EXCEPT ![call.free] = disk[call.cur]]
           /\ call' = [call EXCEPT !.pc = "swapExtentLink"]
           /\ UNCHANGED <<inodeIndices, mounted, openList, ret>>
  <2>1. /\ call.cur \in Blocks /\ disk[call.cur].blockID = FILE_EXTENT_ID
        /\ disk[call.cur] \in Block /\ disk[call.cur].nextBlock \in BlockLink
        /\ \/ disk[call.cur].nextBlock = noBlockLink
           \/ disk[call.cur].nextBlock > call.cur
    BY <1>3, <1>5
  <2>2. disk[call.cur].nextBlock = noBlockLink \/ disk[call.cur].nextBlock > call.free
    BY <1>2, <1>5, <2>1, DiskAssumption DEF Blocks, BlockLink
  <2> HIDE DEF err
  <2>3. DiskOK' /\ ExtentsPointForward'
    BY <1>2, <1>5, <2>1, <2>2, OneBlockWritten
  <2>4. freeBlocks' = freeBlocks \ {call.free}
    BY <1>2, <1>5, <2>1, FreeBlocksAfter DEF FILE_EXTENT_ID, FREE_ID
  <2>5. \A b \in freeBlocks' : call.free < b
    BY <1>1, <2>4, DiskAssumption DEF freeBlocks, Blocks
  <2>6. /\ call' \in Locals /\ call'.pc = "swapExtentLink" /\ call'.slot = call.slot
        /\ call'.cur = call.cur /\ call'.free = call.free /\ call'.prev = call.prev
    BY <1>1, <1>5 DEF Locals
  <2>7. LocalsOK' /\ DefragCursor'
    BY <1>1, <1>2, <1>5, <2>1, <2>5, <2>6 DEF LocalsOK, DefragCursor
  <2> QED
    BY <1>5, <2>3, <2>7, OpenListKept DEF Inv, TypeOK
<1>6. CASE /\ err = 0 /\ call.cur <= call.free
           /\ call' = [call EXCEPT !.prev = call.cur, !.cur = disk[call.cur].nextBlock]
           /\ UNCHANGED <<diskVars, mounted, openList, ret>>
  <2> DEFINE next == disk[call.cur].nextBlock
  <2>1. call.cur \in Blocks /\ next \in BlockLink /\ call.cur # call.free
    BY <1>3, <1>6
  <2>2. call.cur < call.free
    BY <1>2, <1>6, <2>1, DiskAssumption DEF Blocks
  <2>3. call' = [call EXCEPT !.prev = call.cur, !.cur = next]
    BY <1>6
  <2> HIDE DEF next, err
  <2>4. /\ call' \in Locals /\ call'.pc = "iterateFEs" /\ call'.slot = call.slot
        /\ call'.prev = call.cur /\ call'.free = call.free
    BY <1>1, <2>1, <2>3, NoCallFields DEF Locals
  <2>5. freeBlocks' = freeBlocks
    BY <1>6 DEF freeBlocks, diskVars
  <2>6. LocalsOK' /\ DefragCursor'
    BY <1>1, <1>2, <2>1, <2>2, <2>4, <2>5 DEF LocalsOK, DefragCursor
  <2> QED
    BY <1>6, <2>6, NoBlockWritten, OpenListKept DEF Inv, TypeOK
<1> QED
  BY <1>4, <1>5, <1>6 DEF IterateFEs

LEMMA SwapExtentLinkStep == ASSUME Inv, SwapExtentLink PROVE Inv'
<1>1. /\ call \in Locals /\ call.pc = "swapExtentLink"
      /\ call.cur \in Blocks /\ call.slot \in Slots /\ call.free \in Blocks
      /\ call.prev \in Blocks /\ call.prev < call.free
      /\ call.free < call.cur /\ \A b \in freeBlocks : call.free < b
  BY DEF SwapExtentLink, Inv, TypeOK, LocalsOK, DefragCursor
<1> DEFINE block == [disk[call.prev] EXCEPT !.nextBlock = call.free]
<1>2. disk[call.prev] \in Block
  BY <1>1 DEF Inv, TypeOK, DiskOK
<1>3. disk[call.prev].blockID # FREE_ID
  <2>1. call.prev \notin freeBlocks
    BY <1>1, DiskAssumption DEF Blocks
  <2> QED
    BY <1>1, <2>1 DEF freeBlocks
<1>4. /\ block \in Block /\ block.blockID # FREE_ID /\ block.nextBlock = call.free
  BY <1>1, <1>2, <1>3, NoCallFields, ChangedBlocks
<1>5. disk' = [disk EXCEPT ![call.prev] = block]
  BY DEF SwapExtentLink
<1> HIDE DEF block
<1>6. block.nextBlock > call.prev
  BY <1>1, <1>4
<1>7. DiskOK' /\ ExtentsPointForward'
  BY <1>1, <1>4, <1>5, <1>6, OneBlockWritten DEF SwapExtentLink
<1>8. freeBlocks' = freeBlocks \ {call.prev}
  BY <1>1, <1>4, <1>5, FreeBlocksAfter
<1>9. /\ call' \in Locals /\ call'.pc = "freeOldExtent" /\ call'.cur = call.cur
      /\ call'.slot = call.slot /\ call'.free = call.free
  BY <1>1 DEF SwapExtentLink, Locals
<1>10. LocalsOK' /\ DefragCursor'
  BY <1>1, <1>8, <1>9 DEF SwapExtentLink, LocalsOK, DefragCursor
<1> QED
  BY <1>7, <1>10, OpenListKept DEF SwapExtentLink, Inv, TypeOK

LEMMA FreeOldExtentStep == ASSUME Inv, FreeOldExtent PROVE Inv'
<1> DEFINE free == findFreeBlock(disk', call.free)
           next == disk[call.free].nextBlock
<1>1. /\ call \in Locals /\ call.pc = "freeOldExtent"
      /\ call.cur \in Blocks /\ call.slot \in Slots /\ call.free \in Blocks
      /\ call.free < call.cur /\ \A b \in freeBlocks : call.free < b
  BY DEF FreeOldExtent, Inv, TypeOK, LocalsOK, DefragCursor
<1>2. disk' = [disk EXCEPT ![call.cur] = freeBlock]
  BY DEF FreeOldExtent
<1>3. /\ free \in Blocks /\ free > call.free
      /\ free \in freeBlocks' /\ \A b \in freeBlocks' : free <= b
  BY <1>1, <1>2, CursorAdvances
<1>4. next \in BlockLink
  BY <1>1, BlockFields DEF Inv, TypeOK, DiskOK
<1>5. freeBlock \in Block /\ freeBlock.blockID # FILE_EXTENT_ID
  BY WrittenBlocks DEF freeBlock, FREE_ID, FILE_EXTENT_ID
<1>6. DiskOK' /\ ExtentsPointForward'
  BY <1>1, <1>2, <1>5, OneBlockWritten DEF FreeOldExtent
<1>7. ~(free < 0)
  BY <1>3, DiskAssumption DEF Blocks
<1>8. call' = [call EXCEPT !.pc = "iterateFEs", !.free = free, !.prev = call.free,
                           !.cur = next]
  BY <1>7 DEF FreeOldExtent
<1> HIDE DEF free, next
<1>9. /\ call' \in Locals /\ call'.pc = "iterateFEs" /\ call'.slot = call.slot
      /\ call'.prev = call.free /\ call'.free = free
  BY <1>1, <1>3, <1>4, <1>8, NoCallFields DEF Locals
<1>10. LocalsOK' /\ DefragCursor'
  BY <1>1, <1>3, <1>9 DEF LocalsOK, DefragCursor
<1> QED
  BY <1>6, <1>10, OpenListKept DEF FreeOldExtent, Inv, TypeOK

-----------------------------------------------------------------------------
(* The invariant                                                           *)

LEMMA InitInv == Init => Inv
<1> SUFFICES ASSUME Init PROVE Inv
  OBVIOUS
<1>1. DiskOK
  BY WrittenBlocks, NoCallFields DEF Init, Format, DiskOK
<1>2. OpenListOK
  <2>1. DOMAIN openFiles = {} /\ mounted \in BOOLEAN /\ currentFD = 1
    BY DEF Init
  <2>2. 1 \in 1..(MaxFD + 1)
    BY DiskAssumption
  <2> QED
    BY <2>1, <2>2 DEF OpenListOK
<1>3. call = NoCall /\ call.pc = "idle" /\ ret \in [code : Int, byte : Byte]
  BY NoCallFields DEF Init, NoCall
<1>4. LocalsOK /\ DefragCursor
  BY <1>3, NoCallFields DEF LocalsOK, DefragCursor
<1>5. ExtentsPointForward
  BY DEF Init, Format, ExtentsPointForward, freeBlock, FREE_ID, FILE_EXTENT_ID
<1> QED
  BY <1>1, <1>2, <1>3, <1>4, <1>5 DEF Inv, TypeOK

LEMMA FormatMountedStep == ASSUME Inv, FormatMounted PROVE Inv'
<1>1. DiskOK'
  BY WrittenBlocks, NoCallFields DEF FormatMounted, DiskOK
<1>2. ExtentsPointForward'
  BY DEF FormatMounted, ExtentsPointForward, freeBlock, FREE_ID, FILE_EXTENT_ID
<1> QED
  BY <1>1, <1>2, Returned, OpenListKept DEF FormatMounted, Inv, TypeOK

LEMMA NextInv == Inv /\ [Next]_vars => Inv'
<1> SUFFICES ASSUME Inv, [Next]_vars PROVE Inv'
  OBVIOUS
<1>1. CASE UNCHANGED vars
  BY <1>1 DEF vars, Inv, TypeOK, DiskOK, OpenListOK, LocalsOK, isOpen,
              DefragCursor, freeBlocks, ExtentsPointForward
<1>2. CASE SafeCall
  <2>1. CASE Mount                    BY <2>1, MountStep
  <2>2. CASE Unmount                  BY <2>2, UnmountStep
  <2>3. CASE CallUnmounted            BY <2>3, Failed, ErrorCodes DEF CallUnmounted
  <2>4. CASE NullName                 BY <2>4, Failed, ErrorCodes DEF NullName
  <2>5. CASE Readdir                  BY <2>5, ReaddirStep
  <2>6. CASE DisplayFragments         BY <2>6, DisplayFragmentsStep
  <2>7. CASE \E name \in UserNames : OpenFile(name) \/ MakeRO(name) \/ MakeRW(name)
    <3>1. readOnly \in readFlag /\ readAndWrite \in readFlag
      BY DEF readFlag
    <3> QED
      BY <2>7, <3>1, OpenFileStep, ChangePermissionsStep DEF MakeRO, MakeRW
  <2>8. CASE \E fd \in FDs : \/ CloseFile(fd)
                             \/ DeleteFile(fd)
                             \/ ReadByte(fd)
                             \/ ReadFileInfo(fd)
                             \/ \E offset \in SeekOffsets : Seek(fd, offset)
                             \/ \E byte \in WriteBytes : WriteByte(fd, byte)
    BY <2>8, CloseFileStep, DeleteFileStep, ReadByteStep, ReadFileInfoStep, SeekStep,
       WriteByteStep
  <2> QED
    BY <1>2, <2>1, <2>2, <2>3, <2>4, <2>5, <2>6, <2>7, <2>8 DEF SafeCall
<1>3. CASE \E fd \in FDs, buffer \in Buffers : WriteFile(fd, buffer)
  BY <1>3, WriteFileStep
<1>4. CASE \E fd \in FDs, name \in UserNames : Rename(fd, name)
  BY <1>4, RenameStep
<1>5. CASE Defrag
  BY <1>5, DefragStep
<1>6. CASE Continue
  BY <1>6, LinkInodeStep, EraseBlockStep, UpdateInodeStep, WriteBlockStep, RemoveInodeStep,
     FreeInodeStep, DisplayBlockStep, DefragInodeStep, SwapInodeLinkStep, FreeOldInodeStep,
     IterateFEsStep, SwapExtentLinkStep, FreeOldExtentStep
     DEF Continue
<1>7. CASE FormatMounted
  BY <1>7, FormatMountedStep
<1> QED
  BY <1>1, <1>2, <1>3, <1>4, <1>5, <1>6, <1>7 DEF Next

LEMMA AlwaysInv == Spec => []Inv
  BY InitInv, NextInv, PTL DEF Spec

\* Whatever sequence of calls a client makes, disk, open list and the call in
\* progress keep their types: no link leaves the disk, no block has a format the
\* program does not know, and no step uses a local its call has not set.
THEOREM TypeCorrect == Spec => []TypeOK
<1>1. Inv => TypeOK
  BY DEF Inv
<1> QED
  BY <1>1, AlwaysInv, PTL

\* tfs_defrag always fills the lowest free block with a block from behind it, and
\* never runs out of free blocks, whatever became of the disk before it started.
THEOREM DefragCursorCorrect == Spec => []DefragCursor
<1>1. Inv => DefragCursor
  BY DEF Inv
<1> QED
  BY <1>1, AlwaysInv, PTL

\* No sequence of calls, interleaved or not with defragmentation, makes a file
\* extent link to itself or backwards: chains of extents have no cycles.
THEOREM ExtentsPointForwardCorrect == Spec => []ExtentsPointForward
<1>1. Inv => ExtentsPointForward
  BY DEF Inv
<1> QED
  BY <1>1, AlwaysInv, PTL

-----------------------------------------------------------------------------
(* The open list                                                           *)

\* An entry of the open list is replaced by one for the same slot, whose location
\* is in bounds if the old one was.
entryReplaced(fd, file) ==
  /\ fd \in DOMAIN openFiles
  /\ openFiles' = [openFiles EXCEPT ![fd] = file]
  /\ file.inodeLinkIndex = openFiles[fd].inodeLinkIndex
  /\ openFiles[fd].location <= openFiles[fd].fileSize + 1 => file.location <= file.fileSize + 1

\* All that a step can do to the open list.
openListStep ==
  \/ openFiles' = openFiles
  \/ /\ ~mounted'
     /\ openFiles' = [fd \in {} |-> NoResult]
  \/ \E fd : openFDs_removeByFD(fd)
  \/ \E size \in Nat : \E name, slot, next : openFDs_add(size, name, slot, next)
  \/ \E fd, file : entryReplaced(fd, file)

LEMMA CallSteps ==
  ASSUME Inv, SafeCall \/ (\E fd \in FDs, name \in UserNames : Rename(fd, name))
  PROVE  openListStep
<1>1. ASSUME NEW code, Fail(code) PROVE openListStep
  BY <1>1 DEF Fail, openListStep
<1>2. CASE Mount \/ CallUnmounted \/ NullName \/ Readdir \/ DisplayFragments
  BY <1>2 DEF Mount, CallUnmounted, NullName, Readdir, DisplayFragments, Fail, openList,
              openListStep
<1>3. CASE Unmount
  BY <1>3 DEF Unmount, openFDs_Reset, openList, openListStep
<1>4. ASSUME NEW name \in UserNames, OpenFile(name) PROVE openListStep
  <2> DEFINE fname == formatName(name)
             found == searchSB(fname)
             in    == disk[inodeIndices[found.slot]]
  <2>1. \/ openFiles' = openFiles
        \/ found.code = 1 /\ openFDs_add(in.fileSize, fname, found.slot, in.nextBlock)
    BY <1>4 DEF OpenFile, Fail, openList
  <2>2. found.code = 1 => in.fileSize \in Nat
    <3>1. found.code = 1 => inodeIndices[found.slot] \in Blocks /\ in.blockID = INODE_ID
      BY SearchSB
    <3>2. found.code = 1 => in \in Block
      BY <3>1 DEF Inv, TypeOK, DiskOK
    <3> QED
      BY <3>1, <3>2, BlockFields
  <2> HIDE DEF fname, found, in
  <2> QED
    BY <2>1, <2>2 DEF openListStep
<1>5. ASSUME NEW name \in UserNames, MakeRO(name) \/ MakeRW(name) PROVE openListStep
  BY <1>5 DEF MakeRO, MakeRW, ChangePermissions, Fail, openList, openListStep
<1>6. ASSUME NEW fd \in FDs, \/ CloseFile(fd) \/ DeleteFile(fd) \/ ReadFileInfo(fd)
                             \/ \E byte \in WriteBytes : WriteByte(fd, byte)
      PROVE  openListStep
  BY <1>6 DEF CloseFile, DeleteFile, ReadFileInfo, WriteByte, Fail, openList, openListStep
<1>7. ASSUME NEW fd \in FDs, ReadByte(fd) PROVE openListStep
  <2> DEFINE file == [openFiles[fd] EXCEPT !.location = @ + 1]
  <2>1. CASE openFiles' = openFiles
    BY <2>1 DEF openListStep
  <2>2. CASE /\ isOpen(fd) /\ locateByte(openFiles[fd]) = 0
             /\ openFiles' = [openFiles EXCEPT ![fd].location = @ + 1]
    <3>1. ~(openFiles[fd].location > openFiles[fd].fileSize)
      BY <2>2, LocateByte
    <3>2. openFiles' = [openFiles EXCEPT ![fd] = file]
      BY <2>2
    <3>3. /\ file.inodeLinkIndex = openFiles[fd].inodeLinkIndex
          /\ file.location <= file.fileSize + 1
      BY <2>2, <3>1, OpenFileFields DEF TinyOpenFile, isOpen
    <3> QED
      BY <2>2, <3>2, <3>3 DEF openListStep, entryReplaced, isOpen
  <2> QED
    BY <1>7, <2>1, <2>2 DEF ReadByte, Fail
<1>8. ASSUME NEW fd \in FDs, NEW offset \in SeekOffsets, Seek(fd, offset) PROVE openListStep
  <2> DEFINE file == [openFiles[fd] EXCEPT !.location = offset]
  <2>1. CASE openFiles' = openFiles
    BY <2>1 DEF openListStep
  <2>2. CASE /\ isOpen(fd) /\ offset \in 0..openFiles[fd].fileSize
             /\ openFiles' = [openFiles EXCEPT ![fd].location = offset]
    <3>1. openFiles' = [openFiles EXCEPT ![fd] = file]
      BY <2>2
    <3>2. /\ file.inodeLinkIndex = openFiles[fd].inodeLinkIndex
          /\ file.location <= file.fileSize + 1
      BY <2>2, OpenFileFields DEF TinyOpenFile, isOpen
    <3> QED
      BY <2>2, <3>1, <3>2 DEF openListStep, entryReplaced, isOpen
  <2> QED
    BY <1>8, <2>1, <2>2 DEF Seek, Fail
<1>9. ASSUME NEW fd \in FDs, NEW newName \in UserNames, Rename(fd, newName)
      PROVE  openListStep
  <2> DEFINE file == [openFiles[fd] EXCEPT !.fileName = formatName(newName)]
  <2>1. CASE openFiles' = openFiles
    BY <2>1 DEF openListStep
  <2>2. CASE /\ isOpen(fd)
             /\ openFiles' = [openFiles EXCEPT ![fd].fileName = formatName(newName)]
    <3>1. openFiles' = [openFiles EXCEPT ![fd] = file]
      BY <2>2
    <3>2. /\ file.inodeLinkIndex = openFiles[fd].inodeLinkIndex
          /\ file.location = openFiles[fd].location /\ file.fileSize = openFiles[fd].fileSize
      BY <2>2, OpenFileFields DEF TinyOpenFile, isOpen
    <3> QED
      BY <2>2, <3>1, <3>2 DEF openListStep, entryReplaced, isOpen
  <2> QED
    BY <1>9, <2>1, <2>2 DEF Rename, Fail
<1> QED
  BY <1>2, <1>3, <1>4, <1>5, <1>6, <1>7, <1>8, <1>9 DEF SafeCall

LEMMA ContinueSteps == ASSUME Inv, Continue PROVE openListStep
<1>1. CASE LinkInode
  <2>1. 0 \in Nat
    OBVIOUS
  <2> QED
    BY <1>1, <2>1 DEF LinkInode, openListStep
<1>2. CASE UpdateInode
  <2> DEFINE file  == openFiles[call.fd]
             first == findFreeBlock(disk, 0)
             new   == [file EXCEPT !.nextBlockIndex = first, !.fileSize = Len(call.buf),
                                   !.location = 0]
  <2>1. CASE openFiles' = openFiles
    BY <2>1 DEF openListStep
  <2>2. CASE openFiles' = [openFiles EXCEPT ![call.fd] = new]
    <3>1. call.fd \in DOMAIN openFiles /\ call.buf \in Seq(Byte) /\ Len(call.buf) \in Nat
      BY <1>2 DEF UpdateInode, Inv, TypeOK, LocalsOK, Locals, isOpen
    <3>2. file \in TinyOpenFile
      BY <3>1, OpenFileFields
    <3> HIDE DEF first, file
    <3>3. /\ new.inodeLinkIndex = file.inodeLinkIndex /\ new.location = 0
          /\ new.fileSize = Len(call.buf)
      BY <3>2 DEF TinyOpenFile
    <3> HIDE DEF new
    <3>4. new.location <= new.fileSize + 1
      BY <3>1, <3>3
    <3> QED
      BY <2>2, <3>1, <3>3, <3>4 DEF openListStep, entryReplaced, file
  <2> QED
    BY <1>2, <2>1, <2>2 DEF UpdateInode, Fail
<1>3. CASE FreeInode
  BY <1>3 DEF FreeInode, Fail, openListStep
<1>4. CASE \/ EraseBlock \/ WriteBlock \/ RemoveInode \/ DisplayBlock \/ DefragInode
           \/ SwapInodeLink \/ FreeOldInode \/ IterateFEs \/ SwapExtentLink \/ FreeOldExtent
  <2>1. openFiles' = openFiles
    BY <1>4 DEF EraseBlock, WriteBlock, RemoveInode, DisplayBlock, DefragInode, SwapInodeLink,
                FreeOldInode, IterateFEs, SwapExtentLink, FreeOldExtent, Fail, openList
  <2> QED
    BY <2>1 DEF openListStep
<1> QED
  BY <1>1, <1>2, <1>3, <1>4 DEF Continue

LEMMA OpenListSteps == ASSUME Inv, [Next]_vars PROVE openListStep
<1>1. CASE UNCHANGED vars
  BY <1>1 DEF vars, openListStep
<1>2. CASE \/ \E fd \in FDs, buffer \in Buffers : WriteFile(fd, buffer)
           \/ Defrag
           \/ FormatMounted
  BY <1>2 DEF WriteFile, Defrag, FormatMounted, Fail, openList, openListStep
<1> QED
  BY <1>1, <1>2, CallSteps, ContinueSteps DEF Next

LEMMA LocationStep == Inv /\ LocationBounded /\ [Next]_vars => LocationBounded'
<1> SUFFICES ASSUME Inv, LocationBounded, [Next]_vars PROVE LocationBounded'
  OBVIOUS
<1>1. openListStep
  BY OpenListSteps
<1>2. CASE openFiles' = openFiles
  BY <1>2 DEF LocationBounded
<1>3. CASE openFiles' = [fd \in {} |-> NoResult]
  BY <1>3 DEF LocationBounded
<1>4. CASE \E fd : openFDs_removeByFD(fd)
  BY <1>4 DEF LocationBounded, openFDs_removeByFD, Restrict
<1>5. CASE \E size \in Nat : \E name, slot, next : openFDs_add(size, name, slot, next)
  BY <1>5 DEF LocationBounded, openFDs_add
<1>6. CASE \E fd, file : entryReplaced(fd, file)
  BY <1>6 DEF LocationBounded, entryReplaced
<1> QED
  BY <1>1, <1>2, <1>3, <1>4, <1>5, <1>6 DEF openListStep

\* Whatever the client does and whatever sizes files have, no file pointer is more
\* than one byte behind the end of its file.
THEOREM LocationBoundedCorrect == Spec => []LocationBounded
<1>1. Init => LocationBounded
  BY DEF Init, LocationBounded
<1> QED
  BY <1>1, LocationStep, AlwaysInv, PTL DEF Spec

\* The next descriptor starts again from one when the disk is unmounted, and in no
\* other step.
LEMMA CurrentFDGrows == ASSUME Inv, [Next]_vars PROVE mounted' => currentFD' >= currentFD
<1> SUFFICES ASSUME mounted' PROVE currentFD' >= currentFD
  OBVIOUS
<1>1. currentFD \in Int
  BY DiskAssumption DEF Inv, TypeOK, OpenListOK
<1>2. CASE currentFD' = currentFD
  BY <1>1, <1>2
<1>3. CASE currentFD' = currentFD + 1
  BY <1>1, <1>3
<1>4. CASE UNCHANGED vars
  BY <1>2, <1>4 DEF vars
<1>5. CASE Mount \/ Unmount \/ CallUnmounted \/ NullName \/ Readdir \/ DisplayFragments
  <2>1. CASE Unmount
    BY <2>1 DEF Unmount, Fail
  <2> QED
    BY <1>2, <1>5, <2>1 DEF Mount, CallUnmounted, NullName, Readdir, DisplayFragments, Fail,
                            openList
<1>6. CASE \E name \in UserNames : OpenFile(name) \/ MakeRO(name) \/ MakeRW(name)
  BY <1>2, <1>3, <1>6 DEF OpenFile, MakeRO, MakeRW, ChangePermissions, openFDs_add, Fail, openList
<1>7. CASE \E fd \in FDs : \/ CloseFile(fd)
                           \/ DeleteFile(fd)
                           \/ ReadByte(fd)
                           \/ ReadFileInfo(fd)
                           \/ \E offset \in SeekOffsets : Seek(fd, offset)
                           \/ \E byte \in WriteBytes : WriteByte(fd, byte)
  BY <1>2, <1>7 DEF CloseFile, DeleteFile, ReadByte, ReadFileInfo, Seek, WriteByte,
                    openFDs_removeByFD, Fail, openList
<1>8. CASE \/ \E fd \in FDs, buffer \in Buffers : WriteFile(fd, buffer)
           \/ \E fd \in FDs, name \in UserNames : Rename(fd, name)
           \/ Defrag
           \/ FormatMounted
  BY <1>2, <1>8 DEF WriteFile, Rename, Defrag, FormatMounted, Fail, openList
<1>9. CASE Continue
  <2>1. CASE LinkInode
    BY <1>3, <2>1 DEF LinkInode, openFDs_add
  <2>2. CASE UpdateInode \/ FreeInode
    BY <1>2, <2>2 DEF UpdateInode, FreeInode, openFDs_removeByFD, Fail, openList
  <2>3. CASE \/ EraseBlock \/ WriteBlock \/ RemoveInode \/ DisplayBlock \/ DefragInode
             \/ SwapInodeLink \/ FreeOldInode \/ IterateFEs \/ SwapExtentLink \/ FreeOldExtent
    BY <1>2, <2>3 DEF EraseBlock, WriteBlock, RemoveInode, DisplayBlock, DefragInode,
                      SwapInodeLink, FreeOldInode, IterateFEs, SwapExtentLink, FreeOldExtent,
                      Fail, openList
  <2> QED
    BY <1>9, <2>1, <2>2, <2>3 DEF Continue
<1> QED
  BY <1>4, <1>5, <1>6, <1>7, <1>8, <1>9 DEF Next, SafeCall

\* Within one mount no descriptor is handed out twice, whatever the client does and
\* whatever became of the disk: the next descriptor never comes down, a new entry of
\* the open list has that number and raises it, and no entry changes its slot.
THEOREM DescriptorsStableCorrect == Spec => DescriptorsStable
<1> DEFINE stable ==
      mounted' =>
        /\ currentFD' >= currentFD
        /\ \A fd \in DOMAIN openFiles' \ DOMAIN openFiles :
             fd = currentFD /\ currentFD' > fd
        /\ \A fd \in DOMAIN openFiles \cap DOMAIN openFiles' :
             openFiles'[fd].inodeLinkIndex = openFiles[fd].inodeLinkIndex
<1>1. ASSUME Inv, [Next]_vars, mounted'
      PROVE  /\ \A fd \in DOMAIN openFiles' \ DOMAIN openFiles :
                  fd = currentFD /\ currentFD' > fd
             /\ \A fd \in DOMAIN openFiles \cap DOMAIN openFiles' :
                  openFiles'[fd].inodeLinkIndex = openFiles[fd].inodeLinkIndex
  <2>1. openListStep
    BY <1>1, OpenListSteps
  <2>2. currentFD \in Int /\ currentFD \notin DOMAIN openFiles
    BY <1>1, DiskAssumption DEF Inv, TypeOK, OpenListOK
  <2>3. CASE openFiles' = openFiles
    BY <2>3
  <2>4. CASE \E fd : openFDs_removeByFD(fd)
    BY <2>4 DEF openFDs_removeByFD, Restrict
  <2>5. CASE \E size \in Nat : \E name, slot, next : openFDs_add(size, name, slot, next)
    BY <2>2, <2>5 DEF openFDs_add
  <2>6. CASE \E fd, file : entryReplaced(fd, file)
    BY <2>6 DEF entryReplaced
  <2> QED
    BY <1>1, <2>1, <2>3, <2>4, <2>5, <2>6 DEF openListStep
<1>2. Inv /\ [Next]_vars => [stable]_vars
  BY <1>1, CurrentFDGrows
<1> HIDE DEF stable
<1>3. Spec => [][stable]_vars
  BY <1>2, AlwaysInv, PTL DEF Spec
<1> QED
  BY <1>3 DEF DescriptorsStable, stable

=============================================================================
