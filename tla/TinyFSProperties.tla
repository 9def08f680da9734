-------------------------- MODULE TinyFSProperties --------------------------
(***************************************************************************)
(* The disk as the files it holds, and the properties of TinyFS.  Which of *)
(* them hold depends on what the client does: the runs say under which     *)
(* client each was checked.                                                *)
(***************************************************************************)
EXTENDS TinyFS

\* The blocks the links of disk d lead through from block start, and 0 behind the
\* end.  No chain without a cycle is longer than the disk.
chainOn(d, start) ==
  LET link[n \in 0..NumBlocks] ==
        IF n = 0 THEN start
        ELSE LET before == link[n - 1]
             IN IF before = noBlockLink THEN noBlockLink ELSE d[before].nextBlock
  IN link

chain(start) == chainOn(disk, start)

chainBlocks(start) ==
  LET link == chain(start) IN {link[n] : n \in 0..NumBlocks} \ {noBlockLink}

\* The blocks of the file in a slot, its inode first.
fileBlocks(slot) == chainBlocks(inodeIndices[slot])

freeBlocks == {b \in Blocks : disk[b].blockID = FREE_ID}

inodeOf(slot) == disk[inodeIndices[slot]]

isFile(slot) == slot \in usedSlots /\ inodeOf(slot).blockID = INODE_ID

\* The slot of the file a write or a deletion is working on.
busySlots ==
  IF call.op \in {"writeFile", "deleteFile"} THEN {openFiles[call.fd].inodeLinkIndex} ELSE {}

\* Byte i of block b, or -1 where there is no extent to hold it.
byteAt(b, i) ==
  IF b # noBlockLink /\ disk[b].blockID = FILE_EXTENT_ID
  THEN disk[b].data[i % DataPerBlock]
  ELSE -1

noFile == [fileName |-> <<>>, readMode |-> 0, bytes |-> <<>>]

\* A file as a client knows it.
fileIn(slot) ==
  IF isFile(slot)
  THEN LET link == chain(inodeIndices[slot])
           extent(i) == (i \div DataPerBlock) + 1
       IN [fileName |-> inodeOf(slot).fileName,
           readMode |-> inodeOf(slot).readMode,
           bytes    |-> [i \in 0..(inodeOf(slot).fileSize - 1) |->
                           IF extent(i) <= NumBlocks THEN byteAt(link[extent(i)], i) ELSE -1]]
  ELSE noFile

\* The files a step changes.
changedFiles ==
  IF UNCHANGED diskVars THEN {} ELSE {s \in Slots : fileIn(s)' # fileIn(s)}

-----------------------------------------------------------------------------
(* Structure of the disk between two calls                                 *)

\* Between calls a block is either free and linked from nowhere, or belongs to
\* exactly one file: no chain runs into another (findFreeBlock never hands out a
\* block in use, eraseFileData never leaves a link to a block it freed), and no
\* block is in use without a file (nothing is leaked by a rewrite, a deletion or
\* a defragmentation).
BlocksPartitioned ==
  idle =>
    /\ \A b \in Blocks \ freeBlocks : \E s \in usedSlots : b \in fileBlocks(s)
    /\ \A s \in usedSlots : fileBlocks(s) \cap freeBlocks = {}
    /\ \A s, t \in usedSlots : s # t => fileBlocks(s) \cap fileBlocks(t) = {}

\* Between calls every used slot leads to an inode, and its chain has exactly the
\* extents its size calls for: no file is half written by tfs_writeFile, half
\* erased, or cut by tfs_defrag.
ChainsMatchSizes ==
  idle => \A s \in usedSlots :
            /\ isFile(s)
            /\ LET extents == fileBlocks(s) \ {inodeIndices[s]}
               IN /\ Cardinality(extents) = blocksFor(inodeOf(s).fileSize)
                  /\ \A b \in extents : disk[b].blockID = FILE_EXTENT_ID

\* The open list caches the first data block, the size and the name of each open
\* file.  Between calls the cache agrees with the inode on disk, and no two
\* descriptors stand for the same file.
OpenTableFresh ==
  idle => /\ \A fd \in DOMAIN openFiles :
               LET file == openFiles[fd]
               IN /\ isFile(file.inodeLinkIndex)
                  /\ inodeOf(file.inodeLinkIndex).nextBlock = file.nextBlockIndex
                  /\ inodeOf(file.inodeLinkIndex).fileSize = file.fileSize
                  /\ inodeOf(file.inodeLinkIndex).fileName = file.fileName
          /\ \A fd1, fd2 \in DOMAIN openFiles :
               openFiles[fd1].inodeLinkIndex = openFiles[fd2].inodeLinkIndex => fd1 = fd2

\* Two files never have the same name: tfs_openFile creates a file only when
\* neither the open list nor any slot of the super block has the name.
NamesUnique ==
  idle => \A s, t \in usedSlots :
            (isFile(s) /\ isFile(t) /\ inodeOf(s).fileName = inodeOf(t).fileName) => s = t

\* The file pointer stays within the file, so that what tfs_readByte returned and
\* what tfs_writeByte writes belongs to the file.
LocationInFile ==
  \A fd \in DOMAIN openFiles : openFiles[fd].location <= openFiles[fd].fileSize

\* Even so, the bounds check keeps the pointer at most one byte behind the end.
LocationBounded ==
  \A fd \in DOMAIN openFiles : openFiles[fd].location <= openFiles[fd].fileSize + 1

\* Whatever the client does, a file extent never links to itself or to a block
\* before it: tfs_writeFile looks for the next block behind the current one, and
\* tfs_defrag moves a block only behind its predecessor.  So no chain of extents
\* is circular, and the loop of iterateFEs, which nothing else bounds, ends on
\* every disk the calls can produce.
ExtentsPointForward ==
  \A b \in Blocks :
    disk[b].blockID = FILE_EXTENT_ID =>
      disk[b].nextBlock = noBlockLink \/ disk[b].nextBlock > b

\* tfs_defrag's free block is the lowest free block of the disk, the block being
\* moved lies behind it and the block before that one in front of it, on every
\* disk, corrupted or not.  So a search for the next free block always finds one:
\* the two messages "almost certainly a logic error" are never printed.
DefragCursor ==
  /\ call.pc \in {"defragInode", "iterateFEs"} =>
       call.free \in freeBlocks /\ \A b \in freeBlocks : call.free <= b
  /\ call.pc \in {"swapInodeLink", "freeOldInode", "swapExtentLink", "freeOldExtent"} =>
       call.free < call.cur /\ \A b \in freeBlocks : call.free < b
  /\ call.pc \in {"iterateFEs", "swapExtentLink"} => call.prev < call.free

-----------------------------------------------------------------------------
(* What a step may do to the files                                         *)

\* A step changes at most one file, and the steps of a write or a deletion change
\* no file but the one behind the descriptor the call was given.
OthersUntouched ==
  [][/\ Cardinality(changedFiles) <= 1
     /\ call.op \in {"writeFile", "deleteFile"} =>
          changedFiles \subseteq {openFiles[call.fd].inodeLinkIndex}]_vars

\* Defragmentation moves blocks, one write at a time; after every one of these
\* writes every file still has its name, mode and bytes.
DefragKeepsFiles ==
  [][call.op = "defrag" => changedFiles = {}]_vars

\* When tfs_defrag is done, "all free blocks are contiguous at the end", and it
\* never fails.
DefragCompacts ==
  [][(call.op = "defrag" /\ idle') =>
       /\ ret'.code = 0
       /\ \A b \in freeBlocks, c \in Blocks : c > b => c \in freeBlocks]_vars

\* A call that reports ENOSPC is right: no block of the disk is free, neither
\* when it returns nor because it has taken the last one for nothing.
NoSpaceMeansFull ==
  [][(idle' /\ ret'.code = ENOSPC) => (freeBlocks \cup freeBlocks') = {}]_vars

\* A file that was made read-only is not deleted.
ReadOnlyNotDeleted ==
  [][\A s \in Slots : (isFile(s) /\ inodeOf(s).readMode = readOnly) => isFile(s)']_vars

\* Writing a file does not change its permission.
WriteKeepsMode ==
  [][call.op = "writeFile" =>
       \A s \in Slots : (isFile(s) /\ isFile(s)') => inodeOf(s)'.readMode = inodeOf(s).readMode]_vars

\* Within one mount no descriptor is handed out twice, whatever the client does and
\* whatever became of the disk: a new one is currentFD, which goes up with it and
\* never comes down, so every number below currentFD stays used up when its file is
\* closed or deleted.  Until then it keeps the slot it was opened with; that the file
\* in the slot is the same, too, is OpenTableFresh and NoFileInherited.
DescriptorsStable ==
  [][mounted' =>
       /\ currentFD' >= currentFD
       /\ \A fd \in DOMAIN openFiles' \ DOMAIN openFiles :
            fd = currentFD /\ currentFD' > fd
       /\ \A fd \in DOMAIN openFiles \cap DOMAIN openFiles' :
            openFiles'[fd].inodeLinkIndex = openFiles[fd].inodeLinkIndex]_vars

\* A file that is created is nobody's: when tfs_openFile takes a slot, no descriptor
\* is left of the file that had the slot before, so a descriptor of a deleted file
\* never reaches a later one.
NoFileInherited ==
  [][\A s \in unusedSlots \ unusedSlots' :
       \A fd \in DOMAIN openFiles : openFiles[fd].inodeLinkIndex # s]_vars

-----------------------------------------------------------------------------
(* Liveness                                                                *)

noChainIsCircular == \A s \in Slots : chain(inodeIndices[s])[NumBlocks] = noBlockLink

\* Every call returns, even on a disk where files share blocks or a chain runs in
\* a circle: eraseFileData and iterateFEs change what they walk over.  Only the
\* fragmentation map needs chains that end.
CallsReturn ==
  (~idle /\ (call.op = "displayFragments" => noChainIsCircular)) ~> idle

\* The fragmentation map is drawn for every disk.
DisplayReturns ==
  (call.op = "displayFragments") ~> (call.op # "displayFragments")

=============================================================================
