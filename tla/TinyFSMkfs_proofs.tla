------------------------- MODULE TinyFSMkfs_proofs -------------------------
(***************************************************************************)
(* What tfs_mkfs writes, for every size, every sequence of formats and     *)
(* mounts and every moment the process may die or a write may fail.        *)
(*                                                                         *)
(* That no block of an earlier file system survives is inductive only      *)
(* together with where the format in progress is: its file has the size it *)
(* was given, and is written exactly as far as "next" says.                *)
(***************************************************************************)
EXTENDS TinyFSDisks_proofs

\* Written blocks stand in front of zeros, behind a super block with the size.
FilesOK ==
  \A name \in DOMAIN hostFiles :
    LET blocks == hostFiles[name].blocks
    IN \A i, j \in 1..Len(blocks) :
         /\ (i < j /\ blocks[j] # JUNK) => blocks[i] # JUNK
         /\ blocks[i] # JUNK => blocks[1] = SUPER(Len(blocks))

FormatOK ==
  ~idle =>
    LET name   == hostFDs[format.diskFd]
        blocks == hostFiles[name].blocks
    IN /\ name \notin formatted
       /\ format.numBlocks = Len(blocks) /\ format.numBlocks \in 1..MaxBlockCount
       /\ format.next <= format.numBlocks
       /\ \A i \in 1..Len(blocks) : blocks[i] # JUNK <=> i <= format.next

FormattedOK ==
  \A name \in formatted :
    LET blocks == hostFiles[name].blocks
    IN /\ name \in DOMAIN hostFiles
       /\ Len(blocks) \in 1..MaxBlockCount
       /\ \A i \in 1..Len(blocks) : blocks[i] # JUNK

MkfsInv == DisksInv /\ FilesOK /\ FormatOK /\ FormattedOK

-----------------------------------------------------------------------------

LEMMA Kinds ==
  /\ FREE # JUNK /\ DATA # JUNK /\ \A n : SUPER(n) # JUNK
  /\ \A block \in Block : block.blockID = "JUNK" => block = JUNK
BY DEF FREE, DATA, SUPER, JUNK, Block

\* A call that leaves the files as they are.
LEMMA FilesKept ==
  ASSUME MkfsInv, idle', UNCHANGED <<hostFiles, formatted>>
  PROVE  FilesOK' /\ FormatOK' /\ FormattedOK'
BY DEF MkfsInv, FilesOK, FormatOK, FormattedOK

LEMMA RefuseKeeps ==
  ASSUME MkfsInv, NEW code, Refuse(code)
  PROVE  FilesOK' /\ FormatOK' /\ FormattedOK'
<1>1. idle' /\ UNCHANGED <<hostFiles, formatted>>
  BY NoFormatType DEF Refuse, diskState
<1> QED
  BY <1>1, FilesKept

\* A block written right behind written blocks, or over one.
LEMMA WrittenInOrder ==
  ASSUME MkfsInv, NEW fd \in DOMAIN hostFDs, NEW bNum \in Int, bNum >= 0,
         readBlock(fd, bNum) = 0, NEW block \in Block,
         writeBlock(fd, bNum, block),
         block # JUNK,
         \A i \in 1..bNum : blocksOf(fd)[i] # JUNK,
         bNum = 0 => block = SUPER(Len(blocksOf(fd)))
  PROVE  FilesOK'
<1> DEFINE name   == hostFDs[fd]
           blocks == hostFiles[name].blocks
           new    == hostFiles'[name].blocks
           at     == bNum + 1
<1>1. /\ at \in 1..Len(blocks) /\ Len(blocks) \in Nat
      /\ DOMAIN hostFiles' = DOMAIN hostFiles /\ name \in DOMAIN hostFiles
      /\ Len(new) = Len(blocks)
      /\ \A i \in 1..Len(blocks) : new[i] = IF i = at THEN block ELSE blocks[i]
      /\ \A f \in DOMAIN hostFiles : f # name => hostFiles'[f] = hostFiles[f]
  BY BlockWritten DEF MkfsInv
<1>2. /\ \A i, j \in 1..Len(blocks) :
           /\ (i < j /\ blocks[j] # JUNK) => blocks[i] # JUNK
           /\ blocks[i] # JUNK => blocks[1] = SUPER(Len(blocks))
      /\ \A i \in 1..bNum : blocks[i] # JUNK
      /\ bNum = 0 => block = SUPER(Len(blocks))
  BY <1>1 DEF MkfsInv, FilesOK, blocksOf
<1> HIDE DEF new, blocks, name
<1>3. ASSUME NEW i \in 1..Len(blocks), NEW j \in 1..Len(blocks), i < j, new[j] # JUNK
      PROVE  new[i] # JUNK
  <2>1. CASE i = at
    BY <1>1, <2>1
  <2>2. CASE i # at /\ j = at
    <3>1. i \in 1..bNum
      BY <1>1, <1>3, <2>2
    <3> QED
      BY <1>1, <1>2, <2>2, <3>1
  <2>3. CASE i # at /\ j # at
    BY <1>1, <1>2, <1>3, <2>3
  <2> QED
    BY <2>1, <2>2, <2>3
<1>4. Len(blocks) >= 1 => new[1] = SUPER(Len(blocks))
  <2>1. CASE bNum = 0
    BY <1>1, <1>2, <2>1
  <2>2. CASE bNum # 0
    <3>1. 1 \in 1..bNum /\ 1 \in 1..Len(blocks) /\ 1 # at
      BY <1>1, <2>2
    <3>2. blocks[1] = SUPER(Len(blocks))
      BY <1>2, <3>1
    <3> QED
      BY <1>1, <3>1, <3>2
  <2> QED
    BY <2>1, <2>2
<1>5. \A i, j \in 1..Len(new) :
        /\ (i < j /\ new[j] # JUNK) => new[i] # JUNK
        /\ new[i] # JUNK => new[1] = SUPER(Len(new))
  BY <1>1, <1>3, <1>4
<1>6. ASSUME NEW f \in DOMAIN hostFiles'
      PROVE  LET b == hostFiles'[f].blocks
             IN \A i, j \in 1..Len(b) :
                  /\ (i < j /\ b[j] # JUNK) => b[i] # JUNK
                  /\ b[i] # JUNK => b[1] = SUPER(Len(b))
  <2>1. CASE f = name
    BY <1>5, <2>1 DEF new
  <2>2. CASE f # name
    <3>1. f \in DOMAIN hostFiles /\ hostFiles'[f] = hostFiles[f]
      BY <1>1, <2>2
    <3> QED
      BY <3>1 DEF MkfsInv, FilesOK
  <2> QED
    BY <2>1, <2>2
<1> QED
  BY <1>6 DEF FilesOK

-----------------------------------------------------------------------------

\* tfs_mkfs empties the file before anything else, whatever becomes of it.
LEMMA MkfsKeeps ==
  ASSUME MkfsInv, NEW name \in DiskFile, NEW nBytes \in DiskBytes, Mkfs(name, nBytes)
  PROVE  FilesOK' /\ FormatOK' /\ FormattedOK'
<1> DEFINE numBlocks == nBytes \div BLOCKSIZE
<1>1. CASE Refuse(ENOSPC) \/ Refuse(EIO)
  BY <1>1, RefuseKeeps
<1>2. ASSUME NEW n \in Nat, hostTruncates(name, n), formatted' = formatted \ {name}
      PROVE  /\ FilesOK' /\ FormattedOK'
             /\ Len(hostFiles'[name].blocks) = n
             /\ \A i \in 1..n : hostFiles'[name].blocks[i] = JUNK
  <2>1. /\ DOMAIN hostFiles' = DOMAIN hostFiles \cup {name}
        /\ Len(hostFiles'[name].blocks) = n
        /\ \A i \in 1..n : hostFiles'[name].blocks[i] = JUNK
        /\ \A f \in DOMAIN hostFiles : f # name => hostFiles'[f] = hostFiles[f]
    BY <1>2, Truncated DEF MkfsInv, hostTruncates
  <2>2. FilesOK'
    <3> SUFFICES ASSUME NEW f \in DOMAIN hostFiles'
                 PROVE  LET b == hostFiles'[f].blocks
                        IN \A i, j \in 1..Len(b) :
                             /\ (i < j /\ b[j] # JUNK) => b[i] # JUNK
                             /\ b[i] # JUNK => b[1] = SUPER(Len(b))
      BY DEF FilesOK
    <3>1. CASE f = name
      BY <2>1, <3>1
    <3>2. CASE f # name
      <4>1. f \in DOMAIN hostFiles /\ hostFiles'[f] = hostFiles[f]
        BY <2>1, <3>2
      <4> QED
        BY <4>1 DEF MkfsInv, FilesOK
    <3> QED
      BY <3>1, <3>2
  <2>3. FormattedOK'
    BY <1>2, <2>1 DEF MkfsInv, FormattedOK
  <2> QED
    BY <2>1, <2>2, <2>3
<1>3. CASE /\ createDiskFails(name) /\ Return(EIO)
           /\ formatted' = formatted \ {name}
  <2>1. hostTruncates(name, 0) /\ idle'
    BY <1>3, NoFormatType DEF createDiskFails
  <2> QED
    BY <1>2, <1>3, <2>1 DEF FormatOK
<1>4. CASE /\ nBytes >= BLOCKSIZE /\ openable
           /\ createDisk(name, nBytes)
           /\ IF numBlocks > MaxBlockCount
              THEN Return(ENOSPC)
              ELSE format' = [diskFd |-> lowestFD, numBlocks |-> numBlocks, next |-> 0]
           /\ formatted' = formatted \ {name}
  <2>1. numBlocks \in Nat /\ numBlocks >= 1
    BY <1>4, LibDiskAssumption, DisksAssumption
  <2>2. hostTruncates(name, numBlocks) /\ hostFDs'[lowestFD] = name
    BY <1>4 DEF createDisk, hostOpens
  <2> HIDE DEF numBlocks
  <2>3. /\ FilesOK' /\ FormattedOK'
        /\ Len(hostFiles'[name].blocks) = numBlocks
        /\ \A i \in 1..numBlocks : hostFiles'[name].blocks[i] = JUNK
    BY <1>2, <1>4, <2>1, <2>2
  <2>4. CASE idle'
    BY <2>3, <2>4 DEF FormatOK
  <2>5. CASE ~idle'
    <3>1. /\ format' = [diskFd |-> lowestFD, numBlocks |-> numBlocks, next |-> 0]
          /\ numBlocks \in 1..MaxBlockCount
      BY <1>4, <2>1, <2>5, NoFormatType, DisksAssumption
    <3>2. FormatOK'
      BY <1>4, <2>1, <2>2, <2>3, <3>1 DEF FormatOK
    <3> QED
      BY <2>3, <3>2
  <2> QED
    BY <2>4, <2>5
<1> QED
  BY <1>1, <1>3, <1>4 DEF Mkfs

LEMMA FormatBlockKeeps ==
  ASSUME MkfsInv, FormatBlock
  PROVE  FilesOK' /\ FormatOK' /\ FormattedOK'
<1> DEFINE block  == IF format.next = 0 THEN SUPER(format.numBlocks) ELSE FREE
           fd     == format.diskFd
           name   == hostFDs[fd]
           blocks == hostFiles[name].blocks
           new    == hostFiles'[name].blocks
<1>1. /\ format \in [diskFd : Int, numBlocks : Nat, next : Nat]
      /\ fd \in DOMAIN hostFDs
      /\ format.next < format.numBlocks
      /\ name \notin formatted
      /\ format.numBlocks = Len(blocks) /\ format.numBlocks \in 1..MaxBlockCount
      /\ \A i \in 1..Len(blocks) : blocks[i] # JUNK <=> i <= format.next
  BY DEF FormatBlock, MkfsInv, DisksInv, TypesOK, CursorsOK, FormatOK
<1>2. /\ writeBlock(fd, format.next, block)
      /\ format' = [format EXCEPT !.next = format.next + 1]
      /\ UNCHANGED <<hostFDs, formatted>>
  BY DEF FormatBlock, writeBlock
<1>3. block \in Block /\ block # JUNK /\ format.next \in Int /\ format.next >= 0
  BY <1>1, Blocks, Kinds
<1>4. readBlock(fd, format.next) = 0
  BY DEF FormatBlock, safeWriteBlock, EIO
<1>5. FilesOK'
  <2>1. \A i \in 1..format.next : blocksOf(fd)[i] # JUNK
    BY <1>1 DEF blocksOf
  <2>2. format.next = 0 => block = SUPER(Len(blocksOf(fd)))
    BY <1>1 DEF blocksOf
  <2> HIDE DEF block, fd
  <2> QED
    BY <1>1, <1>2, <1>3, <1>4, <2>1, <2>2, WrittenInOrder
<1>6. /\ DOMAIN hostFiles' = DOMAIN hostFiles
      /\ Len(new) = Len(blocks)
      /\ \A i \in 1..Len(blocks) : new[i] = IF i = format.next + 1 THEN block ELSE blocks[i]
      /\ \A f \in DOMAIN hostFiles : f # name => hostFiles'[f] = hostFiles[f]
  <2> HIDE DEF block, fd
  <2> QED
    BY <1>1, <1>2, <1>3, <1>4, BlockWritten DEF MkfsInv
<1>7. /\ format'.diskFd = fd /\ format'.numBlocks = format.numBlocks
      /\ format'.next = format.next + 1
  BY <1>1, <1>2
<1> HIDE DEF new, blocks, block
<1>8. \A i \in 1..Len(new) : new[i] # JUNK <=> i <= format'.next
  BY <1>1, <1>3, <1>6, <1>7
<1>9. FormatOK'
  <2> SUFFICES ASSUME ~idle'
               PROVE  /\ name \notin formatted
                      /\ format'.numBlocks = Len(new) /\ format'.numBlocks \in 1..MaxBlockCount
                      /\ format'.next <= format'.numBlocks
                      /\ \A i \in 1..Len(new) : new[i] # JUNK <=> i <= format'.next
    BY <1>2, <1>7 DEF FormatOK, new
  <2> QED
    BY <1>1, <1>6, <1>7, <1>8
<1>10. FormattedOK'
  <2> HIDE DEF name
  <2> QED
    BY <1>1, <1>2, <1>6 DEF MkfsInv, FormattedOK
<1> QED
  BY <1>5, <1>9, <1>10

LEMMA FormatEndsKeeps ==
  ASSUME MkfsInv, FormatFails \/ FormatDone
  PROVE  FilesOK' /\ FormatOK' /\ FormattedOK'
<1>1. idle' /\ UNCHANGED hostFiles /\ ~idle
  BY NoFormatType DEF FormatFails, FormatDone, closeDisk, diskState
<1>2. FilesOK' /\ FormatOK'
  BY <1>1 DEF MkfsInv, FilesOK, FormatOK
<1>3. CASE FormatFails
  BY <1>1, <1>2, <1>3 DEF FormatFails, MkfsInv, FormattedOK
<1>4. CASE FormatDone
  <2> DEFINE name   == hostFDs[format.diskFd]
             blocks == hostFiles[name].blocks
  <2>1. /\ name \in DOMAIN hostFiles
        /\ Len(blocks) \in 1..MaxBlockCount
        /\ \A i \in 1..Len(blocks) : blocks[i] # JUNK
    <3>1. name \in DOMAIN hostFiles
      BY <1>1 DEF MkfsInv, DisksInv, CursorsOK, TypesOK
    <3>2. /\ format.numBlocks = Len(blocks) /\ format.numBlocks \in 1..MaxBlockCount
          /\ \A i \in 1..Len(blocks) : blocks[i] # JUNK <=> i <= format.next
          /\ format.next = format.numBlocks
      BY <1>1, <1>4 DEF MkfsInv, FormatOK, FormatDone
    <3> QED
      BY <3>1, <3>2
  <2>2. formatted' = formatted \cup {name}
    BY <1>4 DEF FormatDone
  <2> HIDE DEF name
  <2> QED
    BY <1>1, <1>2, <2>1, <2>2 DEF MkfsInv, FormattedOK
<1> QED
  BY <1>2, <1>3, <1>4

\* A file call writes blocks it could read, which are blocks that were written.
LEMMA UseBlockKeeps ==
  ASSUME MkfsInv, NEW bNum \in -1..MaxBlockCount, NEW block \in {FREE, DATA},
         UseBlock(bNum, block)
  PROVE  FilesOK' /\ FormatOK' /\ FormattedOK'
<1>1. CASE \E code \in {EIO, ECORRUPT} : Refuse(code)
  BY <1>1, RefuseKeeps
<1>2. CASE /\ isMounted
           /\ safeReadBlock(mountedDiskFD, bNum, "GENERIC_ID") = 0
           /\ writeBlock(mountedDiskFD, bNum, block)
           /\ Return(0)
           /\ UNCHANGED formatted
  <2> DEFINE fd     == mountedDiskFD
             name   == hostFDs[fd]
             blocks == hostFiles[name].blocks
             new    == hostFiles'[name].blocks
  <2>1. fd \in DOMAIN hostFDs
    BY <1>2 DEF isMounted, MkfsInv, DisksInv, CursorsOK
  <2>2. /\ readBlock(fd, bNum) = 0 /\ bNum # 0 /\ ~(bNum < 0)
        /\ blockAt(fd, bNum).blockID # "JUNK"
    BY <1>2 DEF safeReadBlock, checkbNum, EIO, ECORRUPT
  <2>3. bNum \in Int /\ bNum >= 0 /\ block \in Block /\ block # JUNK
    BY <2>2, DisksAssumption, Blocks, Kinds
  <2>4. /\ bNum + 1 \in 1..Len(blocks) /\ Len(blocks) \in Nat
        /\ DOMAIN hostFiles' = DOMAIN hostFiles /\ name \in DOMAIN hostFiles
        /\ Len(new) = Len(blocks)
        /\ \A i \in 1..Len(blocks) : new[i] = IF i = bNum + 1 THEN block ELSE blocks[i]
        /\ \A f \in DOMAIN hostFiles : f # name => hostFiles'[f] = hostFiles[f]
    BY <1>2, <2>1, <2>2, <2>3, BlockWritten DEF MkfsInv
  <2>5. \A i \in 1..bNum : blocksOf(fd)[i] # JUNK
    <3>1. blocks[bNum + 1] # JUNK
      BY <2>2 DEF blockAt, blocksOf, JUNK
    <3>2. \A i, j \in 1..Len(blocks) : (i < j /\ blocks[j] # JUNK) => blocks[i] # JUNK
      BY <2>4 DEF MkfsInv, FilesOK
    <3> HIDE DEF blocks
    <3>3. \A i \in 1..bNum : i \in 1..Len(blocks) /\ i < bNum + 1
      BY <2>3, <2>4
    <3>4. \A i \in 1..bNum : blocks[i] # JUNK
      BY <2>4, <3>1, <3>2, <3>3
    <3> QED
      BY <3>4 DEF blocks, blocksOf
  <2>6. FilesOK'
    BY <1>2, <2>1, <2>2, <2>3, <2>5, WrittenInOrder
  <2>7. idle'
    BY <1>2, NoFormatType
  <2>8. FormattedOK'
    <3> SUFFICES ASSUME NEW f \in formatted
                 PROVE  LET b == hostFiles'[f].blocks
                        IN /\ f \in DOMAIN hostFiles'
                           /\ Len(b) \in 1..MaxBlockCount
                           /\ \A i \in 1..Len(b) : b[i] # JUNK
      BY <1>2 DEF FormattedOK
    <3>1. LET b == hostFiles[f].blocks
          IN /\ f \in DOMAIN hostFiles
             /\ Len(b) \in 1..MaxBlockCount
             /\ \A i \in 1..Len(b) : b[i] # JUNK
      BY DEF MkfsInv, FormattedOK
    <3>2. CASE f = name
      BY <2>3, <2>4, <3>1, <3>2
    <3>3. CASE f # name
      BY <2>4, <3>1, <3>3
    <3> QED
      BY <3>2, <3>3
  <2> QED
    BY <2>6, <2>7, <2>8 DEF FormatOK
<1> QED
  BY <1>1, <1>2 DEF UseBlock

\* Mounting, unmounting and a new process leave the files alone.
LEMMA OthersKeep ==
  ASSUME MkfsInv, (\E name \in DiskFile : Mount(name)) \/ Unmount \/ Restart
  PROVE  FilesOK' /\ FormatOK' /\ FormattedOK'
<1>1. idle' /\ UNCHANGED <<hostFiles, formatted>>
  BY NoFormatType DEF Mount, Unmount, Restart, Refuse, diskState, openExisting, closeDisk
<1> QED
  BY <1>1, FilesKept

-----------------------------------------------------------------------------

LEMMA InitMkfs == Init => MkfsInv
<1> SUFFICES ASSUME Init PROVE MkfsInv
  OBVIOUS
<1>1. DisksInv
  BY InitDisks
<1>2. FilesOK
  <2>1. ASSUME NEW name \in DOMAIN hostFiles, NEW i \in 1..Len(hostFiles[name].blocks)
        PROVE  hostFiles[name].blocks[i] = JUNK
    <3>1. hostFiles[name].blocks \in Seq({JUNK})
      BY DisksAssumption DEF Init
    <3> QED
      BY <3>1, ElementOfSeq
  <2> QED
    BY <2>1 DEF FilesOK
<1> QED
  BY <1>1, <1>2 DEF Init, MkfsInv, FormatOK, FormattedOK, idle

LEMMA NextMkfs == MkfsInv /\ [Next]_diskVars => MkfsInv'
<1> SUFFICES ASSUME MkfsInv, [Next]_diskVars PROVE MkfsInv'
  OBVIOUS
<1>1. DisksInv'
  BY NextDisks DEF MkfsInv
<1>2. CASE UNCHANGED diskVars
  BY <1>1, <1>2 DEF diskVars, MkfsInv, FilesOK, FormatOK, FormattedOK, idle
<1>3. CASE Next
  BY <1>1, <1>3, MkfsKeeps, FormatBlockKeeps, FormatEndsKeeps, UseBlockKeeps, OthersKeep
     DEF Next, MkfsInv
<1> QED
  BY <1>2, <1>3

LEMMA AlwaysMkfs == Spec => []MkfsInv
  BY InitMkfs, NextMkfs, PTL DEF Spec

\* Whatever was on a disk file before, however often tfs_mkfs is refused, fails or is
\* cut off, and whatever is written to the disk later: a block is either zeros or was
\* written since the last tfs_mkfs, behind a super block that knows the file's length.
THEOREM NothingOldSurvivesCorrect == Spec => []NothingOldSurvives
<1>1. MkfsInv => NothingOldSurvives
  <2> SUFFICES ASSUME MkfsInv, NEW name \in DOMAIN hostFiles
               PROVE  LET blocks == hostFiles[name].blocks
                      IN \A i, j \in DOMAIN blocks :
                           /\ (i < j /\ blocks[j] # JUNK) => blocks[i] # JUNK
                           /\ blocks[i] # JUNK => blocks[1] = SUPER(Len(blocks))
                           /\ (~idle /\ name = hostFDs[format.diskFd]) =>
                                (blocks[i] # JUNK <=> i <= format.next)
    BY DEF NothingOldSurvives
  <2>1. DOMAIN hostFiles[name].blocks = 1..Len(hostFiles[name].blocks)
    BY LenProperties DEF MkfsInv, DisksInv, TypesOK, HostFile
  <2> QED
    BY <2>1 DEF MkfsInv, FilesOK, FormatOK
<1> QED
  BY <1>1, AlwaysMkfs, PTL

\* A disk that tfs_mkfs has made can be read, block for block, whenever it is mounted
\* and was not formatted under the mount: what libDisk.c knows of its length, what the
\* super block says and what the host has agree, whatever calls came between.
THEOREM MountedDiskReadyCorrect == Spec => []MountedDiskReady
<1>1. MkfsInv => MountedDiskReady
  <2> DEFINE fd     == mountedDiskFD
             blocks == blocksOf(fd)
             n      == Len(blocks)
  <2> SUFFICES ASSUME MkfsInv, isMounted, fd \notin replaced, hostFDs[fd] \in formatted
               PROVE  /\ n <= MaxBlockCount
                      /\ safeReadBlock(fd, 0, "SUPER_ID") = 0
                      /\ \A b \in -1..(MaxBlockCount + 1) :
                           safeReadBlock(fd, b, "GENERIC_ID") = (IF b \in 1..(n - 1) THEN 0 ELSE EIO)
    BY DEF MountedDiskReady
  <2>1. fd \in DOMAIN hostFDs /\ hostFDs[fd] \in DOMAIN hostFiles /\ blocks \in Seq(Block)
    BY DEF isMounted, MkfsInv, DisksInv, CursorsOK, TypesOK, HostFile, blocksOf
  <2>2. n \in 1..MaxBlockCount /\ \A i \in 1..n : blocks[i] # JUNK
    BY DEF MkfsInv, FormattedOK, blocksOf
  <2>3. blocks[1] = SUPER(n)
    BY <2>1, <2>2 DEF MkfsInv, FilesOK, blocksOf
  <2>4. /\ isOpenDisk(fd)
        /\ arrayList_find_by_fd(openDisks, fd).diskSize = n
    <3> DEFINE k == Min(positions(openDisks, fd))
    <3>1. DOMAIN openDisks.arr = 1..Len(openDisks.arr)
      BY LenProperties DEF MkfsInv, DisksInv, TypesOK
    <3>2. PICK i \in 1..Len(openDisks.arr) : openDisks.arr[i].diskFd = fd
      BY <2>1 DEF MkfsInv, DisksInv, ListOK
    <3>3. positions(openDisks, fd) \in SUBSET Nat /\ positions(openDisks, fd) # {}
      BY <3>1, <3>2 DEF positions
    <3>4. k \in positions(openDisks, fd)
      BY <3>3, MinOfNats
    <3>5. arrayList_find_by_fd(openDisks, fd) = openDisks.arr[k]
      BY DEF arrayList_find_by_fd
    <3> HIDE DEF k
    <3>6. k \in 1..Len(openDisks.arr) /\ openDisks.arr[k].diskFd = fd
      BY <3>1, <3>4 DEF positions
    <3>7. openDisks.arr[k].diskSize = n
      BY <3>6 DEF MkfsInv, DisksInv, SizesOK, blocksOf
    <3> QED
      BY <3>3, <3>5, <3>7 DEF isOpenDisk
  <2> HIDE DEF fd, blocks, n
  <2>5. \A b \in 0..(n - 1) : readBlock(fd, b) = 0
    BY <2>2, <2>4 DEF readBlock, n, blocks
  <2>6. \A b \in 0..(n - 1) : blockAt(fd, b) = blocks[b + 1]
    BY DEF blockAt, blocks
  <2>7. /\ blockAt(fd, 0).numBlocks = n /\ blockAt(fd, 0).blockID = "SUPER_ID"
        /\ readBlock(fd, 0) = 0
    BY <2>2, <2>3, <2>5, <2>6 DEF SUPER
  <2>8. ASSUME NEW b \in 1..(n - 1)
        PROVE  blockAt(fd, b).blockID # "JUNK" /\ readBlock(fd, b) = 0
    <3>1. b + 1 \in 1..n /\ b \in 0..(n - 1)
      BY <2>2
    <3>2. blocks[b + 1] \in Block /\ blocks[b + 1] # JUNK
      BY <2>1, <2>2, <3>1, ElementOfSeq DEF n
    <3> QED
      BY <2>5, <2>6, <3>1, <3>2, Kinds
  <2>9. safeReadBlock(fd, 0, "SUPER_ID") = 0
    BY <2>7 DEF safeReadBlock, checkbNum
  <2>10. ASSUME NEW b \in -1..(MaxBlockCount + 1)
         PROVE  safeReadBlock(fd, b, "GENERIC_ID") = (IF b \in 1..(n - 1) THEN 0 ELSE EIO)
    <3>1. CASE b \in 1..(n - 1)
      <4>1. checkbNum(fd, b, "GENERIC_ID") = 0
        BY <2>2, <2>7, <3>1 DEF checkbNum
      <4> QED
        BY <2>8, <3>1, <4>1 DEF safeReadBlock
    <3>2. CASE b \notin 1..(n - 1)
      <4>1. b = 0 \/ b < 0 \/ ~(n > b)
        BY <2>2, <3>2, DisksAssumption
      <4>2. checkbNum(fd, b, "GENERIC_ID") = EIO
        BY <2>7, <4>1 DEF checkbNum
      <4>3. checkbNum(fd, b, "GENERIC_ID") # 0
        BY <4>2 DEF EIO
      <4>4. safeReadBlock(fd, b, "GENERIC_ID") = EIO
        BY <4>3, Zenon DEF safeReadBlock
      <4> QED
        BY <3>2, <4>4
    <3> QED
      BY <3>1, <3>2
  <2> QED
    BY <2>2, <2>9, <2>10
<1> QED
  BY <1>1, AlwaysMkfs, PTL

=============================================================================
