---------------------------- MODULE TinyFSDisks ----------------------------
(***************************************************************************)
(* Making, mounting and unmounting disks (tinyFS.c), and the checked block *)
(* access (safeDiskUtil.c) through which a mounted disk is used.  tfs_mkfs *)
(* writes one block per step.  The process may die at any step, the host   *)
(* may refuse to open or write a file, and any disk file may be formatted, *)
(* the one that is mounted included.                                       *)
(***************************************************************************)
EXTENDS LibDisk

CONSTANTS
  MaxBlockCount,  \* maxBlockCount, 255 in tinyFS.h
  DiskBytes,      \* the sizes clients pass to tfs_mkfs
  ForeignFiles    \* disk files that TinyFS has not made, by name

ASSUME DisksAssumption ==
  /\ MaxBlockCount \in Nat \ {0}
  /\ DiskBytes \subseteq Int
  /\ \A name \in DOMAIN ForeignFiles :
       name \in DiskFile /\ ForeignFiles[name] \in [blocks : Seq({JUNK}), ragged : BOOLEAN]

VARIABLES
  mountedDiskFD,  \* the descriptor of the mounted disk, or -1
  format,         \* tfs_mkfs in progress: its disk, its size, the next block
  result,         \* what the last call returned
  formatted,      \* the disk files whose last tfs_mkfs has returned 0
  replaced        \* the open descriptors whose file was truncated after they were opened

diskVars == <<hostFiles, hostFDs, openDisks, mountedDiskFD, format, result, formatted, replaced>>

ENOSPC   == -1
EIO      == -3
ENOENT   == -4
EALREADY == -5
ECORRUPT == -7

NoFormat == [diskFd |-> -1, numBlocks |-> 0, next |-> 0]
idle     == format = NoFormat
isMounted == mountedDiskFD >= 0

Return(code) == format' = NoFormat /\ result' = code

\* A call that changes nothing on any disk.
Refuse(code) ==
  /\ Return(code)
  /\ UNCHANGED <<diskState, mountedDiskFD, formatted, replaced>>

-----------------------------------------------------------------------------
(* safeDiskUtil.c                                                          *)

\* Block 0 is reached as the super block only; the others are compared with the
\* number of blocks in block 0, whatever that block is.
checkbNum(fd, bNum, type) ==
  IF bNum = 0 THEN (IF type = "SUPER_ID" THEN 0 ELSE EIO)
  ELSE IF bNum < 0 \/ readBlock(fd, 0) # 0 THEN EIO
  ELSE IF blockAt(fd, 0).numBlocks > bNum THEN 0 ELSE EIO

\* type is a blockID, or GENERIC_ID for any.
safeReadBlock(fd, bNum, type) ==
  IF checkbNum(fd, bNum, type) # 0 \/ readBlock(fd, bNum) # 0 THEN EIO
  ELSE LET id == blockAt(fd, bNum).blockID
       IN IF id = "JUNK" \/ (type # "GENERIC_ID" /\ id # type) THEN ECORRUPT ELSE 0

\* Whether safeWriteBlock gets as far as writing.
safeWriteBlock(fd, bNum, type) ==
  IF checkbNum(fd, bNum, type) # 0 \/ readBlock(fd, bNum) # 0 THEN EIO ELSE 0

-----------------------------------------------------------------------------
(* tinyFS.c                                                                *)

\* The descriptors that are open on a disk file.
openOn(name) == {fd \in DOMAIN hostFDs : hostFDs[fd] = name}

\* tfs_mkfs up to the first block write.  A size of more than maxBlockCount blocks
\* is refused when the file has been truncated already, and its disk stays open.
Mkfs(name, nBytes) ==
  LET numBlocks == nBytes \div BLOCKSIZE
  IN /\ idle
     /\ \/ nBytes < BLOCKSIZE /\ Refuse(ENOSPC)
        \/ nBytes >= BLOCKSIZE /\ Refuse(EIO)  \* the host does not open the file
        \/ /\ nBytes >= BLOCKSIZE /\ openable
           /\ \/ createDiskFails(name) /\ Return(EIO)
              \/ /\ createDisk(name, nBytes)
                 /\ IF numBlocks > MaxBlockCount
                    THEN Return(ENOSPC)
                    ELSE /\ format' = [diskFd |-> lowestFD, numBlocks |-> numBlocks, next |-> 0]
                         /\ UNCHANGED result
           /\ formatted' = formatted \ {name}
           /\ replaced' = replaced \cup openOn(name)
           /\ UNCHANGED mountedDiskFD

\* A mutant of FormatBlock: the last block is left out.
FormatBlock_notLast ==
  /\ ~idle /\ format.next < format.numBlocks
  /\ IF format.next = 0 \/ format.next < format.numBlocks - 1
     THEN writeBlock(format.diskFd, format.next,
                     IF format.next = 0 THEN SUPER(format.numBlocks) ELSE FREE)
     ELSE UNCHANGED diskState
  /\ format' = [format EXCEPT !.next = @ + 1]
  /\ UNCHANGED <<result, mountedDiskFD, formatted, replaced>>

\* The super block, then the free blocks.
FormatBlock ==
  LET type == IF format.next = 0 THEN "SUPER_ID" ELSE "FREE_ID"
  IN /\ ~idle /\ format.next < format.numBlocks
     /\ safeWriteBlock(format.diskFd, format.next, type) = 0
     /\ writeBlock(format.diskFd, format.next,
                   IF format.next = 0 THEN SUPER(format.numBlocks) ELSE FREE)
     /\ format' = [format EXCEPT !.next = @ + 1]
     /\ UNCHANGED <<result, mountedDiskFD, formatted, replaced>>

\* A write fails: the disk is closed if it was that of the super block.
FormatFails ==
  /\ ~idle /\ format.next < format.numBlocks
  /\ IF format.next = 0
     THEN closeDisk(format.diskFd) /\ Return(EIO)
     ELSE Return(ECORRUPT) /\ UNCHANGED diskState
  /\ UNCHANGED <<mountedDiskFD, formatted, replaced>>

\* A mutant of FormatDone: the disk is not closed.
FormatDone_leavesOpen ==
  /\ ~idle /\ format.next = format.numBlocks
  /\ Return(0)
  /\ formatted' = formatted \cup {hostFDs[format.diskFd]}
  /\ UNCHANGED <<diskState, mountedDiskFD, replaced>>

FormatDone ==
  /\ ~idle /\ format.next = format.numBlocks
  /\ closeDisk(format.diskFd)
  /\ Return(0)
  /\ formatted' = formatted \cup {hostFDs[format.diskFd]}
  /\ UNCHANGED <<mountedDiskFD, replaced>>

\* tfs_mount looks at the length of the file only.
Mount(name) ==
  /\ idle
  /\ \/ isMounted /\ Refuse(EALREADY)
     \/ ~isMounted /\ ~canOpen(name) /\ Refuse(ENOENT)
     \/ /\ ~isMounted /\ canOpen(name)
        /\ openExisting(name)
        /\ mountedDiskFD' = lowestFD
        /\ Return(0)
        /\ UNCHANGED <<formatted, replaced>>

Unmount ==
  /\ idle
  /\ \/ ~isMounted /\ Refuse(0)
     \/ /\ isMounted
        /\ closeDisk(mountedDiskFD)
        /\ mountedDiskFD' = -1
        /\ Return(0)
        /\ replaced' = replaced \ {mountedDiskFD}
        /\ UNCHANGED formatted

\* A file call on the mounted disk, as far as the disk sees it: the super block is
\* read first, and no other block is written but one that has been read.
UseBlock(bNum, block) ==
  /\ idle /\ isMounted
  /\ \/ \E code \in {EIO, ECORRUPT} :
          /\ Refuse(code)
          /\ \/ safeReadBlock(mountedDiskFD, 0, "SUPER_ID") = code
             \/ /\ safeReadBlock(mountedDiskFD, 0, "SUPER_ID") = 0
                /\ safeReadBlock(mountedDiskFD, bNum, "GENERIC_ID") = code
     \/ /\ safeReadBlock(mountedDiskFD, 0, "SUPER_ID") = 0
        /\ safeReadBlock(mountedDiskFD, bNum, "GENERIC_ID") = 0
        /\ safeWriteBlock(mountedDiskFD, bNum, block.blockID) = 0
        /\ writeBlock(mountedDiskFD, bNum, block)
        /\ Return(0)
        /\ UNCHANGED <<mountedDiskFD, formatted, replaced>>

\* The process dies, and with it all it knows; the host closes its files.
Restart ==
  /\ hostFDs' = [fd \in {} |-> JUNK]
  /\ openDisks' = array_list_new
  /\ mountedDiskFD' = -1
  /\ Return(0)
  /\ replaced' = {}
  /\ UNCHANGED <<hostFiles, formatted>>

-----------------------------------------------------------------------------

Init ==
  /\ hostFiles = ForeignFiles
  /\ hostFDs = [fd \in {} |-> JUNK]
  /\ openDisks = array_list_new
  /\ mountedDiskFD = -1
  /\ format = NoFormat
  /\ result = 0
  /\ formatted = {}
  /\ replaced = {}

Next ==
  \/ \E name \in DiskFile : \/ Mount(name)
                            \/ \E nBytes \in DiskBytes : Mkfs(name, nBytes)
  \/ FormatBlock
  \/ FormatFails
  \/ FormatDone
  \/ Unmount
  \/ \E bNum \in -1..MaxBlockCount, block \in {FREE, DATA} : UseBlock(bNum, block)
  \/ Restart

Spec == Init /\ [][Next]_diskVars

-----------------------------------------------------------------------------

disks == Range(openDisks.arr)

\* libDisk.c finds a disk by the first entry with its descriptor, and the host
\* hands out the lowest descriptor that is free.  So whatever was opened, closed,
\* leaked or cut off before, the list has one entry for each file the process has
\* open, the mounted one among them, with the length of that file unless it was
\* formatted behind the list's back, and the list never outgrows its array.
ListMatchesHost ==
  /\ Len(openDisks.arr) <= openDisks.capacity
  /\ \A i, j \in DOMAIN openDisks.arr :
       openDisks.arr[i].diskFd = openDisks.arr[j].diskFd => i = j
  /\ {d.diskFd : d \in disks} = DOMAIN hostFDs
  /\ isMounted => mountedDiskFD \in DOMAIN hostFDs
  /\ \A d \in disks : d.diskFd \notin replaced => d.diskSize = Len(blocksOf(d.diskFd))

\* No block of an earlier file system survives tfs_mkfs, be it refused, failed or
\* cut off: what is written is the super block and the blocks right behind it, and
\* all the rest is zeros.  A file without a super block is no disk at all.  While
\* tfs_mkfs runs, it has written what is there.
NothingOldSurvives ==
  \A name \in DOMAIN hostFiles :
    LET blocks == hostFiles[name].blocks
    IN \A i, j \in DOMAIN blocks :
         /\ (i < j /\ blocks[j] # JUNK) => blocks[i] # JUNK
         /\ blocks[i] # JUNK => blocks[1] = SUPER(Len(blocks))
         /\ (~idle /\ name = hostFDs[format.diskFd]) => (blocks[i] # JUNK <=> i <= format.next)

\* A disk that tfs_mkfs has made stays what the file calls expect of it: while it is
\* mounted, and not formatted again under the mount, checkbNum and readBlock agree
\* on which blocks it has, and each of them can be read.
MountedDiskReady ==
  (/\ isMounted
   /\ mountedDiskFD \notin replaced
   /\ hostFDs[mountedDiskFD] \in formatted) =>
    LET n == Len(blocksOf(mountedDiskFD))
    IN /\ n <= MaxBlockCount
       /\ safeReadBlock(mountedDiskFD, 0, "SUPER_ID") = 0
       /\ \A b \in -1..(MaxBlockCount + 1) :
            safeReadBlock(mountedDiskFD, b, "GENERIC_ID") = (IF b \in 1..(n - 1) THEN 0 ELSE EIO)

\* The disks that no later call will close.
leaked == DOMAIN hostFDs \ {mountedDiskFD, format.diskFd}

\* Only tfs_mkfs leaves a disk open for good, and only when it refuses the size or
\* fails to write a free block; every other call closes what it opened, whatever
\* it returns.
OnlyMkfsLeaks ==
  [][leaked' \ leaked # {} => idle' /\ result' \in {ENOSPC, ECORRUPT}]_diskVars

=============================================================================
