------------------------------ MODULE LibDisk ------------------------------
(***************************************************************************)
(* The disk emulator libDisk.c and its list of open disks, diskList.c, on  *)
(* the files and file descriptors of the host.                             *)
(*                                                                         *)
(* A block is what its header says it is.  DATA stands for the inodes and  *)
(* the extents, JUNK for blocks that TinyFS has not written: the zeros of  *)
(* a new disk file, and whatever other files hold.                         *)
(***************************************************************************)
EXTENDS Integers, Sequences, FiniteSetsExt, Functions

CONSTANTS
  BLOCKSIZE,     \* the bytes of a block
  DiskFile,      \* the names of disk files
  MaxHostFDs,    \* how many files the host lets the process have open
  InitialLength  \* the capacity of a new list of disks, 10 in diskList.c

ASSUME LibDiskAssumption ==
  /\ BLOCKSIZE \in Nat \ {0}
  /\ MaxHostFDs \in Nat
  /\ InitialLength \in Nat \ {0}

VARIABLES
  hostFiles,  \* the host's files by name: their blocks, and bytes behind the last one
  hostFDs,    \* the host's descriptors of the process: the file behind each
  openDisks   \* openFDs of libDisk.c: [capacity, arr], arr a sequence of Disks

diskState == <<hostFiles, hostFDs, openDisks>>

JUNK  == [blockID |-> "JUNK", numBlocks |-> 0]
FREE  == [blockID |-> "FREE_ID", numBlocks |-> 0]
DATA  == [blockID |-> "DATA", numBlocks |-> 0]
SUPER(n) == [blockID |-> "SUPER_ID", numBlocks |-> n]

-----------------------------------------------------------------------------
(* diskList.c                                                              *)

array_list_new == [capacity |-> InitialLength, arr |-> <<>>]

arrayList_add(list, fd, size) ==
  [capacity |-> IF Len(list.arr) = list.capacity THEN 2 * list.capacity ELSE list.capacity,
   arr      |-> Append(list.arr, [diskFd |-> fd, diskSize |-> size])]

positions(list, fd) == {i \in DOMAIN list.arr : list.arr[i].diskFd = fd}

\* The first Disk with the descriptor, if there is one.
arrayList_find_by_fd(list, fd) == list.arr[Min(positions(list, fd))]

\* The disks behind the first one with the descriptor move up.
removeAt(arr, i) == SubSeq(arr, 1, i - 1) \o SubSeq(arr, i + 1, Len(arr))

\* A mutant of arrayList_remove_by_fd: the list gets shorter, but nothing moves up.
arrayList_remove_by_fd_noShift(list, fd) ==
  [list EXCEPT !.arr = SubSeq(@, 1, Len(@) - 1)]

arrayList_remove_by_fd(list, fd) ==
  [list EXCEPT !.arr = removeAt(@, Min(positions(list, fd)))]

-----------------------------------------------------------------------------
(* The host                                                                *)

FirstFD     == 3                  \* behind stdin, stdout and stderr
unusedFDs   == (FirstFD .. FirstFD + MaxHostFDs - 1) \ DOMAIN hostFDs
openable    == unusedFDs # {}
lowestFD    == Min(unusedFDs)     \* what open returns

hostOpens(name) ==
  hostFDs' = [fd \in DOMAIN hostFDs \cup {lowestFD} |->
                IF fd = lowestFD THEN name ELSE hostFDs[fd]]

fileWith(blocks) == [blocks |-> blocks, ragged |-> FALSE]

\* O_TRUNC and ftruncate: a file of n blocks of zeros in place of what was there.
hostTruncates(name, n) ==
  hostFiles' = [f \in DOMAIN hostFiles \cup {name} |->
                  IF f = name THEN fileWith([i \in 1..n |-> JUNK]) ELSE hostFiles[f]]

blocksOf(fd) == hostFiles[hostFDs[fd]].blocks

-----------------------------------------------------------------------------
(* libDisk.c.  openDisk(name, 0) and openDisk(name, nBytes) are the two    *)
(* halves of openDisk; a test for success comes before each effect.        *)

canOpen(name) ==
  openable /\ name \in DOMAIN hostFiles /\ ~hostFiles[name].ragged

openExisting(name) ==
  /\ hostOpens(name)
  /\ openDisks' = arrayList_add(openDisks, lowestFD, Len(hostFiles[name].blocks))
  /\ UNCHANGED hostFiles

\* A mutant of createDisk: the file keeps its blocks, as it would without O_TRUNC.
createDisk_keeps(name, nBytes) ==
  LET old == IF name \in DOMAIN hostFiles THEN hostFiles[name].blocks ELSE <<>>
  IN /\ hostOpens(name)
     /\ hostFiles' = [f \in DOMAIN hostFiles \cup {name} |->
                        IF f = name
                        THEN fileWith([i \in 1..(nBytes \div BLOCKSIZE) |->
                                         IF i <= Len(old) THEN old[i] ELSE JUNK])
                        ELSE hostFiles[f]]
     /\ openDisks' = arrayList_add(openDisks, lowestFD, nBytes \div BLOCKSIZE)

\* nBytes is rounded down to whole blocks.
createDisk(name, nBytes) ==
  /\ hostOpens(name)
  /\ hostTruncates(name, nBytes \div BLOCKSIZE)
  /\ openDisks' = arrayList_add(openDisks, lowestFD, nBytes \div BLOCKSIZE)

\* The file is created or emptied, but cannot be given its size.
createDiskFails(name) ==
  /\ hostTruncates(name, 0)
  /\ UNCHANGED <<hostFDs, openDisks>>

isOpenDisk(fd) == positions(openDisks, fd) # {}

closeDisk(fd) ==
  /\ openDisks' = arrayList_remove_by_fd(openDisks, fd)
  /\ hostFDs' = [f \in DOMAIN hostFDs \ {fd} |-> hostFDs[f]]
  /\ UNCHANGED hostFiles

\* What readBlock returns, which is what writeBlock returns for a block that can be
\* read: the block must be on the disk the list remembers, and in the file.
readBlock(fd, bNum) ==
  IF /\ isOpenDisk(fd)
     /\ bNum \in 0..(arrayList_find_by_fd(openDisks, fd).diskSize - 1)
     /\ bNum < Len(blocksOf(fd))
  THEN 0
  ELSE -1

blockAt(fd, bNum) == blocksOf(fd)[bNum + 1]

writeBlock(fd, bNum, block) ==
  /\ hostFiles' = [hostFiles EXCEPT ![hostFDs[fd]].blocks[bNum + 1] = block]
  /\ UNCHANGED <<hostFDs, openDisks>>

=============================================================================
