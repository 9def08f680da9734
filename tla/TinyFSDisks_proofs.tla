------------------------- MODULE TinyFSDisks_proofs -------------------------
(***************************************************************************)
(* The list of open disks, for every number of disk files, sizes and host  *)
(* descriptors, and any sequence of formats, mounts, failures and deaths   *)
(* of the process.                                                         *)
(*                                                                         *)
(* ListMatchesHost is not inductive: that a closed disk is in the list is  *)
(* known only because the mounted disk and the disk being formatted are    *)
(* open and are not the same.  CursorsOK says so; it is also why only      *)
(* tfs_mkfs leaks a disk.                                                  *)
(***************************************************************************)
EXTENDS TinyFSDisks, MinMax_proofs, SequenceTheorems

Block    == {JUNK, FREE, DATA} \cup {SUPER(n) : n \in Nat}
HostFile == [blocks : Seq(Block), ragged : BOOLEAN]
Disk     == [diskFd : Nat, diskSize : Nat]

TypesOK ==
  /\ \A name \in DOMAIN hostFiles : hostFiles[name] \in HostFile
  /\ \A fd \in DOMAIN hostFDs : /\ fd \in Nat /\ fd >= FirstFD
                                /\ hostFDs[fd] \in DOMAIN hostFiles
  /\ openDisks \in [capacity : Nat \ {0}, arr : Seq(Disk)]
  /\ format \in [diskFd : Int, numBlocks : Nat, next : Nat]

\* The list and the host agree on what is open.
ListOK ==
  /\ Len(openDisks.arr) <= openDisks.capacity
  /\ \A i, j \in 1..Len(openDisks.arr) :
       openDisks.arr[i].diskFd = openDisks.arr[j].diskFd => i = j
  /\ \A i \in 1..Len(openDisks.arr) : openDisks.arr[i].diskFd \in DOMAIN hostFDs
  /\ \A fd \in DOMAIN hostFDs : \E i \in 1..Len(openDisks.arr) : openDisks.arr[i].diskFd = fd

SizesOK ==
  \A i \in 1..Len(openDisks.arr) :
    LET d == openDisks.arr[i]
    IN d.diskFd \notin replaced => d.diskSize = Len(hostFiles[hostFDs[d.diskFd]].blocks)

\* The mounted disk and the disk being formatted are open, and are two.
CursorsOK ==
  /\ mountedDiskFD = -1 \/ mountedDiskFD \in DOMAIN hostFDs
  /\ ~idle => format.diskFd \in DOMAIN hostFDs /\ format.diskFd # mountedDiskFD

DisksInv == TypesOK /\ ListOK /\ SizesOK /\ CursorsOK

-----------------------------------------------------------------------------
(* The list                                                                *)

LEMMA Blocks ==
  /\ JUNK \in Block /\ FREE \in Block /\ DATA \in Block
  /\ \A n \in Nat : SUPER(n) \in Block
BY DEF Block

\* The host hands out a descriptor that is not in use.
LEMMA LowestFD ==
  ASSUME openable
  PROVE  lowestFD \in Nat /\ lowestFD >= FirstFD /\ lowestFD \notin DOMAIN hostFDs
<1>1. unusedFDs \in SUBSET Nat
  BY LibDiskAssumption DEF unusedFDs, FirstFD
<1>2. lowestFD \in unusedFDs
  BY <1>1, MinOfNats DEF openable, lowestFD
<1> QED
  BY <1>1, <1>2, LibDiskAssumption DEF unusedFDs, FirstFD

\* Taking a disk out moves up the disks behind it, and no other.
LEMMA RemoveAt ==
  ASSUME NEW arr \in Seq(Disk), NEW i \in 1..Len(arr)
  PROVE  LET rest == removeAt(arr, i)
         IN /\ rest \in Seq(Disk)
            /\ Len(rest) = Len(arr) - 1
            /\ \A j \in 1..(Len(arr) - 1) : rest[j] = IF j < i THEN arr[j] ELSE arr[j + 1]
<1> DEFINE front == SubSeq(arr, 1, i - 1)
           back  == SubSeq(arr, i + 1, Len(arr))
<1>1. Len(arr) \in Nat /\ \A j \in 1..Len(arr) : arr[j] \in Disk
  BY LenProperties, ElementOfSeq
<1>2. /\ front \in Seq(Disk) /\ Len(front) = i - 1
      /\ \A j \in 1..(i - 1) : front[j] = arr[j]
  <2>1. \A j \in 1..(i - 1) : arr[j] \in Disk
    BY <1>1
  <2>2. 1 \in Int /\ i - 1 \in Int
    OBVIOUS
  <2>3. /\ front \in Seq(Disk)
        /\ Len(front) = IF 1 <= i - 1 THEN (i - 1) - 1 + 1 ELSE 0
        /\ \A j \in 1..((i - 1) - 1 + 1) : front[j] = arr[1 + j - 1]
    BY <2>1, <2>2, SubSeqProperties
  <2> HIDE DEF front
  <2> QED
    BY <2>3
<1>3. /\ back \in Seq(Disk) /\ Len(back) = Len(arr) - i
      /\ \A j \in 1..(Len(arr) - i) : back[j] = arr[i + j]
  <2>1. \A j \in (i + 1)..Len(arr) : arr[j] \in Disk
    BY <1>1
  <2>2. i + 1 \in Int /\ Len(arr) \in Int
    BY <1>1
  <2>3. /\ back \in Seq(Disk)
        /\ Len(back) = IF i + 1 <= Len(arr) THEN Len(arr) - (i + 1) + 1 ELSE 0
        /\ \A j \in 1..(Len(arr) - (i + 1) + 1) : back[j] = arr[(i + 1) + j - 1]
    BY <2>1, <2>2, SubSeqProperties
  <2> HIDE DEF back
  <2> QED
    BY <1>1, <2>3
<1>4. /\ removeAt(arr, i) = front \o back
      /\ front \o back \in Seq(Disk)
      /\ Len(front \o back) = Len(front) + Len(back)
      /\ \A j \in 1..(Len(front) + Len(back)) :
           (front \o back)[j] = IF j <= Len(front) THEN front[j] ELSE back[j - Len(front)]
  BY <1>2, <1>3, ConcatProperties DEF removeAt
<1> HIDE DEF front, back
<1>5. ASSUME NEW j \in 1..(Len(arr) - 1)
      PROVE  (front \o back)[j] = IF j < i THEN arr[j] ELSE arr[j + 1]
  <2>1. CASE j < i
    BY <1>1, <1>2, <1>3, <1>4, <2>1
  <2>2. CASE ~(j < i)
    <3>1. j - (i - 1) \in 1..(Len(arr) - i)
      BY <1>1, <2>2
    <3>2. (front \o back)[j] = back[j - (i - 1)]
      BY <1>1, <1>2, <1>3, <1>4, <2>2
    <3>3. back[j - (i - 1)] = arr[i + (j - (i - 1))]
      BY <1>3, <3>1
    <3> QED
      BY <2>2, <3>2, <3>3
  <2> QED
    BY <2>1, <2>2
<1> QED
  BY <1>1, <1>2, <1>3, <1>4, <1>5

-----------------------------------------------------------------------------
(* What opening, closing and writing do to the list                        *)

\* A file that is opened, behind which nothing but that file has changed, comes to
\* the end of the list with its length.
LEMMA Opened ==
  ASSUME DisksInv, openable,
         NEW name \in DOMAIN hostFiles', NEW size \in Nat,
         hostOpens(name), openDisks' = arrayList_add(openDisks, lowestFD, size),
         \A f \in DOMAIN hostFiles' : hostFiles'[f] \in HostFile,
         size = Len(hostFiles'[name].blocks),
         \A f \in DOMAIN hostFiles :
           /\ f \in DOMAIN hostFiles'
           /\ hostFiles'[f] = hostFiles[f] \/ openOn(f) \subseteq replaced',
         replaced \subseteq replaced',
         format' \in [diskFd : Int, numBlocks : Nat, next : Nat]
  PROVE  /\ TypesOK' /\ ListOK' /\ SizesOK'
         /\ DOMAIN hostFDs' = DOMAIN hostFDs \cup {lowestFD}
<1> DEFINE arr == openDisks.arr
           n   == Len(arr)
           new == [diskFd |-> lowestFD, diskSize |-> size]
<1>1. lowestFD \in Nat /\ lowestFD >= FirstFD /\ lowestFD \notin DOMAIN hostFDs
  BY LowestFD
<1>2. arr \in Seq(Disk) /\ openDisks.capacity \in Nat \ {0} /\ n \in Nat
  BY LenProperties DEF DisksInv, TypesOK
<1>3. new \in Disk /\ new.diskFd = lowestFD /\ new.diskSize = size
  BY <1>1 DEF Disk
<1>4. /\ openDisks'.arr \in Seq(Disk) /\ Len(openDisks'.arr) = n + 1
      /\ openDisks'.arr[n + 1] = new
      /\ \A i \in 1..n : openDisks'.arr[i] = arr[i]
  <2>1. openDisks'.arr = Append(arr, new)
    BY DEF arrayList_add
  <2>2. /\ Append(arr, new) \in Seq(Disk) /\ Len(Append(arr, new)) = n + 1
        /\ \A i \in 1..n : Append(arr, new)[i] = arr[i]
        /\ Append(arr, new)[n + 1] = new
    <3> HIDE DEF arr, new
    <3> QED
      BY <1>2, <1>3, AppendProperties
  <2> QED
    BY <2>1, <2>2, Zenon
<1>5. /\ openDisks'.capacity \in Nat \ {0}
      /\ n + 1 <= openDisks'.capacity
      /\ openDisks' = [capacity |-> openDisks'.capacity, arr |-> openDisks'.arr]
  <2>1. openDisks' = [capacity |-> IF n = openDisks.capacity
                                   THEN 2 * openDisks.capacity ELSE openDisks.capacity,
                      arr      |-> openDisks'.arr]
    BY DEF arrayList_add
  <2>2. n <= openDisks.capacity
    BY DEF DisksInv, ListOK
  <2> HIDE DEF n
  <2> QED
    BY <1>2, <2>1, <2>2
<1>6. /\ DOMAIN hostFDs' = DOMAIN hostFDs \cup {lowestFD}
      /\ hostFDs'[lowestFD] = name
      /\ \A fd \in DOMAIN hostFDs : hostFDs'[fd] = hostFDs[fd]
  BY <1>1 DEF hostOpens
<1> HIDE DEF arr, n, new
<1>7. TypesOK'
  <2>1. openDisks' \in [capacity : Nat \ {0}, arr : Seq(Disk)]
    BY <1>4, <1>5
  <2>2. \A fd \in DOMAIN hostFDs' : /\ fd \in Nat /\ fd >= FirstFD
                                    /\ hostFDs'[fd] \in DOMAIN hostFiles'
    BY <1>1, <1>6 DEF DisksInv, TypesOK, FirstFD
  <2> QED
    BY <2>1, <2>2 DEF TypesOK, FirstFD
<1>8. ListOK'
  <2>1. /\ \A i, j \in 1..n : arr[i].diskFd = arr[j].diskFd => i = j
        /\ \A i \in 1..n : arr[i].diskFd \in DOMAIN hostFDs
        /\ \A fd \in DOMAIN hostFDs : \E i \in 1..n : arr[i].diskFd = fd
    BY DEF DisksInv, ListOK, arr, n
  <2>2. \A i \in 1..(n + 1) : i \in 1..n \/ i = n + 1
    BY <1>2
  <2>3. \A i, j \in 1..(n + 1) :
          openDisks'.arr[i].diskFd = openDisks'.arr[j].diskFd => i = j
    <3>1. \A i \in 1..n : openDisks'.arr[i].diskFd # openDisks'.arr[n + 1].diskFd
      BY <1>1, <1>3, <1>4, <2>1
    <3>2. \A i, j \in 1..n : openDisks'.arr[i].diskFd = openDisks'.arr[j].diskFd => i = j
      BY <1>4, <2>1
    <3> QED
      BY <2>2, <3>1, <3>2
  <2>4. \A i \in 1..(n + 1) : openDisks'.arr[i].diskFd \in DOMAIN hostFDs'
    BY <1>3, <1>4, <1>6, <2>1, <2>2
  <2>5. \A fd \in DOMAIN hostFDs' : \E i \in 1..(n + 1) : openDisks'.arr[i].diskFd = fd
    <3> SUFFICES ASSUME NEW fd \in DOMAIN hostFDs'
                 PROVE  \E i \in 1..(n + 1) : openDisks'.arr[i].diskFd = fd
      OBVIOUS
    <3>1. CASE fd = lowestFD
      BY <1>2, <1>3, <1>4, <3>1
    <3>2. CASE fd \in DOMAIN hostFDs
      <4>1. PICK i \in 1..n : arr[i].diskFd = fd
        BY <2>1, <3>2
      <4> QED
        BY <1>2, <1>4, <4>1
    <3> QED
      BY <1>6, <3>1, <3>2
  <2> QED
    BY <1>4, <1>5, <2>3, <2>4, <2>5 DEF ListOK
<1>9. SizesOK'
  <2> SUFFICES ASSUME NEW i \in 1..Len(openDisks'.arr),
                      openDisks'.arr[i].diskFd \notin replaced'
               PROVE  openDisks'.arr[i].diskSize =
                        Len(hostFiles'[hostFDs'[openDisks'.arr[i].diskFd]].blocks)
    BY DEF SizesOK
  <2>1. CASE i = n + 1
    BY <1>3, <1>4, <1>6, <2>1
  <2>2. CASE i # n + 1
    <3>1. i \in 1..n /\ openDisks'.arr[i] = arr[i]
      BY <1>2, <1>4, <2>2
    <3> DEFINE fd == arr[i].diskFd
               f  == hostFDs[fd]
    <3>2. fd \in DOMAIN hostFDs /\ f \in DOMAIN hostFiles
      BY <3>1 DEF DisksInv, ListOK, TypesOK, arr, n
    <3>3. arr[i].diskSize = Len(hostFiles[f].blocks)
      BY <3>1 DEF DisksInv, SizesOK, arr, n
    <3>4. fd \in openOn(f) /\ hostFDs'[fd] = f
      BY <1>6, <3>2 DEF openOn
    <3>5. hostFiles'[f] = hostFiles[f]
      BY <3>1, <3>2, <3>4
    <3> QED
      BY <3>1, <3>3, <3>4, <3>5
  <2> QED
    BY <2>1, <2>2
<1> QED
  BY <1>6, <1>7, <1>8, <1>9

\* Closing a disk that is open takes out that disk, and no other.
LEMMA Closed ==
  ASSUME DisksInv, NEW fd \in DOMAIN hostFDs, closeDisk(fd),
         replaced \ {fd} \subseteq replaced',
         format' \in [diskFd : Int, numBlocks : Nat, next : Nat]
  PROVE  /\ TypesOK' /\ ListOK' /\ SizesOK'
         /\ DOMAIN hostFDs' = DOMAIN hostFDs \ {fd}
<1> DEFINE arr  == openDisks.arr
           n    == Len(arr)
           k    == Min(positions(openDisks, fd))
           rest == removeAt(arr, k)
<1>1. arr \in Seq(Disk) /\ openDisks.capacity \in Nat \ {0} /\ n \in Nat
  BY LenProperties DEF DisksInv, TypesOK
<1>2. /\ n <= openDisks.capacity
      /\ \A i, j \in 1..n : arr[i].diskFd = arr[j].diskFd => i = j
      /\ \A i \in 1..n : arr[i].diskFd \in DOMAIN hostFDs
      /\ \A g \in DOMAIN hostFDs : \E i \in 1..n : arr[i].diskFd = g
  BY DEF DisksInv, ListOK
<1>3. k \in 1..n /\ arr[k].diskFd = fd
  <2>1. DOMAIN arr = 1..n
    BY <1>1, LenProperties
  <2>2. positions(openDisks, fd) \in SUBSET Nat /\ positions(openDisks, fd) # {}
    <3>1. PICK i \in 1..n : arr[i].diskFd = fd
      BY <1>2
    <3> HIDE DEF k
    <3> QED
      BY <2>1, <3>1 DEF positions
  <2>3. k \in positions(openDisks, fd)
    BY <2>2, MinOfNats
  <2> HIDE DEF k
  <2> QED
    BY <2>1, <2>3 DEF positions
<1>4. /\ openDisks' = [openDisks EXCEPT !.arr = rest]
      /\ openDisks'.arr = rest /\ openDisks'.capacity = openDisks.capacity
      /\ UNCHANGED hostFiles
  BY DEF closeDisk, arrayList_remove_by_fd, DisksInv, TypesOK
<1> HIDE DEF k
<1>5. /\ rest \in Seq(Disk) /\ Len(rest) = n - 1
      /\ \A j \in 1..(n - 1) : rest[j] = IF j < k THEN arr[j] ELSE arr[j + 1]
  BY <1>1, <1>3, RemoveAt
<1>6. /\ DOMAIN hostFDs' = DOMAIN hostFDs \ {fd}
      /\ \A g \in DOMAIN hostFDs' : hostFDs'[g] = hostFDs[g]
  BY DEF closeDisk
<1> HIDE DEF rest
<1>7. TypesOK'
  <2>1. openDisks' \in [capacity : Nat \ {0}, arr : Seq(Disk)]
    BY <1>1, <1>4, <1>5 DEF DisksInv, TypesOK
  <2> QED
    BY <1>4, <1>6, <2>1 DEF DisksInv, TypesOK, FirstFD
<1> HIDE DEF n, arr
\* Each disk of the rest stood in the list, in front of k or behind it.
<1>8. \A j \in 1..(n - 1) :
        \E i \in 1..n : i # k /\ i = (IF j < k THEN j ELSE j + 1) /\ rest[j] = arr[i]
  BY <1>1, <1>3, <1>5
<1>9. ListOK'
  <2>1. ASSUME NEW j1 \in 1..(n - 1), NEW j2 \in 1..(n - 1), rest[j1].diskFd = rest[j2].diskFd
        PROVE  j1 = j2
    <3>1. PICK i1 \in 1..n : i1 = (IF j1 < k THEN j1 ELSE j1 + 1) /\ rest[j1] = arr[i1]
      BY <1>8
    <3>2. PICK i2 \in 1..n : i2 = (IF j2 < k THEN j2 ELSE j2 + 1) /\ rest[j2] = arr[i2]
      BY <1>8
    <3>3. i1 = i2
      BY <1>2, <2>1, <3>1, <3>2
    <3> QED
      BY <1>1, <1>3, <3>1, <3>2, <3>3
  <2>2. ASSUME NEW j \in 1..(n - 1)
        PROVE  rest[j].diskFd \in DOMAIN hostFDs'
    <3>1. PICK i \in 1..n : i # k /\ rest[j] = arr[i]
      BY <1>8
    <3>2. arr[i].diskFd # fd
      BY <1>2, <1>3, <3>1
    <3> QED
      BY <1>2, <1>6, <3>1, <3>2
  <2>3. ASSUME NEW g \in DOMAIN hostFDs'
        PROVE  \E j \in 1..(n - 1) : rest[j].diskFd = g
    <3>1. PICK i \in 1..n : arr[i].diskFd = g
      BY <1>2, <1>6
    <3>2. i # k
      BY <1>3, <1>6, <3>1
    <3>3. CASE i < k
      <4>1. i \in 1..(n - 1) /\ rest[i] = arr[i]
        BY <1>1, <1>3, <1>5, <3>3
      <4> QED
        BY <3>1, <4>1
    <3>4. CASE i > k
      <4>1. i - 1 \in 1..(n - 1) /\ rest[i - 1] = arr[(i - 1) + 1] /\ (i - 1) + 1 = i
        BY <1>1, <1>3, <1>5, <3>4
      <4> QED
        BY <3>1, <4>1
    <3> QED
      BY <1>1, <1>3, <3>2, <3>3, <3>4
  <2>4. n - 1 <= openDisks.capacity
    BY <1>1, <1>2
  <2> QED
    BY <1>4, <1>5, <2>1, <2>2, <2>3, <2>4 DEF ListOK
<1>10. SizesOK'
  <2> SUFFICES ASSUME NEW j \in 1..(n - 1), rest[j].diskFd \notin replaced'
               PROVE  rest[j].diskSize = Len(hostFiles[hostFDs'[rest[j].diskFd]].blocks)
    BY <1>4, <1>5 DEF SizesOK
  <2>1. PICK i \in 1..n : i # k /\ rest[j] = arr[i]
    BY <1>8
  <2>2. arr[i].diskFd # fd
    BY <1>2, <1>3, <2>1
  <2>3. arr[i].diskFd \notin replaced /\ hostFDs'[arr[i].diskFd] = hostFDs[arr[i].diskFd]
    BY <1>2, <1>6, <2>1, <2>2
  <2> QED
    BY <2>1, <2>3 DEF DisksInv, SizesOK, arr, n
<1> QED
  BY <1>6, <1>7, <1>9, <1>10

\* A file that is created or emptied has the length it is given.
LEMMA Truncated ==
  ASSUME DisksInv, NEW name, NEW n \in Nat, hostTruncates(name, n)
  PROVE  /\ name \in DOMAIN hostFiles' /\ DOMAIN hostFiles \subseteq DOMAIN hostFiles'
         /\ Len(hostFiles'[name].blocks) = n
         /\ \A i \in 1..n : hostFiles'[name].blocks[i] = JUNK
         /\ \A f \in DOMAIN hostFiles' : hostFiles'[f] \in HostFile
         /\ \A f \in DOMAIN hostFiles : f # name => hostFiles'[f] = hostFiles[f]
<1> DEFINE zeros == [i \in 1..n |-> JUNK]
<1>1. zeros \in Seq(Block) /\ Len(zeros) = n /\ \A i \in 1..n : zeros[i] = JUNK
  BY Blocks
<1>2. hostFiles'[name] = fileWith(zeros) /\ name \in DOMAIN hostFiles'
  BY DEF hostTruncates
<1>3. fileWith(zeros) \in HostFile /\ fileWith(zeros).blocks = zeros
  <2> HIDE DEF zeros
  <2> QED
    BY <1>1 DEF fileWith, HostFile
<1>4. /\ DOMAIN hostFiles' = DOMAIN hostFiles \cup {name}
      /\ \A f \in DOMAIN hostFiles : f # name => hostFiles'[f] = hostFiles[f]
  BY DEF hostTruncates
<1> HIDE DEF zeros
<1> QED
  BY <1>1, <1>2, <1>3, <1>4 DEF DisksInv, TypesOK

\* A block that is written is in the file, and nothing else of it changes.
LEMMA BlockWritten ==
  ASSUME DisksInv, NEW fd \in DOMAIN hostFDs, NEW bNum \in Int, bNum >= 0,
         readBlock(fd, bNum) = 0, NEW block \in Block,
         writeBlock(fd, bNum, block)
  PROVE  LET name   == hostFDs[fd]
             blocks == hostFiles[name].blocks
             new    == hostFiles'[name].blocks
         IN /\ bNum + 1 \in 1..Len(blocks) /\ Len(blocks) \in Nat
            /\ DOMAIN hostFiles' = DOMAIN hostFiles /\ name \in DOMAIN hostFiles
            /\ hostFiles'[name] \in HostFile
            /\ Len(new) = Len(blocks)
            /\ \A i \in 1..Len(blocks) : new[i] = IF i = bNum + 1 THEN block ELSE blocks[i]
            /\ \A f \in DOMAIN hostFiles : f # name => hostFiles'[f] = hostFiles[f]
<1> DEFINE name   == hostFDs[fd]
           blocks == hostFiles[name].blocks
           new    == [blocks EXCEPT ![bNum + 1] = block]
<1>1. name \in DOMAIN hostFiles /\ hostFiles[name] \in HostFile /\ blocks \in Seq(Block)
  BY DEF DisksInv, TypesOK, HostFile
<1>2. bNum + 1 \in 1..Len(blocks) /\ Len(blocks) \in Nat
  <2>1. bNum < Len(blocks) /\ Len(blocks) \in Nat
    BY <1>1, LenProperties DEF readBlock, blocksOf
  <2> QED
    BY <2>1
<1>3. /\ new \in Seq(Block) /\ Len(new) = Len(blocks)
      /\ \A i \in 1..Len(blocks) : new[i] = IF i = bNum + 1 THEN block ELSE blocks[i]
  <2> HIDE DEF blocks
  <2> QED
    BY <1>1, <1>2, ExceptSeq
<1>4. /\ DOMAIN hostFiles' = DOMAIN hostFiles
      /\ hostFiles'[name] = [hostFiles[name] EXCEPT !.blocks = new]
      /\ \A f \in DOMAIN hostFiles : f # name => hostFiles'[f] = hostFiles[f]
  BY <1>1 DEF writeBlock
<1> HIDE DEF new
<1>5. hostFiles'[name] \in HostFile /\ hostFiles'[name].blocks = new
  BY <1>1, <1>3, <1>4 DEF HostFile
<1> HIDE DEF name, blocks
<1> QED
  BY <1>1, <1>2, <1>3, <1>4, <1>5 DEF name, blocks

LEMMA Written ==
  ASSUME DisksInv, NEW fd \in DOMAIN hostFDs, NEW bNum \in Int, bNum >= 0,
         readBlock(fd, bNum) = 0, NEW block \in Block,
         writeBlock(fd, bNum, block), UNCHANGED replaced,
         format' \in [diskFd : Int, numBlocks : Nat, next : Nat]
  PROVE  TypesOK' /\ ListOK' /\ SizesOK' /\ UNCHANGED hostFDs
<1>1. UNCHANGED <<hostFDs, openDisks>>
  BY DEF writeBlock
<1>2. /\ DOMAIN hostFiles' = DOMAIN hostFiles
      /\ \A f \in DOMAIN hostFiles : /\ hostFiles'[f] \in HostFile
                                     /\ Len(hostFiles'[f].blocks) = Len(hostFiles[f].blocks)
  BY BlockWritten DEF DisksInv, TypesOK
<1>3. TypesOK'
  BY <1>1, <1>2 DEF DisksInv, TypesOK, FirstFD
<1>4. ListOK'
  BY <1>1 DEF DisksInv, ListOK
<1>5. SizesOK'
  <2>1. \A i \in 1..Len(openDisks.arr) :
          hostFDs[openDisks.arr[i].diskFd] \in DOMAIN hostFiles
    BY DEF DisksInv, ListOK, TypesOK
  <2> QED
    BY <1>1, <1>2, <2>1 DEF DisksInv, SizesOK
<1> QED
  BY <1>1, <1>3, <1>4, <1>5

-----------------------------------------------------------------------------
(* The calls                                                               *)

LEMMA NoFormatType ==
  /\ NoFormat \in [diskFd : Int, numBlocks : Nat, next : Nat]
  /\ \A code : Return(code) => idle' /\ format' = NoFormat
BY DEF NoFormat, Return, idle

LEMMA RefuseStep == ASSUME DisksInv, NEW code, Refuse(code) PROVE DisksInv'
BY NoFormatType DEF Refuse, diskState, DisksInv, TypesOK, ListOK, SizesOK, CursorsOK

LEMMA MkfsStep ==
  ASSUME DisksInv, NEW name \in DiskFile, NEW nBytes \in DiskBytes, Mkfs(name, nBytes)
  PROVE  DisksInv'
<1> DEFINE numBlocks == nBytes \div BLOCKSIZE
<1>1. CASE Refuse(ENOSPC) \/ Refuse(EIO)
  BY <1>1, RefuseStep
<1>2. CASE /\ nBytes >= BLOCKSIZE
           /\ createDiskFails(name) /\ Return(EIO)
           /\ replaced' = replaced \cup openOn(name)
           /\ UNCHANGED mountedDiskFD
  <2>1. hostTruncates(name, 0) /\ UNCHANGED <<hostFDs, openDisks>>
    BY <1>2 DEF createDiskFails
  <2>2. /\ DOMAIN hostFiles \subseteq DOMAIN hostFiles'
        /\ \A f \in DOMAIN hostFiles' : hostFiles'[f] \in HostFile
        /\ \A f \in DOMAIN hostFiles : f # name => hostFiles'[f] = hostFiles[f]
    BY <2>1, Truncated
  <2>3. TypesOK' /\ ListOK' /\ CursorsOK'
    BY <1>2, <2>1, <2>2, NoFormatType DEF DisksInv, TypesOK, ListOK, CursorsOK, FirstFD
  <2>4. SizesOK'
    <3>1. \A i \in 1..Len(openDisks.arr) :
            /\ openDisks.arr[i].diskFd \in DOMAIN hostFDs
            /\ hostFDs[openDisks.arr[i].diskFd] \in DOMAIN hostFiles
      BY DEF DisksInv, ListOK, TypesOK
    <3> QED
      BY <1>2, <2>1, <2>2, <3>1 DEF DisksInv, SizesOK, openOn
  <2> QED
    BY <2>3, <2>4 DEF DisksInv
<1>3. CASE /\ nBytes >= BLOCKSIZE /\ openable
           /\ createDisk(name, nBytes)
           /\ IF numBlocks > MaxBlockCount
              THEN Return(ENOSPC)
              ELSE format' = [diskFd |-> lowestFD, numBlocks |-> numBlocks, next |-> 0]
           /\ replaced' = replaced \cup openOn(name)
           /\ UNCHANGED mountedDiskFD
  <2>1. numBlocks \in Nat
    BY <1>3, LibDiskAssumption, DisksAssumption
  <2>2. /\ hostOpens(name) /\ hostTruncates(name, numBlocks)
        /\ openDisks' = arrayList_add(openDisks, lowestFD, numBlocks)
    BY <1>3 DEF createDisk
  <2> HIDE DEF numBlocks
  <2>3. lowestFD \in Nat /\ lowestFD >= FirstFD /\ lowestFD \notin DOMAIN hostFDs
    BY <1>3, LowestFD
  <2>4. /\ format' \in [diskFd : Int, numBlocks : Nat, next : Nat]
        /\ ~idle' => format'.diskFd = lowestFD
    BY <1>3, <2>1, <2>3, NoFormatType DEF idle
  <2>5. /\ TypesOK' /\ ListOK' /\ SizesOK'
        /\ DOMAIN hostFDs' = DOMAIN hostFDs \cup {lowestFD}
    <3>1. /\ name \in DOMAIN hostFiles' /\ DOMAIN hostFiles \subseteq DOMAIN hostFiles'
          /\ numBlocks = Len(hostFiles'[name].blocks)
          /\ \A f \in DOMAIN hostFiles' : hostFiles'[f] \in HostFile
          /\ \A f \in DOMAIN hostFiles : f # name => hostFiles'[f] = hostFiles[f]
      BY <2>1, <2>2, Truncated
    <3>2. /\ replaced \subseteq replaced'
          /\ \A f \in DOMAIN hostFiles :
               /\ f \in DOMAIN hostFiles'
               /\ hostFiles'[f] = hostFiles[f] \/ openOn(f) \subseteq replaced'
      BY <1>3, <3>1
    <3> QED
      BY <1>3, <2>1, <2>2, <2>4, <3>1, <3>2, Opened
  <2>6. CursorsOK'
    BY <1>3, <2>3, <2>4, <2>5 DEF DisksInv, CursorsOK, FirstFD
  <2> QED
    BY <2>5, <2>6 DEF DisksInv
<1> QED
  BY <1>1, <1>2, <1>3 DEF Mkfs

LEMMA FormatBlockStep == ASSUME DisksInv, FormatBlock PROVE DisksInv'
<1> DEFINE block == IF format.next = 0 THEN SUPER(format.numBlocks) ELSE FREE
           fd    == format.diskFd
<1>1. /\ format \in [diskFd : Int, numBlocks : Nat, next : Nat]
      /\ fd \in DOMAIN hostFDs /\ fd # mountedDiskFD
  BY DEF FormatBlock, DisksInv, TypesOK, CursorsOK
<1>2. /\ writeBlock(fd, format.next, block)
      /\ format' = [format EXCEPT !.next = @ + 1]
      /\ UNCHANGED <<mountedDiskFD, replaced>>
  BY DEF FormatBlock
<1>3. block \in Block /\ format.next \in Int /\ format.next >= 0
  BY <1>1, Blocks
<1>4. readBlock(fd, format.next) = 0
  BY DEF FormatBlock, safeWriteBlock, EIO
<1>5. /\ format' \in [diskFd : Int, numBlocks : Nat, next : Nat]
      /\ format'.diskFd = fd
  BY <1>1, <1>2
<1>6. TypesOK' /\ ListOK' /\ SizesOK' /\ UNCHANGED hostFDs
  <2> HIDE DEF block, fd
  <2> QED
    BY <1>1, <1>2, <1>3, <1>4, <1>5, Written
<1>7. CursorsOK'
  BY <1>1, <1>2, <1>5, <1>6 DEF DisksInv, CursorsOK
<1> QED
  BY <1>6, <1>7 DEF DisksInv

LEMMA FormatEndsStep == ASSUME DisksInv, FormatFails \/ FormatDone PROVE DisksInv'
<1>1. /\ \E code : Return(code)
      /\ UNCHANGED <<mountedDiskFD, replaced>>
      /\ format.diskFd \in DOMAIN hostFDs /\ format.diskFd # mountedDiskFD
  BY DEF FormatFails, FormatDone, DisksInv, CursorsOK
<1>2. idle' /\ format' \in [diskFd : Int, numBlocks : Nat, next : Nat]
  BY <1>1, NoFormatType
<1>3. CASE closeDisk(format.diskFd)
  <2>1. /\ TypesOK' /\ ListOK' /\ SizesOK'
        /\ DOMAIN hostFDs' = DOMAIN hostFDs \ {format.diskFd}
    BY <1>1, <1>2, <1>3, Closed
  <2> QED
    BY <1>1, <1>2, <2>1 DEF DisksInv, CursorsOK
<1>4. CASE UNCHANGED diskState
  BY <1>1, <1>2, <1>4 DEF diskState, DisksInv, TypesOK, ListOK, SizesOK, CursorsOK
<1> QED
  BY <1>3, <1>4 DEF FormatFails, FormatDone

LEMMA MountStep == ASSUME DisksInv, NEW name \in DiskFile, Mount(name) PROVE DisksInv'
<1>1. CASE Refuse(EALREADY) \/ Refuse(ENOENT)
  BY <1>1, RefuseStep
<1>2. CASE /\ canOpen(name) /\ openExisting(name)
           /\ mountedDiskFD' = lowestFD
           /\ Return(0)
           /\ UNCHANGED replaced
  <2> DEFINE size == Len(hostFiles[name].blocks)
  <2>1. /\ openable /\ name \in DOMAIN hostFiles
        /\ hostOpens(name) /\ UNCHANGED hostFiles
        /\ openDisks' = arrayList_add(openDisks, lowestFD, size)
    BY <1>2 DEF canOpen, openExisting
  <2>2. idle' /\ format' \in [diskFd : Int, numBlocks : Nat, next : Nat]
    BY <1>2, NoFormatType
  <2>3. size \in Nat
    BY <2>1, LenProperties DEF DisksInv, TypesOK, HostFile
  <2>4. \A f \in DOMAIN hostFiles : hostFiles[f] \in HostFile
    BY DEF DisksInv, TypesOK
  <2>5. /\ TypesOK' /\ ListOK' /\ SizesOK'
        /\ DOMAIN hostFDs' = DOMAIN hostFDs \cup {lowestFD}
    BY <1>2, <2>1, <2>2, <2>3, <2>4, Opened
  <2>6. CursorsOK'
    BY <1>2, <2>2, <2>5 DEF CursorsOK
  <2> QED
    BY <2>5, <2>6 DEF DisksInv
<1> QED
  BY <1>1, <1>2 DEF Mount

LEMMA UnmountStep == ASSUME DisksInv, Unmount PROVE DisksInv'
<1>1. CASE Refuse(0)
  BY <1>1, RefuseStep
<1>2. CASE /\ isMounted /\ closeDisk(mountedDiskFD)
           /\ mountedDiskFD' = -1
           /\ Return(0)
           /\ replaced' = replaced \ {mountedDiskFD}
  <2>1. mountedDiskFD \in DOMAIN hostFDs
    BY <1>2 DEF isMounted, DisksInv, CursorsOK
  <2>2. idle' /\ format' \in [diskFd : Int, numBlocks : Nat, next : Nat]
    BY <1>2, NoFormatType
  <2>3. TypesOK' /\ ListOK' /\ SizesOK'
    BY <1>2, <2>1, <2>2, Closed
  <2>4. CursorsOK'
    BY <1>2, <2>2 DEF CursorsOK
  <2> QED
    BY <2>3, <2>4 DEF DisksInv
<1> QED
  BY <1>1, <1>2 DEF Unmount

LEMMA UseBlockStep ==
  ASSUME DisksInv, NEW bNum \in -1..MaxBlockCount, NEW block \in {FREE, DATA},
         UseBlock(bNum, block)
  PROVE  DisksInv'
<1>1. CASE \E code \in {EIO, ECORRUPT} : Refuse(code)
  BY <1>1, RefuseStep
<1>2. CASE /\ isMounted
           /\ safeReadBlock(mountedDiskFD, bNum, "GENERIC_ID") = 0
           /\ writeBlock(mountedDiskFD, bNum, block)
           /\ Return(0)
           /\ UNCHANGED <<mountedDiskFD, replaced>>
  <2>1. mountedDiskFD \in DOMAIN hostFDs
    BY <1>2 DEF isMounted, DisksInv, CursorsOK
  <2>2. idle' /\ format' \in [diskFd : Int, numBlocks : Nat, next : Nat]
    BY <1>2, NoFormatType
  <2>3. readBlock(mountedDiskFD, bNum) = 0 /\ bNum # 0 /\ ~(bNum < 0)
    BY <1>2 DEF safeReadBlock, checkbNum, EIO
  <2>4. bNum \in Int /\ bNum >= 0
    BY <2>3, DisksAssumption
  <2>5. TypesOK' /\ ListOK' /\ SizesOK' /\ UNCHANGED hostFDs
    BY <1>2, <2>1, <2>2, <2>3, <2>4, Blocks, Written
  <2>6. CursorsOK'
    BY <1>2, <2>1, <2>2, <2>5 DEF CursorsOK
  <2> QED
    BY <2>5, <2>6 DEF DisksInv
<1> QED
  BY <1>1, <1>2 DEF UseBlock

\* What a process has before its first call.
LEMMA NewProcess ==
  /\ array_list_new \in [capacity : Nat \ {0}, arr : Seq(Disk)]
  /\ Len(array_list_new.arr) = 0
  /\ array_list_new.capacity >= 0
  /\ DOMAIN [fd \in {} |-> JUNK] = {}
<1>1. <<>> \in Seq(Disk) /\ Len(<<>>) = 0
  BY EmptySeq
<1> QED
  BY <1>1, LibDiskAssumption DEF array_list_new

LEMMA RestartStep == ASSUME DisksInv, Restart PROVE DisksInv'
<1>1. idle' /\ format' \in [diskFd : Int, numBlocks : Nat, next : Nat]
  BY NoFormatType DEF Restart
<1>2. TypesOK' /\ ListOK' /\ SizesOK'
  BY <1>1, NewProcess DEF Restart, DisksInv, TypesOK, ListOK, SizesOK
<1>3. CursorsOK'
  BY <1>1 DEF Restart, CursorsOK
<1> QED
  BY <1>2, <1>3 DEF DisksInv

-----------------------------------------------------------------------------

LEMMA InitDisks == Init => DisksInv
<1> SUFFICES ASSUME Init PROVE DisksInv
  OBVIOUS
<1>1. \A name \in DOMAIN ForeignFiles : ForeignFiles[name] \in HostFile
  <2>1. Seq({JUNK}) \subseteq Seq(Block)
    BY Blocks, SeqMonotonic
  <2> QED
    BY <2>1, DisksAssumption DEF HostFile
<1>2. idle /\ format \in [diskFd : Int, numBlocks : Nat, next : Nat]
  BY NoFormatType DEF Init, idle
<1>3. TypesOK /\ ListOK /\ SizesOK
  BY <1>1, <1>2, NewProcess DEF Init, TypesOK, ListOK, SizesOK
<1>4. CursorsOK
  BY <1>2 DEF Init, CursorsOK
<1> QED
  BY <1>3, <1>4 DEF DisksInv

LEMMA NextDisks == DisksInv /\ [Next]_diskVars => DisksInv'
<1> SUFFICES ASSUME DisksInv, [Next]_diskVars PROVE DisksInv'
  OBVIOUS
<1>1. CASE UNCHANGED diskVars
  BY <1>1 DEF diskVars, DisksInv, TypesOK, ListOK, SizesOK, CursorsOK, idle
<1>2. CASE Next
  BY <1>2, MkfsStep, FormatBlockStep, FormatEndsStep, MountStep, UnmountStep, UseBlockStep,
     RestartStep DEF Next
<1> QED
  BY <1>1, <1>2

\* The list of open disks and the files the host has open for the process are the
\* same at every moment: no sequence of formats, mounts, refusals, failed writes and
\* restarts makes libDisk.c find the wrong disk, the wrong length or none.
THEOREM ListMatchesHostCorrect == Spec => []ListMatchesHost
<1>1. DisksInv => ListMatchesHost
  <2> SUFFICES ASSUME DisksInv PROVE ListMatchesHost
    OBVIOUS
  <2>1. openDisks.arr \in Seq(Disk) /\ DOMAIN openDisks.arr = 1..Len(openDisks.arr)
    BY LenProperties DEF DisksInv, TypesOK
  <2>2. disks = {openDisks.arr[i] : i \in 1..Len(openDisks.arr)}
    BY <2>1 DEF disks, Range
  <2>3. {d.diskFd : d \in disks} = DOMAIN hostFDs
    <3>1. /\ \A i \in 1..Len(openDisks.arr) : openDisks.arr[i].diskFd \in DOMAIN hostFDs
          /\ \A fd \in DOMAIN hostFDs :
               \E i \in 1..Len(openDisks.arr) : openDisks.arr[i].diskFd = fd
      BY DEF DisksInv, ListOK
    <3>2. \A d \in disks : d.diskFd \in DOMAIN hostFDs
      BY <2>2, <3>1
    <3>3. ASSUME NEW fd \in DOMAIN hostFDs
          PROVE  fd \in {d.diskFd : d \in disks}
      <4>1. PICK i \in 1..Len(openDisks.arr) : openDisks.arr[i].diskFd = fd
        BY <3>1
      <4>2. openDisks.arr[i] \in disks
        BY <2>2
      <4> QED
        BY <4>1, <4>2
    <3> QED
      BY <3>2, <3>3
  <2>4. isMounted => mountedDiskFD \in DOMAIN hostFDs
    BY DEF isMounted, DisksInv, CursorsOK
  <2>5. \A d \in disks : d.diskFd \notin replaced => d.diskSize = Len(blocksOf(d.diskFd))
    BY <2>2 DEF DisksInv, SizesOK, blocksOf
  <2>6. /\ Len(openDisks.arr) <= openDisks.capacity
        /\ \A i, j \in DOMAIN openDisks.arr :
             openDisks.arr[i].diskFd = openDisks.arr[j].diskFd => i = j
    BY <2>1 DEF DisksInv, ListOK
  <2> QED
    BY <2>3, <2>4, <2>5, <2>6 DEF ListMatchesHost
<1> QED
  BY <1>1, InitDisks, NextDisks, PTL DEF Spec

\* A disk is left open for good only by a tfs_mkfs that refuses the size or fails to
\* write a free block; mounting, unmounting, using a disk and a format that ends in
\* any other way close what they opened.
THEOREM OnlyMkfsLeaksCorrect == Spec => OnlyMkfsLeaks
<1>1. DisksInv /\ [Next]_diskVars =>
        [leaked' \ leaked # {} => idle' /\ result' \in {ENOSPC, ECORRUPT}]_diskVars
  <2> SUFFICES ASSUME DisksInv, Next, leaked' \ leaked # {}
               PROVE  idle' /\ result' \in {ENOSPC, ECORRUPT}
    OBVIOUS
  <2>1. PICK fd \in leaked' : fd \notin leaked
    OBVIOUS
  <2>2. /\ fd \in DOMAIN hostFDs' /\ fd # mountedDiskFD' /\ fd # format'.diskFd
        /\ fd \in DOMAIN hostFDs => fd = mountedDiskFD \/ fd = format.diskFd
    BY <2>1 DEF leaked
  <2>3. -1 \notin DOMAIN hostFDs /\ format \in [diskFd : Int, numBlocks : Nat, next : Nat]
    BY DEF DisksInv, TypesOK, FirstFD
  <2>4. ~(idle /\ UNCHANGED <<hostFDs, mountedDiskFD>>)
    BY <2>2, <2>3 DEF idle, NoFormat
  <2>5. ASSUME NEW code, Refuse(code), idle PROVE FALSE
    BY <2>4, <2>5 DEF Refuse, diskState
  <2>6. ASSUME NEW name \in DiskFile, NEW nBytes \in DiskBytes, Mkfs(name, nBytes)
        PROVE  idle' /\ result' = ENOSPC
    <3>1. idle /\ ~Refuse(ENOSPC) /\ ~Refuse(EIO) /\ UNCHANGED mountedDiskFD
      BY <2>5, <2>6 DEF Mkfs
    <3>2. ~createDiskFails(name)
      BY <2>4, <3>1 DEF createDiskFails
    <3>3. createDisk(name, nBytes)
      BY <2>6, <3>1, <3>2 DEF Mkfs
    <3>4. DOMAIN hostFDs' = DOMAIN hostFDs \cup {lowestFD}
      BY <3>3 DEF createDisk, hostOpens
    <3>5. fd = lowestFD
      BY <2>2, <2>3, <3>1, <3>4 DEF idle, NoFormat
    <3>6. Return(ENOSPC)
      BY <2>2, <2>6, <3>1, <3>2, <3>5 DEF Mkfs
    <3> QED
      BY <3>6, NoFormatType DEF Return
  <2>7. CASE FormatBlock
    BY <2>2, <2>3, <2>7 DEF FormatBlock, writeBlock
  <2>8. CASE FormatFails
    <3>1. ~closeDisk(format.diskFd)
      BY <2>2, <2>8 DEF FormatFails, closeDisk
    <3>2. Return(ECORRUPT)
      BY <2>8, <3>1 DEF FormatFails
    <3> QED
      BY <3>2, NoFormatType DEF Return
  <2>9. CASE FormatDone
    BY <2>2, <2>9 DEF FormatDone, closeDisk
  <2>10. ASSUME NEW name \in DiskFile, Mount(name) PROVE FALSE
    <3>1. idle /\ openExisting(name) /\ mountedDiskFD' = lowestFD /\ ~isMounted
      BY <2>5, <2>10 DEF Mount
    <3>2. DOMAIN hostFDs' = DOMAIN hostFDs \cup {lowestFD}
      BY <3>1 DEF openExisting, hostOpens
    <3>3. mountedDiskFD = -1
      BY <3>1 DEF isMounted, DisksInv, CursorsOK, TypesOK
    <3>4. format.diskFd = -1
      BY <3>1 DEF idle, NoFormat
    <3> QED
      BY <2>2, <2>3, <3>1, <3>2, <3>3, <3>4
  <2>11. CASE Unmount
    <3>1. idle /\ closeDisk(mountedDiskFD)
      BY <2>5, <2>11 DEF Unmount
    <3> QED
      BY <2>2, <2>3, <3>1 DEF closeDisk, idle, NoFormat
  <2>12. ASSUME NEW bNum \in -1..MaxBlockCount, NEW block \in {FREE, DATA},
                UseBlock(bNum, block)
         PROVE  FALSE
    <3>1. idle /\ UNCHANGED <<hostFDs, mountedDiskFD>>
      BY <2>5, <2>12 DEF UseBlock, writeBlock
    <3> QED
      BY <2>4, <3>1
  <2>13. CASE Restart
    BY <2>2, <2>13 DEF Restart
  <2> QED
    BY <2>6, <2>7, <2>8, <2>9, <2>10, <2>11, <2>12, <2>13 DEF Next
<1>2. Spec => []DisksInv
  BY InitDisks, NextDisks, PTL DEF Spec
<1> QED
  BY <1>1, <1>2, PTL DEF Spec, OnlyMkfsLeaks

=============================================================================
