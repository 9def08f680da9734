----------------------------- MODULE TornLayout -----------------------------
(***************************************************************************)
(* Where the blocks of the files lie when faults have cut calls off, as an *)
(* inductive invariant of FaultSpec.  Most faults leave the layout of      *)
(* module Layout with a lost block more.  One that cuts off a write or a   *)
(* deletion leaves a torn file as well, until the client mends it: its     *)
(* chain is shorter than its size calls for and ends in a free block, or   *)
(* the file is gone but for a descriptor that still stands for it.         *)
(***************************************************************************)
EXTENDS Layout, TinyFSFaults

freeOrNone == freeBlocks \cup {noBlockLink}

\* The extents a torn file still has are strung on their links: the chain starts with
\* the link first, takes them in the order of their numbers, and ends nowhere or in a
\* free block.
Strung(pos, rest, first) ==
  /\ IF first \in rest
     THEN \A b \in rest : pos[first] <= pos[b]
     ELSE rest = {} /\ first \in freeOrNone
  /\ \A b \in rest :
       LET next == disk[b].nextBlock
       IN IF next \in rest
          THEN pos[next] = pos[b] + 1
          ELSE next \in freeOrNone /\ \A c \in rest : pos[c] <= pos[b]
  /\ \A b, c \in rest : pos[b] = pos[c] => b = c

\* An open file agrees with its inode.
Fresh(file) ==
  /\ file.inodeLinkIndex \in usedSlots
  /\ inodeOf(file.inodeLinkIndex).nextBlock = file.nextBlockIndex
  /\ inodeOf(file.inodeLinkIndex).fileSize = file.fileSize
  /\ inodeOf(file.inodeLinkIndex).fileName = file.fileName

\* Two descriptors stand for two files.
TableApart ==
  \A fd1, fd2 \in DOMAIN openFiles :
    openFiles[fd1].inodeLinkIndex = openFiles[fd2].inodeLinkIndex => fd1 = fd2

\* A call works on the torn file n in slot s.
Mending(n, s) == isOpen(call.fd) /\ openFiles[call.fd].fileName = n /\ busySlot = s

\* The file in slot s is torn: beside its inode it has the extents in rest.
CutAt(lost, s, own, pos, rest) ==
  /\ s \in usedSlots
  /\ rest \subseteq Blocks \ freeBlocks /\ lost \cap rest = {}
  /\ IsLayout(disk, inodeIndices, own, pos, lost \cup rest, inodeIndices[s])
  /\ \A b \in placed(disk, lost \cup rest) : own[b] = s => pos[b] = 0
  /\ \A b \in rest : pos[b] \in 1..extents(disk, inodeIndices, s)

\* The call that erases these extents starts with the first, and a write has room for
\* its buffer in them and the free blocks.
CutErasing(n, s, pos, rest) ==
  /\ call.pc = "eraseFileData" /\ call.op \in {"writeFile", "deleteFile"} /\ Mending(n, s)
  /\ Strung(pos, rest, call.cur)
  /\ \/ inodeOf(s).nextBlock = call.cur
     \/ inodeOf(s).nextBlock \in freeBlocks /\ \A b \in rest : pos[b] # 1
  /\ call.op = "writeFile" =>
       call.buf # <<>> /\ toWrite <= Cardinality(freeBlocks \cup rest)

\* File n in slot s is torn.
Cut(lost, n, s, own, pos, rest) ==
  /\ CutAt(lost, s, own, pos, rest)
  /\ inodeOf(s).fileName = n
  /\ \A fd \in DOMAIN openFiles : Fresh(openFiles[fd])
  /\ \/ call = NoCall /\ Strung(pos, rest, inodeOf(s).nextBlock)
     \/ CutErasing(n, s, pos, rest)

\* File n is gone from slot s, but for a descriptor that leads to no block in use.
\* A call with it fails before it writes anything but free blocks.
Stale(lost, n, s, own, pos) ==
  /\ IsLayout(disk, inodeIndices, own, pos, lost, noBlockLink)
  /\ s \in unusedSlots
  /\ \A t \in usedSlots : inodeOf(t).fileName # n
  /\ \E fd \in DOMAIN openFiles : openFiles[fd].inodeLinkIndex = s
  /\ \A fd \in DOMAIN openFiles :
       LET file == openFiles[fd]
       IN IF file.inodeLinkIndex = s
          THEN file.fileName = n /\ file.nextBlockIndex \in freeOrNone
          ELSE Fresh(file)
  /\ \/ call = NoCall
     \/ /\ call.pc = "eraseFileData" /\ call.op \in {"writeFile", "deleteFile"} /\ Mending(n, s)
        /\ call.cur \in freeOrNone
     \/ /\ call.pc = "freeInode" /\ call.op = "deleteFile" /\ Mending(n, s)
        /\ call.cur = noBlockLink

TornInv(lost, n) ==
  /\ NamesOK /\ TableApart
  /\ lost \subseteq Blocks \ freeBlocks
  /\ \E s \in Slots, own \in [Blocks -> Slots], pos \in [Blocks -> Nat] :
       \/ \E rest \in SUBSET Blocks : Cut(lost, n, s, own, pos, rest)
       \/ Stale(lost, n, s, own, pos)

\* A file is torn until the write or the deletion that mends it has its blocks back;
\* then the call is like any other.
TornOK(lost) ==
  \/ torn = {} /\ CarefulInv(lost, FALSE)
  \/ \E n \in Name :
       /\ torn = {n}
       /\ \/ TornInv(lost, n)
          \/ /\ call.pc \in {"writeBlocks", "freeInode"} /\ tearing = {n}
             /\ CarefulInv(lost, FALSE)

FilesOK == \E lost \in SUBSET Blocks : TornOK(lost)

\* Every file is empty or as long as a buffer.
sizes == {0} \cup {Len(buffer) : buffer \in Buffers}

SizesOK ==
  /\ \A b \in Blocks : disk[b].blockID = INODE_ID => disk[b].fileSize \in sizes
  /\ (call.pc = "eraseFileData" /\ call.op = "writeFile") => call.buf \in Buffers

\* What the faults so far can have taken from the files.
FewLost ==
  /\ SizesOK /\ faults \in Nat
  /\ \E lost \in SUBSET Blocks :
       TornOK(lost) /\ Cardinality(lost) <= faults * mostFloating

=============================================================================
