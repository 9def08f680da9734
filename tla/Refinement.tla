----------------------------- MODULE Refinement -----------------------------
(***************************************************************************)
(* The careful client's TinyFS implements FileStore: how the blocks, the   *)
(* slots, the open list and the locals of a call make up the files, the    *)
(* descriptors and the call in progress that FileStore speaks of.          *)
(***************************************************************************)
EXTENDS Clients

fileSlots == {s \in usedSlots : isFile(s)}

\* The first n bytes of the file in a slot.
bytesIn(slot, n) ==
  LET link == chain(inodeIndices[slot])
  IN [i \in 1..n |-> byteAt(link[(i - 1) \div DataPerBlock + 1], i - 1)]

\* Every inode a slot leads to is a file.
storedFiles ==
  [n \in {inodeOf(s).fileName : s \in fileSlots} |->
     LET s == CHOOSE t \in fileSlots : inodeOf(t).fileName = n
     IN [readMode |-> inodeOf(s).readMode,
         bytes    |-> IF s \in busySlots THEN <<>> ELSE bytesIn(s, inodeOf(s).fileSize)]]

descriptors ==
  [fd \in DOMAIN openFiles |->
     [name |-> openFiles[fd].fileName, location |-> openFiles[fd].location]]

\* The whole buffer of a write: what is left of it, behind what is on the disk.
wholeBuffer ==
  IF call.pc # "writeBlocks"
  THEN call.buf
  ELSE bytesIn(openFiles[call.fd].inodeLinkIndex, openFiles[call.fd].fileSize - Len(call.buf))
       \o call.buf

stageOf(pc) ==
  CASE pc = "idle"          -> "idle"
    [] pc = "linkInode"     -> "create"
    [] pc = "eraseFileData" -> "erase"
    [] pc = "writeBlocks"   -> "store"
    [] pc = "freeInode"     -> "unlinked"
    [] OTHER                -> "busy"

callInProgress ==
  [op |-> call.op, stage |-> stageOf(call.pc), fd |-> call.fd, name |-> call.name,
   buffer |-> wholeBuffer]

Store == INSTANCE FileStore WITH
           files   <- storedFiles,
           open    <- descriptors,
           nextFD  <- currentFD,
           running <- callInProgress

\* Whatever the careful client calls, it sees a store of named files: a file that is
\* created is there until it is deleted or renamed, it holds exactly the buffer of
\* its last write and the bytes written into it since, descriptors keep their
\* positions, every call returns what the store says, and what is still to be
\* written is never lost between two block writes of tfs_writeFile.
ImplementsFileStore == Store!Spec

=============================================================================
