----------------------------- MODULE FileStore -----------------------------
(***************************************************************************)
(* What TinyFS promises a careful client: a store of named files, each a   *)
(* sequence of bytes with a permission, and descriptors with positions.    *)
(* There are no blocks, links or slots here.  What is left of the disk is  *)
(* its capacity, counted in blocks, because ENOSPC is part of the promise. *)
(*                                                                         *)
(* A write, a deletion or a creation is not one step: "running" is the     *)
(* call in progress and what it has done so far.  While a file is being    *)
(* rewritten or deleted its old bytes are gone.                            *)
(***************************************************************************)
EXTENDS TinyFSStructs, Functions, FiniteSetsExt

VARIABLES
  mounted,  \* whether the disk is mounted
  files,    \* the files by name: [readMode, bytes]
  open,     \* the open files by descriptor: [name, location]
  nextFD,   \* the next descriptor
  running,  \* the call in progress: [op, stage, fd, name, buffer]
  ret       \* what the last call returned

fileVars == <<nextFD, open, files>>
vars     == <<mounted, nextFD, open, files, running, ret>>

NoCall == [op |-> "none", stage |-> "idle", fd |-> 0, name |-> <<>>, buffer |-> <<>>]

Ready == running = NoCall /\ mounted

\* Every file takes a block for its inode and the blocks of its bytes.
Capacity == NumBlocks - 1
used(store) == MapThenSumSet(LAMBDA n : 1 + blocksFor(Len(store[n].bytes)), DOMAIN store)

isFile(name)   == name \in DOMAIN files
isOpen(fd)     == fd \in DOMAIN open
openUnder(name) == {fd \in DOMAIN open : open[fd].name = name}
fileOf(fd)     == files[open[fd].name]
erased(name)   == [files EXCEPT ![name].bytes = <<>>]
without(f, x)  == Restrict(f, DOMAIN f \ {x})

-----------------------------------------------------------------------------

Return(code) ==
  /\ running' = NoCall
  /\ ret' = [code |-> code, byte |-> 0]

\* A call that changes nothing, because it only asks or because it is refused.
Answer(code) ==
  /\ Return(code)
  /\ UNCHANGED <<mounted, nextFD>>
  /\ UNCHANGED open
  /\ UNCHANGED files

Start(op, stage, fd, name, buffer) ==
  /\ running' = [op |-> op, stage |-> stage, fd |-> fd, name |-> name, buffer |-> buffer]
  /\ ret' = [code |-> 0, byte |-> 0]
  /\ UNCHANGED mounted

addOpen(name) ==
  /\ open' = [fd \in DOMAIN open \cup {nextFD} |->
                IF fd = nextFD THEN [name |-> name, location |-> 0] ELSE open[fd]]
  /\ nextFD' = nextFD + 1

Init ==
  /\ mounted = FALSE
  /\ files = [n \in {} |-> NoCall]
  /\ open = [fd \in {} |-> NoCall]
  /\ nextFD = 1
  /\ running = NoCall
  /\ ret = [code |-> 0, byte |-> 0]

Mount ==
  /\ running = NoCall
  /\ \/ mounted /\ Answer(EALREADY)
     \/ ~mounted /\ Answer(ENOENT)
     \/ ~mounted /\ mounted' = TRUE /\ Return(0) /\ UNCHANGED fileVars

\* Files outlive the mount, descriptors do not.
Unmount ==
  /\ running = NoCall
  /\ mounted' = FALSE
  /\ IF mounted
     THEN open' = [fd \in {} |-> NoCall] /\ nextFD' = 1
     ELSE UNCHANGED <<open, nextFD>>
  /\ Return(0)
  /\ UNCHANGED files

Unmounted == running = NoCall /\ ~mounted /\ Answer(ENODEV)

\* tfs_readdir, and a null name.
Query == Ready /\ (Answer(0) \/ Answer(EPARAM))

-----------------------------------------------------------------------------

\* A file is created only when no file has the name and a block is left for it.
OpenFile(name) ==
  /\ Ready
  /\ \/ \E fd \in openUnder(name) : Answer(fd)
     \/ /\ Return(nextFD)
        /\ openUnder(name) = {} /\ isFile(name)
        /\ addOpen(name)
        /\ UNCHANGED mounted
        /\ UNCHANGED files
     \/ /\ Answer(ENOSPC)
        /\ ~isFile(name) /\ used(files) = Capacity
     \/ /\ Start("openFile", "create", 0, name, <<>>)
        /\ ~isFile(name) /\ used(files) < Capacity
        /\ UNCHANGED fileVars

Create ==
  LET new == [readMode |-> readAndWrite, bytes |-> <<>>]
  IN /\ running.stage = "create"
     /\ files' = [n \in DOMAIN files \cup {running.name} |->
                    IF n = running.name THEN new ELSE files[n]]
     /\ addOpen(running.name)
     /\ Return(nextFD)
     /\ UNCHANGED mounted

CloseFile(fd) ==
  /\ Ready
  /\ \/ ~isOpen(fd) /\ Answer(ENOENT)
     \/ /\ isOpen(fd)
        /\ open' = without(open, fd)
        /\ Return(0)
        /\ UNCHANGED <<mounted, files, nextFD>>

\* The old bytes are gone from here on.
WriteFile(fd, buffer) ==
  /\ Ready
  /\ \/ ~isOpen(fd) /\ Answer(ENOENT)
     \/ isOpen(fd) /\ Answer(EPERM) /\ fileOf(fd).readMode = readOnly
     \/ /\ Start("writeFile", "erase", fd, <<>>, buffer)
        /\ isOpen(fd) /\ fileOf(fd).readMode # readOnly
        /\ files' = erased(open[fd].name)
        /\ UNCHANGED <<open, nextFD>>

\* A write is refused only when the file was empty and the disk is full.  A write
\* that goes on gives the file some permission, and puts the position back to 0.
Overwrite ==
  LET name == open[running.fd].name
  IN /\ running.op = "writeFile" /\ running.stage = "erase"
     /\ \/ Answer(ENOSPC) /\ used(files) = Capacity
        \/ /\ used(files) < Capacity
           /\ \E mode \in readFlag : files' = [files EXCEPT ![name].readMode = mode]
           /\ open' = [open EXCEPT ![running.fd].location = 0]
           /\ running' = [running EXCEPT !.stage = "store"]
           /\ UNCHANGED <<mounted, nextFD, ret>>

\* It ends with exactly the buffer in the file, and never without room for it.
Store ==
  LET name == open[running.fd].name
  IN /\ running.stage = "store"
     /\ files' = [files EXCEPT ![name].bytes = running.buffer]
     /\ used(files') <= Capacity
     /\ Return(0)
     /\ UNCHANGED <<mounted, open, nextFD>>

DeleteFile(fd) ==
  /\ Ready
  /\ \/ ~isOpen(fd) /\ Answer(ENOENT)
     \/ /\ Start("deleteFile", "erase", fd, <<>>, <<>>)
        /\ isOpen(fd)
        /\ files' = erased(open[fd].name)
        /\ UNCHANGED <<open, nextFD>>

Unlink ==
  /\ running.op = "deleteFile" /\ running.stage = "erase"
  /\ files' = without(files, open[running.fd].name)
  /\ running' = [running EXCEPT !.stage = "unlinked"]
  /\ UNCHANGED <<mounted, open, nextFD, ret>>

Delete ==
  /\ running.stage = "unlinked"
  /\ open' = without(open, running.fd)
  /\ Return(0)
  /\ UNCHANGED <<mounted, files, nextFD>>

-----------------------------------------------------------------------------

\* What the byte at a position costs: behind the end the call fails, right at the
\* end there is one byte more unless the last block is full.
atPosition(fd) ==
  LET file == fileOf(fd)
  IN IF open[fd].location > Len(file.bytes) THEN ERANGE
     ELSE IF open[fd].location = Len(file.bytes) /\ Len(file.bytes) % DataPerBlock = 0 THEN EIO
     ELSE 0

\* Inside the file the byte read is the file's byte.
ReadByte(fd) ==
  LET file == fileOf(fd)
      at   == open[fd].location
  IN /\ Ready
     /\ \/ ~isOpen(fd) /\ Answer(ENOENT)
        \/ isOpen(fd) /\ \E code \in {ERANGE, EIO} : Answer(code) /\ atPosition(fd) = code
        \/ /\ isOpen(fd)
           /\ open' = [open EXCEPT ![fd].location = @ + 1]
           /\ ret' \in [code : {0}, byte : Byte]
           /\ atPosition(fd) = 0
           /\ at < Len(file.bytes) => ret'.byte = file.bytes[at + 1]
           /\ UNCHANGED <<mounted, nextFD, running>>
           /\ UNCHANGED files

WriteByte(fd, byte) ==
  LET at == open[fd].location
  IN /\ Ready
     /\ \/ ~isOpen(fd) /\ Answer(ENOENT)
        \/ isOpen(fd) /\ Answer(EPERM) /\ fileOf(fd).readMode = readOnly
        \/ /\ isOpen(fd)
           /\ \E code \in {ERANGE, EIO} : Answer(code) /\ atPosition(fd) = code
           /\ fileOf(fd).readMode # readOnly
        \/ /\ isOpen(fd) /\ Return(0)
           /\ UNCHANGED <<mounted, open, nextFD>>
           /\ fileOf(fd).readMode # readOnly /\ atPosition(fd) = 0
           /\ files' = IF at < Len(fileOf(fd).bytes)
                       THEN [files EXCEPT ![open[fd].name].bytes[at + 1] = byte]
                       ELSE files

Seek(fd, offset) ==
  /\ Ready
  /\ \/ ~isOpen(fd) /\ Answer(ENOENT)
     \/ isOpen(fd) /\ Answer(ERANGE) /\ offset \notin 0..Len(fileOf(fd).bytes)
     \/ /\ isOpen(fd) /\ Return(0)
        /\ open' = [open EXCEPT ![fd].location = offset]
        /\ offset \in 0..Len(fileOf(fd).bytes)
        /\ UNCHANGED <<mounted, nextFD>>
        /\ UNCHANGED files

ReadFileInfo(fd) == Ready /\ ((~isOpen(fd) /\ Answer(ENOENT)) \/ (isOpen(fd) /\ Answer(0)))

\* The careful client renames a file only to a name no file has.
Rename(fd, newName) ==
  LET old == open[fd].name
  IN /\ Ready
     /\ \/ ~isOpen(fd) /\ Answer(ENOENT)
        \/ /\ isOpen(fd) /\ Return(0)
           /\ open' = [open EXCEPT ![fd].name = newName]
           /\ newName \notin DOMAIN files
           /\ files' = [n \in (DOMAIN files \ {old}) \cup {newName} |->
                          IF n = newName THEN files[old] ELSE files[n]]
           /\ UNCHANGED <<mounted, nextFD>>

\* Setting the permission of a file that is not open costs a descriptor.
ChangePermissions(name, mode) ==
  /\ Ready
  /\ \/ Answer(ENOENT) /\ ~isFile(name)
     \/ /\ Return(0)
        /\ UNCHANGED <<mounted, open>>
        /\ nextFD' = IF openUnder(name) = {} THEN nextFD + 1 ELSE nextFD
        /\ isFile(name)
        /\ files' = [files EXCEPT ![name].readMode = mode]

\* Defragmentation and the fragmentation map: no file changes, and they succeed.
Reorganise ==
  /\ Ready
  /\ \E op \in {"defrag", "displayFragments"} : Start(op, "busy", 0, <<>>, <<>>)
  /\ UNCHANGED fileVars

Finish == running.stage = "busy" /\ Answer(0)

-----------------------------------------------------------------------------

Next ==
  \/ Mount \/ Unmount \/ Unmounted \/ Query \/ Reorganise
  \/ Create \/ Overwrite \/ Store \/ Unlink \/ Delete \/ Finish
  \/ \E name \in Name : \/ OpenFile(name)
                        \/ \E mode \in readFlag : ChangePermissions(name, mode)
  \/ \E fd \in 1..MaxFD : \/ CloseFile(fd)
                          \/ DeleteFile(fd)
                          \/ ReadByte(fd)
                          \/ ReadFileInfo(fd)
                          \/ \E buffer \in Buffers : WriteFile(fd, buffer)
                          \/ \E offset \in SeekOffsets : Seek(fd, offset)
                          \/ \E byte \in WriteBytes : WriteByte(fd, byte)
                          \/ \E name \in Name : Rename(fd, name)

Spec == Init /\ [][Next]_vars

=============================================================================
