------------------------ MODULE TinyFSFaults_proofs ------------------------
(***************************************************************************)
(* What faults leave of the invariants of TinyFS_proofs and of the layout  *)
(* of Clients_proofs, for every disk size, set of names and buffers, and   *)
(* any number of faults.                                                   *)
(*                                                                         *)
(* The process may die at every step, and a block access may fail in every *)
(* step but those of swapFileExtent behind its first write: tfs_defrag     *)
(* goes on after an error there, with a free block that is no longer free  *)
(* or an error code for one, so DefragCursor is lost.                      *)
(*                                                                         *)
(* The inductive invariant is FilesOK of module TornLayout: but for some   *)
(* lost blocks the careful client's invariant holds, or one file is torn   *)
(* and all others have their blocks.  A fault leaves the disk as it is and *)
(* turns what the call in progress held into lost blocks, or its file into *)
(* the torn one; a client that mends the torn file keeps the invariant as  *)
(* a careful one does.  FewLost counts the blocks lost.                    *)
(***************************************************************************)
EXTENDS TornLayout, Clients_proofs

\* The block accesses behind whose failure tfs_defrag's free block is not one.
swapFileExtentPoints == {"swapExtentLink", "freeOldExtent", "findFreeBlock"}

-----------------------------------------------------------------------------

\* The client that keeps some rules makes calls that any client makes, and so does
\* the client with a torn file.
LEMMA AnyClient == ASSUME Inv, ClientNext \/ Mend PROVE Next
<1>1. DOMAIN openFiles \subseteq FDs
  BY DiskAssumption DEF Inv, TypeOK, OpenListOK, FDs
<1>2. CASE ClientNext
  BY <1>2 DEF ClientNext, ClientWrite, ClientRename, ClientDefrag, ClientFormat, Next
<1>3. CASE Mend
  BY <1>1, <1>3 DEF Mend, SafeCall, Next
<1> QED
  BY <1>2, <1>3

LEMMA ClientStep == ASSUME Inv, ClientNext \/ Mend PROVE Inv'
BY AnyClient, NextInv

\* A new process: the disk is as it was, the open list is empty.
LEMMA RestartStep == ASSUME Inv, Restart PROVE Inv'
<1>1. OpenListOK'
  <2>1. openFiles' = [fd \in {} |-> NoResult] /\ currentFD' = 1 /\ mounted' = FALSE
    BY DEF Restart, openFDs_Reset
  <2>2. DOMAIN openFiles' = {} /\ mounted' \in BOOLEAN
    BY <2>1
  <2>3. currentFD' \in 1..(MaxFD + 1)
    BY <2>1, DiskAssumption
  <2> QED
    BY <2>1, <2>2, <2>3 DEF OpenListOK
<1>2. Return(0)
  BY DEF Restart, Return, NoResult
<1>3. UNCHANGED diskVars
  BY DEF Restart
<1> QED
  BY <1>1, <1>2, <1>3, Returned, NoBlockWritten DEF Inv, TypeOK

\* changePermissions leaves behind an entry of the open list for a file that exists.
LEMMA ChangePermissionsFailsStep ==
  ASSUME Inv, NEW name \in UserNames, ChangePermissionsFails(name)
  PROVE  Inv'
<1> DEFINE fname == formatName(name)
           found == searchSB(fname)
           in    == disk[inodeIndices[found.slot]]
<1>1. CASE Fail(ENOSPC)
  BY <1>1, Failed, ErrorCodes
<1>2. CASE /\ found.code = 1
           /\ currentFD <= MaxFD
           /\ openFDs_add(in.fileSize, fname, found.slot, in.nextBlock)
           /\ Return(ENOSPC)
           /\ UNCHANGED <<diskVars, mounted>>
  <2>1. /\ fname \in Name /\ found.slot \in Slots
        /\ inodeIndices[found.slot] \in Blocks /\ in.blockID = INODE_ID
    BY <1>2, Inputs, SearchSB
  <2>2. in \in Block
    BY <2>1 DEF Inv, TypeOK, DiskOK
  <2>3. in.fileSize \in Nat /\ in.nextBlock \in BlockLink
    BY <2>1, <2>2, BlockFields
  <2>4. OpenListOK'
    <3> HIDE DEF fname, found, in
    <3> QED
      BY <1>2, <2>1, <2>3, Added
  <2> QED
    BY <1>2, <2>4, Returned, NoBlockWritten, ErrorCodes DEF Inv, TypeOK
<1> QED
  BY <1>1, <1>2 DEF ChangePermissionsFails

\* A walk that is given up goes on with the next slot and the same free block.
LEMMA IterateFEsFailsStep ==
  ASSUME Inv, call.pc = "iterateFEs", IterateFEsFails
  PROVE  Inv'
<1>1. /\ call \in Locals /\ call.slot \in Slots
      /\ call.free \in freeBlocks /\ \A b \in freeBlocks : call.free <= b
  BY DEF Inv, TypeOK, LocalsOK, DefragCursor
<1>2. call' = [call EXCEPT !.pc = "defragInode", !.slot = call.slot + 1,
                           !.prev = 0, !.cur = 0]
  BY DEF IterateFEsFails, nextSlot
<1>3. call'.pc = "defragInode" /\ call'.free = call.free /\ call' \in Locals
  <2>1. call.slot + 1 \in Nat
    BY <1>1 DEF Locals
  <2> QED
    BY <1>1, <1>2, <2>1, NoCallFields DEF Locals
<1>4. UNCHANGED <<diskVars, mounted, openList, ret>>
  BY DEF IterateFEsFails
<1>5. freeBlocks' = freeBlocks
  BY <1>4 DEF freeBlocks, diskVars
<1>6. LocalsOK' /\ DefragCursor'
  BY <1>1, <1>3, <1>5 DEF LocalsOK, DefragCursor
<1> QED
  BY <1>4, <1>6, NoBlockWritten, OpenListKept DEF Inv, TypeOK

\* The other error paths do nothing but report a code.
LEMMA FailureCodes ==
  ASSUME CallFails \/ StepFails \/ DisplayFails
  PROVE  \E code \in Int : Fail(code)
<1>1. EIO \in Int /\ ENOSPC \in Int /\ ECORRUPT \in Int /\ 0 \in Int
  BY ErrorCodes
<1>2. \A b, format : safeReadBlock(b, format) \in Int
  BY <1>1 DEF safeReadBlock
<1>3. CASE CallFails
  BY <1>1, <1>2, <1>3 DEF CallFails, CheckPermissionFails, DefragSearchFails
<1>4. CASE StepFails \/ DisplayFails
  BY <1>1, <1>4 DEF StepFails, DisplayFails
<1> QED
  BY <1>3, <1>4

\* Every error path, but for those of swapFileExtent's last two writes, keeps the invariant.
LEMMA AccessFailsStep ==
  ASSUME FailPoints \cap swapFileExtentPoints = {}, Inv, AccessFails
  PROVE  Inv'
<1>1. CASE CallFails \/ StepFails \/ DisplayFails
  <2>1. PICK code \in Int : Fail(code)
    BY <1>1, FailureCodes
  <2> QED
    BY <2>1, Failed
<1>2. CASE \E name \in UserNames : ChangePermissionsFails(name)
  BY <1>2, ChangePermissionsFailsStep
<1>3. CASE call.pc \in FailPoints /\ IterateFEsFails
  <2>1. call.pc = "iterateFEs"
    BY <1>3 DEF IterateFEsFails, swapFileExtentPoints
  <2> QED
    BY <1>3, <2>1, IterateFEsFailsStep
<1>4. "findFreeBlock" \notin FailPoints
  BY DEF swapFileExtentPoints
<1> QED
  BY <1>1, <1>2, <1>3, <1>4 DEF AccessFails

-----------------------------------------------------------------------------

\* So does every step of the program, its client and the faults.
LEMMA FaultInv ==
  ASSUME FailPoints \cap swapFileExtentPoints = {}
  PROVE  Inv /\ [FaultNext]_faultVars => Inv'
<1> SUFFICES ASSUME Inv, [FaultNext]_faultVars PROVE Inv'
  OBVIOUS
<1>1. CASE UNCHANGED faultVars
  <2>1. UNCHANGED vars
    BY <1>1 DEF faultVars, vars
  <2> QED
    BY <2>1, NextInv
<1>2. CASE FaultNext
  BY <1>2, ClientStep, RestartStep, AccessFailsStep DEF FaultNext
<1> QED
  BY <1>1, <1>2

\* The invariants of TinyFS_proofs, whatever fails.
LEMMA AlwaysInvWithFaults ==
  ASSUME FailPoints \cap swapFileExtentPoints = {}
  PROVE  FaultSpec => []Inv
<1>1. FaultInit => Inv
  BY InitInv DEF FaultInit
<1>2. Inv /\ [FaultNext]_faultVars => Inv'
  BY FaultInv
<1> QED
  BY <1>1, <1>2, PTL DEF FaultSpec

\* However often the process dies, and whichever other block accesses fail, the
\* disk that is left can be read: every link stays inside the disk and every block
\* has a format the program knows, and after every error the calls that follow
\* find descriptors that lead to slots and use no local that is not set.
THEOREM TypeCorrectWithFaults ==
  ASSUME FailPoints \cap swapFileExtentPoints = {}
  PROVE  FaultSpec => []TypeOK
<1>1. Inv => TypeOK
  BY DEF Inv
<1> QED
  BY <1>1, AlwaysInvWithFaults, PTL

\* A write, a deletion or a defragmentation that is cut off leaves no circular
\* chain of extents, so that the next process reads to the end of every file.
THEOREM ExtentsPointForwardWithFaults ==
  ASSUME FailPoints \cap swapFileExtentPoints = {}
  PROVE  FaultSpec => []ExtentsPointForward
<1>1. Inv => ExtentsPointForward
  BY DEF Inv
<1> QED
  BY <1>1, AlwaysInvWithFaults, PTL

-----------------------------------------------------------------------------
(* Chains on any disk                                                      *)

\* The first links of a chain, one after the other.
ChainUpTo(d, start, k, f) ==
  f = [n \in 0..k |-> IF n = 0 THEN start ELSE follow(d, f[n - 1])]

\* It is followed one link further.
LEMMA ChainGrows ==
  ASSUME NEW d, NEW start, NEW k \in Nat, k # 0, NEW g, ChainUpTo(d, start, k - 1, g)
  PROVE  \E f : ChainUpTo(d, start, k, f)
<1> DEFINE f == [n \in 0..k |-> IF n = k THEN follow(d, g[k - 1]) ELSE g[n]]
<1>1. \A n \in 0..(k - 1) : g[n] = IF n = 0 THEN start ELSE follow(d, g[n - 1])
  BY DEF ChainUpTo
<1>2. ASSUME NEW n \in 0..k
      PROVE  f[n] = IF n = 0 THEN start ELSE follow(d, f[n - 1])
  <2>1. CASE n = k
    <3>1. k - 1 \in 0..k /\ k - 1 # k
      OBVIOUS
    <3>2. f[k - 1] = g[k - 1]
      BY <3>1
    <3> QED
      BY <2>1, <3>2
  <2>2. CASE n # k
    <3>1. n \in 0..(k - 1)
      BY <2>2
    <3>2. CASE n = 0
      BY <1>1, <2>2, <3>1, <3>2
    <3>3. CASE n # 0
      <4>1. n - 1 \in 0..k /\ n - 1 # k
        BY <3>1, <3>3
      <4>2. f[n - 1] = g[n - 1] /\ f[n] = g[n]
        BY <2>2, <4>1
      <4> QED
        BY <1>1, <3>1, <3>3, <4>2
    <3> QED
      BY <3>2, <3>3
  <2> QED
    BY <2>1, <2>2
<1>3. f = [n \in 0..k |-> f[n]]
  OBVIOUS
<1> HIDE DEF f
<1>4. f = [n \in 0..k |-> IF n = 0 THEN start ELSE follow(d, f[n - 1])]
  BY <1>2, <1>3
<1> QED
  BY <1>4 DEF ChainUpTo

\* There is a chain of links from every block.
LEMMA ChainExists ==
  ASSUME NEW d, NEW start
  PROVE  \E f : IsChain(d, start, f)
<1> DEFINE bad == {k \in Nat : ~ \E f : ChainUpTo(d, start, k, f)}
<1>1. bad = {}
  <2> SUFFICES ASSUME bad # {} PROVE FALSE
    OBVIOUS
  <2>1. PICK m \in bad : \A y \in bad : m <= y
    BY MinOfNats
  <2>2. m \in Nat /\ ~ \E f : ChainUpTo(d, start, m, f)
    BY <2>1
  <2>3. m # 0
    <3> DEFINE f == [n \in 0..0 |-> start]
    <3>1. ChainUpTo(d, start, 0, f)
      BY DEF ChainUpTo
    <3> QED
      BY <2>2, <3>1
  <2>4. m - 1 \in Nat /\ ~(m <= m - 1)
    BY <2>2, <2>3
  <2>5. m - 1 \notin bad
    BY <2>1, <2>4
  <2>6. PICK g : ChainUpTo(d, start, m - 1, g)
    BY <2>4, <2>5
  <2> QED
    BY <2>2, <2>3, <2>6, ChainGrows
<1>2. PICK f : ChainUpTo(d, start, NumBlocks, f)
  BY <1>1, DiskAssumption
<1> QED
  BY <1>2 DEF ChainUpTo, IsChain

\* A chain that starts in a set which the links do not leave stays in it.
LEMMA ChainWithin ==
  ASSUME NEW d, NEW start, NEW T, start \in T \cup {noBlockLink},
         \A b \in T : d[b].nextBlock \in T \cup {noBlockLink},
         NEW n \in 0..NumBlocks
  PROVE  chainOn(d, start)[n] \in T \cup {noBlockLink}
<1>1. PICK f : IsChain(d, start, f)
  BY ChainExists
<1>2. chainOn(d, start) = f
  BY <1>1, ChainIs
<1>3. \A k \in 0..NumBlocks : f[k] = IF k = 0 THEN start ELSE follow(d, f[k - 1])
  BY <1>1 DEF IsChain
<1> DEFINE bad == {k \in 0..NumBlocks : f[k] \notin T \cup {noBlockLink}}
<1>4. bad = {}
  <2> SUFFICES ASSUME bad # {} PROVE FALSE
    OBVIOUS
  <2>1. bad \in SUBSET Nat
    BY DiskAssumption
  <2>2. PICK m \in bad : \A y \in bad : m <= y
    BY <2>1, MinOfNats
  <2>3. m \in 0..NumBlocks /\ f[m] \notin T \cup {noBlockLink} /\ m # 0
    BY <1>3, <2>2
  <2>4. m - 1 \in 0..NumBlocks /\ ~(m <= m - 1)
    BY <2>3, DiskAssumption
  <2>5. f[m - 1] \in T \cup {noBlockLink}
    BY <2>2, <2>4
  <2> QED
    BY <1>3, <2>3, <2>5 DEF follow
<1> QED
  BY <1>2, <1>4

\* So do all the blocks of the chain.
LEMMA ChainBlocksWithin ==
  ASSUME NEW start, NEW T, start \in T \cup {noBlockLink},
         \A b \in T : disk[b].nextBlock \in T \cup {noBlockLink}
  PROVE  chainBlocks(start) \subseteq T
<1>1. \A n \in 0..NumBlocks : chain(start)[n] \in T \cup {noBlockLink}
  BY ChainWithin DEF chain
<1> QED
  BY <1>1 DEF chainBlocks

-----------------------------------------------------------------------------
(* What faults lose                                                        *)

\* What one fault takes from the files: a block, or extents of one file behind the first.
LostByOne(G) ==
  /\ G \subseteq Blocks
  /\ \/ \E x : G \subseteq {x}
     \/ \E s \in usedSlots, pos \in [Blocks -> Nat] :
          /\ \A b \in G : pos[b] \in 2..extents(disk, inodeIndices, s)
          /\ \A b, c \in G : pos[b] = pos[c] => b = c

\* The walk of tfs_defrag may have been given up before.
LEMMA Untidy ==
  ASSUME NEW CONSTANT lost, NEW CONSTANT tidy, CarefulInv(lost, tidy)
  PROVE  CarefulInv(lost, FALSE)
<1>1. PICK own \in [Blocks -> Slots], pos \in [Blocks -> Nat], tail \in BlockLink :
        /\ IsLayout(disk, inodeIndices, own, pos, afloat(lost), tail)
        /\ call.pc \notin {"eraseFileData", "writeBlocks"} => tail = noBlockLink
        /\ Erasing(lost, own, pos, tail)
        /\ Writing(lost, own, pos, tail)
        /\ Moving(lost, tidy, own, pos)
  BY DEF CarefulInv, LayoutOK
<1>2. Moving(lost, FALSE, own, pos)
  BY <1>1 DEF Moving, Compacted
<1>3. LayoutOK(lost, FALSE)
  BY <1>1, <1>2 DEF LayoutOK
<1> QED
  BY <1>3 DEF CarefulInv

\* The blocks a call holds are in use.
LEMMA FloatingUsed ==
  ASSUME NEW CONSTANT lost, NEW CONSTANT tidy, Inv, CarefulInv(lost, tidy)
  PROVE  floating \subseteq Blocks \ freeBlocks /\ LostByOne(floating)
<1>1. PICK own \in [Blocks -> Slots], pos \in [Blocks -> Nat] : Moving(lost, tidy, own, pos)
  BY DEF CarefulInv, LayoutOK
<1>2. CASE call.pc = "linkInode"
  <2>1. call.cur \in Blocks /\ disk[call.cur].blockID = INODE_ID
    BY <1>2 DEF Inv, TypeOK, LocalsOK, CarefulInv, Linking
  <2> QED
    BY <1>2, <2>1 DEF floating, freeBlocks, LostByOne, INODE_ID, FREE_ID
<1>3. CASE call.pc = "freeInode"
  <2>1. call.cur \in Blocks /\ disk[call.cur].blockID = INODE_ID
    BY <1>3 DEF CarefulInv, PhaseOK
  <2> QED
    BY <1>3, <2>1 DEF floating, freeBlocks, LostByOne, INODE_ID, FREE_ID
<1>4. CASE call.pc \in {"swapInodeLink", "freeOldInode"}
  <2>1. /\ call.cur \in Blocks /\ call.free \in Blocks
        /\ disk[call.cur].blockID = INODE_ID /\ disk[call.free].blockID = INODE_ID
    BY <1>1, <1>4 DEF Inv, TypeOK, LocalsOK, Moving
  <2> QED
    BY <1>4, <2>1 DEF floating, freeBlocks, LostByOne, INODE_ID, FREE_ID
<1>5. CASE call.pc \in {"swapExtentLink", "freeOldExtent"}
  <2>1. /\ call.cur \in Blocks /\ call.free \in Blocks
        /\ disk[call.cur].blockID = FILE_EXTENT_ID /\ disk[call.free].blockID = FILE_EXTENT_ID
    BY <1>1, <1>5 DEF Inv, TypeOK, LocalsOK, Moving
  <2> QED
    BY <1>5, <2>1 DEF floating, freeBlocks, LostByOne, FILE_EXTENT_ID, FREE_ID
<1>6. CASE call.pc \notin {"linkInode", "freeInode", "freeOldInode", "freeOldExtent",
                           "swapInodeLink", "swapExtentLink"}
  BY <1>6 DEF floating, LostByOne
<1> QED
  BY <1>2, <1>3, <1>4, <1>5, <1>6

\* A call that is cut off while every file has its blocks leaves the block it holds.
LEMMA GivesUp ==
  ASSUME NEW CONSTANT lost, NEW CONSTANT tidy, Inv, CarefulInv(lost, tidy),
         call.pc \notin {"eraseFileData", "writeBlocks"},
         UNCHANGED diskVars, call' = NoCall, TableOK'
  PROVE  \E G \in SUBSET Blocks : LostByOne(G) /\ CarefulInv(lost \cup G, tidy)'
<1>1. PICK own \in [Blocks -> Slots], pos \in [Blocks -> Nat] :
        IsLayout(disk, inodeIndices, own, pos, afloat(lost), 0)
  BY DEF CarefulInv, LayoutOK, noBlockLink
<1>2. PICK G \in SUBSET Blocks : G = floating
  BY FloatingUsed
<1>3. G \subseteq Blocks \ freeBlocks /\ LostByOne(G)
  BY <1>2, FloatingUsed
<1>4. disk' = disk /\ inodeIndices' = inodeIndices /\ freeBlocks' = freeBlocks
  BY NoFileChanged DEF diskVars
<1>5. IsLayout(disk', inodeIndices', own, pos, lost \cup G, 0)
  BY <1>1, <1>2, <1>4 DEF afloat
<1>6. lost \cup G \subseteq Blocks \ freeBlocks'
  BY <1>3, <1>4 DEF CarefulInv, LostOK
<1>7. NamesOK'
  BY <1>4, NoFileChanged DEF CarefulInv, NamesOK, inodeOf
<1>8. CarefulInv(lost \cup G, tidy)'
  BY <1>5, <1>6, <1>7, Ended
<1> QED
  BY <1>3, <1>8

\* The open list stays or is emptied.
LEMMA TableStays ==
  ASSUME NEW CONSTANT lost, NEW CONSTANT tidy, CarefulInv(lost, tidy),
         UNCHANGED diskVars,
         \/ openFiles' = openFiles /\ call.pc # "freeInode"
         \/ DOMAIN openFiles' = {}
  PROVE  TableOK'
<1>1. disk' = disk /\ inodeIndices' = inodeIndices /\ usedSlots' = usedSlots
  BY NoFileChanged DEF diskVars
<1>2. CASE openFiles' = openFiles /\ call.pc # "freeInode"
  BY <1>1, <1>2 DEF CarefulInv, TableOK, inodeOf
<1>3. CASE DOMAIN openFiles' = {}
  BY <1>3 DEF TableOK
<1> QED
  BY <1>2, <1>3

\* A deletion that is cut off when its file has lost its slot leaves the inode, and a
\* descriptor of the file that is gone.
LEMMA DeletionCutOff ==
  ASSUME Habits = {}, NEW CONSTANT lost, NEW CONSTANT tidy, Inv, CarefulInv(lost, tidy),
         call.pc = "freeInode",
         UNCHANGED <<diskVars, openFiles>>, call' = NoCall,
         NEW CONSTANT n, n = openFiles[call.fd].fileName
  PROVE  \E G \in SUBSET Blocks : LostByOne(G) /\ TornInv(lost \cup G, n)'
<1>1. PICK own \in [Blocks -> Slots], pos \in [Blocks -> Nat] :
        IsLayout(disk, inodeIndices, own, pos, afloat(lost), 0)
  BY DEF CarefulInv, LayoutOK, noBlockLink
<1>2. PICK G \in SUBSET Blocks : G = floating
  BY FloatingUsed
<1>3. G \subseteq Blocks \ freeBlocks /\ LostByOne(G)
  BY <1>2, FloatingUsed
<1>4. /\ disk' = disk /\ inodeIndices' = inodeIndices /\ freeBlocks' = freeBlocks
      /\ usedSlots' = usedSlots /\ openFiles' = openFiles
  BY NoFileChanged DEF diskVars
<1>5. PICK s \in Slots : s = busySlot
  BY OpenFileFields DEF Inv, TypeOK, LocalsOK, isOpen, busySlot
<1>6. call.fd \in DOMAIN openFiles /\ openFiles[call.fd].inodeLinkIndex = s
  BY <1>5 DEF Inv, TypeOK, LocalsOK, isOpen, busySlot
<1>7. /\ s \in unusedSlots
      /\ openFiles[call.fd].nextBlockIndex \in freeBlocks \cup {noBlockLink}
      /\ \A t \in usedSlots : inodeOf(t).fileName # n
  BY <1>5 DEF CarefulInv, PhaseOK
<1>8. ASSUME NEW fd \in DOMAIN openFiles
      PROVE  IF openFiles[fd].inodeLinkIndex = s
             THEN openFiles[fd].fileName = n /\ openFiles[fd].nextBlockIndex \in freeOrNone
             ELSE Fresh(openFiles[fd])
  <2>1. CASE openFiles[fd].inodeLinkIndex = s
    <3>1. fd = call.fd
      BY <1>6, <2>1 DEF CarefulInv, TableOK
    <3> QED
      BY <1>7, <2>1, <3>1 DEF freeOrNone
  <2>2. CASE openFiles[fd].inodeLinkIndex # s
    <3>1. fd # call.fd
      BY <1>6, <2>2
    <3> QED
      BY <2>2, <3>1 DEF CarefulInv, TableOK, Fresh
  <2> QED
    BY <2>1, <2>2
<1>9. Stale(lost \cup G, n, s, own, pos)'
  <2>1. IsLayout(disk, inodeIndices, own, pos, lost \cup G, noBlockLink)
    BY <1>1, <1>2 DEF afloat, noBlockLink
  <2> QED
    BY <1>4, <1>6, <1>7, <1>8, <2>1 DEF Stale, unusedSlots, inodeOf, Fresh, freeOrNone
<1>10. NamesOK' /\ TableApart'
  BY <1>4 DEF CarefulInv, NamesOK, TableOK, TableApart, inodeOf
<1>11. lost \cup G \subseteq Blocks \ freeBlocks'
  BY <1>3, <1>4 DEF CarefulInv, LostOK
<1>12. TornInv(lost \cup G, n)'
  BY <1>9, <1>10, <1>11 DEF TornInv
<1> QED
  BY <1>3, <1>12

\* The extents of one file may be taken from a layout.
LEMMA ExtentsTaken ==
  ASSUME NEW d, NEW ix, NEW own, NEW pos, NEW F, NEW tail,
         IsLayout(d, ix, own, pos, F, tail),
         NEW s \in Slots, ix[s] # noBlockLink,
         \A b \in placed(d, F) : own[b] # s => b # tail
  PROVE  LET E == {b \in placed(d, F) : own[b] = s /\ pos[b] # 0}
         IN /\ IsLayout(d, ix, own, pos, F \cup E, ix[s])
            /\ \A b \in placed(d, F \cup E) : own[b] = s => pos[b] = 0
<1> DEFINE E == {b \in placed(d, F) : own[b] = s /\ pos[b] # 0}
<1>1. placed(d, F \cup E) = placed(d, F) \ E
  BY DEF placed
<1>2. \A b \in placed(d, F \cup E) : b \in placed(d, F) /\ (own[b] = s => pos[b] = 0)
  BY <1>1
<1>3. Placed(d, ix, own, pos, F \cup E) /\ Apart(d, own, pos, F \cup E)
  BY <1>2 DEF IsLayout, Placed, Apart
<1>4. Rooted(d, ix, own, pos, F \cup E)
  <2>1. \A t \in Slots : ix[t] # noBlockLink =>
          ix[t] \in placed(d, F) /\ own[ix[t]] = t /\ pos[ix[t]] = 0
    BY DEF IsLayout, Rooted
  <2> HIDE DEF E
  <2>2. \A b \in E : pos[b] # 0
    BY DEF E
  <2> QED
    BY <1>1, <2>1, <2>2 DEF Rooted
<1>5. Linked(d, ix, own, pos, F \cup E, ix[s])
  <2> SUFFICES ASSUME NEW b \in placed(d, F \cup E), b # ix[s]
               PROVE  LET next == d[b].nextBlock
                      IN IF pos[b] = extents(d, ix, own[b])
                         THEN next = noBlockLink
                         ELSE next \in placed(d, F \cup E) /\ own[next] = own[b] /\ pos[next] = pos[b] + 1
    BY DEF Linked
  <2>1. own[b] # s
    BY <1>2 DEF IsLayout, Placed
  <2>2. b \in placed(d, F) \ {tail}
    BY <1>2, <2>1
  <2>3. LET next == d[b].nextBlock
        IN IF pos[b] = extents(d, ix, own[b])
           THEN next = noBlockLink
           ELSE next \in placed(d, F) /\ own[next] = own[b] /\ pos[next] = pos[b] + 1
    BY <2>2 DEF IsLayout, Linked
  <2>4. \A c \in placed(d, F) : own[c] # s => c \in placed(d, F \cup E)
    BY <1>1
  <2> QED
    BY <2>1, <2>3, <2>4
<1> QED
  BY <1>2, <1>3, <1>4, <1>5 DEF IsLayout

\* What is left of a file whose blocks are being erased or written is torn.
LEMMA CutFile ==
  ASSUME NEW CONSTANT lost, NEW CONSTANT tidy, Inv, CarefulInv(lost, tidy),
         call.pc \in {"eraseFileData", "writeBlocks"},
         NEW CONSTANT s \in Slots, s = busySlot
  PROVE  \E G \in SUBSET Blocks, own \in [Blocks -> Slots], pos \in [Blocks -> Nat],
            rest \in SUBSET Blocks :
           /\ LostByOne(G) /\ lost \cup G \subseteq Blocks \ freeBlocks
           /\ CutAt(lost \cup G, s, own, pos, rest)
           /\ Strung(pos, rest, inodeOf(s).nextBlock)
<1>1. /\ s \in usedSlots /\ inodeIndices[s] \in Blocks /\ inodeIndices[s] # noBlockLink
      /\ afloat(lost) = lost
  BY BusyFile
<1>2. PICK own \in [Blocks -> Slots], pos \in [Blocks -> Nat], tail \in BlockLink :
        /\ IsLayout(disk, inodeIndices, own, pos, lost, tail)
        /\ Erasing(lost, own, pos, tail)
        /\ Writing(lost, own, pos, tail)
  BY <1>1 DEF CarefulInv, LayoutOK
<1>3. disk \in [Blocks -> Block] /\ inodeIndices \in [Slots -> BlockLink] /\ call \in Locals
  BY Types
<1> DEFINE E == {b \in placed(disk, lost) : own[b] = s /\ pos[b] # 0}
           K == extents(disk, inodeIndices, s)
           first == inodeOf(s).nextBlock
<1>4. K \in Nat
  BY <1>1, <1>2, <1>3, ExtentsNat
<1>5. /\ inodeIndices[s] \in placed(disk, lost)
      /\ own[inodeIndices[s]] = s /\ pos[inodeIndices[s]] = 0
  BY <1>1, <1>2, InodesPlaced
<1>6. \A b \in placed(disk, lost) : own[b] # s => b # tail
  BY <1>2, <1>5 DEF Erasing, Writing
<1>7. /\ IsLayout(disk, inodeIndices, own, pos, lost \cup E, inodeIndices[s])
      /\ \A b \in placed(disk, lost \cup E) : own[b] = s => pos[b] = 0
  <2>1. IsLayout(disk, inodeIndices, own, pos, lost, tail)
    BY <1>2
  <2>2. inodeIndices[s] # noBlockLink
    BY <1>1
  <2> QED
    BY ONLY <1>6, <2>1, <2>2, s \in Slots, ExtentsTaken DEF E
<1>8. /\ E \subseteq Blocks \ freeBlocks /\ lost \cap E = {}
      /\ \A b \in E : pos[b] \in 1..K /\ pos[b] \in Nat
      /\ \A b, c \in E : pos[b] = pos[c] => b = c
  <2>1. E \subseteq Blocks \ freeBlocks /\ lost \cap E = {}
    BY DEF placed, freeBlocks
  <2>2. \A b \in E : pos[b] \in 0..K /\ pos[b] # 0 /\ pos[b] \in Nat
    BY <1>2 DEF IsLayout, Placed, placed
  <2>3. \A b, c \in E : pos[b] = pos[c] => b = c
    BY <1>2 DEF IsLayout, Apart
  <2> HIDE DEF E, K
  <2> QED
    BY <1>4, <2>1, <2>2, <2>3
<1>9. lost \subseteq Blocks \ freeBlocks
  BY DEF CarefulInv, LostOK
<1>10. LostByOne({})
  BY DEF LostByOne
<1>11. \A b \in E : b # tail => LET next == disk[b].nextBlock
                                IN IF pos[b] = K THEN next = noBlockLink
                                   ELSE next \in E /\ pos[next] = pos[b] + 1
  <2> SUFFICES ASSUME NEW b \in E, b # tail
               PROVE  LET next == disk[b].nextBlock
                      IN IF pos[b] = K THEN next = noBlockLink
                         ELSE next \in E /\ pos[next] = pos[b] + 1
    OBVIOUS
  <2>1. b \in placed(disk, lost) \ {tail} /\ own[b] = s /\ pos[b] # 0 /\ pos[b] \in Nat
    BY <1>8
  <2>2. LET next == disk[b].nextBlock
        IN IF pos[b] = K THEN next = noBlockLink
           ELSE next \in placed(disk, lost) /\ own[next] = s /\ pos[next] = pos[b] + 1
    BY <1>2, <2>1 DEF IsLayout, Linked
  <2> HIDE DEF K
  <2> QED
    BY <2>1, <2>2
<1>12. \A b \in E : b \in Blocks /\ b # noBlockLink /\ b \notin freeOrNone
  BY <1>8, DiskAssumption DEF Blocks, noBlockLink, freeOrNone
<1>13. CASE call.pc = "eraseFileData"
  <2>1. /\ tail = inodeIndices[s]
        /\ call.cur # noBlockLink => call.cur \in E /\ (pos[call.cur] = 1 => first = call.cur)
        /\ \A b \in E : call.cur # noBlockLink /\ pos[call.cur] <= pos[b]
        /\ first \in freeBlocks \cup {call.cur}
    BY <1>2, <1>13 DEF Erasing
  <2>2. \A b \in E : b # tail
    BY <1>5, <2>1
  <2>3. CASE first = call.cur /\ call.cur # noBlockLink
    <3>1. Strung(pos, E, first)
      <4>1. first \in E /\ \A b \in E : pos[first] <= pos[b]
        BY <2>1, <2>3
      <4>2. ASSUME NEW b \in E
            PROVE  LET next == disk[b].nextBlock
                   IN IF next \in E THEN pos[next] = pos[b] + 1
                      ELSE next \in freeOrNone /\ \A c \in E : pos[c] <= pos[b]
        <5>1. LET next == disk[b].nextBlock
              IN IF pos[b] = K THEN next = noBlockLink
                 ELSE next \in E /\ pos[next] = pos[b] + 1
          BY <1>11, <2>2
        <5>2. \A c \in E : pos[c] <= K
          BY <1>4, <1>8
        <5>3. noBlockLink \notin E /\ noBlockLink \in freeOrNone
          BY <1>12 DEF freeOrNone
        <5> HIDE DEF E, K
        <5> QED
          BY <5>1, <5>2, <5>3
      <4> HIDE DEF E
      <4> QED
        BY <1>8, <4>1, <4>2 DEF Strung
    <3>2. CutAt(lost \cup {}, s, own, pos, E)
      BY <1>1, <1>7, <1>8 DEF CutAt
    <3> HIDE DEF E
    <3>3. E \in SUBSET Blocks
      BY <1>8
    <3> QED
      BY <1>9, <1>10, <3>1, <3>2, <3>3
  <2>4. CASE first \in freeBlocks \/ call.cur = noBlockLink
    <3>1. \A b \in E : pos[b] \in 2..K
      <4>1. ASSUME NEW b \in E PROVE pos[b] \in 2..K
        <5>1. /\ call.cur # noBlockLink /\ call.cur \in E /\ pos[call.cur] <= pos[b]
              /\ first \in freeBlocks
          BY <2>1, <2>4
        <5>2. first # call.cur
          BY <1>8, <5>1
        <5>3. pos[call.cur] # 1
          BY <2>1, <5>1, <5>2
        <5>4. pos[call.cur] \in 1..K /\ pos[b] \in 1..K
          BY <1>8, <5>1
        <5> HIDE DEF E, K
        <5> QED
          BY <1>4, <5>1, <5>3, <5>4
      <4> QED
        BY <4>1
    <3>2. LostByOne(E)
      <4> HIDE DEF E
      <4>1. \A b \in E : pos[b] \in 2..extents(disk, inodeIndices, s)
        BY <3>1
      <4> QED
        BY <1>1, <1>8, <4>1 DEF LostByOne
    <3>3. first \in freeOrNone /\ first \notin {}
      BY <2>1, <2>4 DEF freeOrNone
    <3>4. Strung(pos, {}, first)
      BY <3>3 DEF Strung
    <3>5. CutAt(lost \cup E, s, own, pos, {})
      <4>1. (lost \cup E) \cup {} = lost \cup E
        OBVIOUS
      <4> HIDE DEF E
      <4> QED
        BY <1>1, <1>7, <4>1 DEF CutAt
    <3> HIDE DEF E
    <3>6. E \in SUBSET Blocks /\ lost \cup E \subseteq Blocks \ freeBlocks
      BY <1>8, <1>9
    <3> QED
      BY <3>2, <3>4, <3>5, <3>6
  <2> QED
    BY <2>1, <2>3, <2>4
<1>14. CASE call.pc = "writeBlocks"
  <2>1. /\ call.cur \in freeBlocks
        /\ tail \in placed(disk, lost) /\ own[tail] = s
        /\ pos[tail] + toWrite = K
        /\ disk[tail].nextBlock = call.cur
        /\ \A b \in placed(disk, lost) : (own[b] = s) => pos[b] <= pos[tail]
        /\ call.buf # <<>>
    BY <1>2, <1>14 DEF Writing
  <2>2. toWrite \in Nat \ {0} /\ pos[tail] \in Nat /\ pos[tail] < K
    <3>1. call.buf \in Seq(Byte) /\ Len(call.buf) \in Nat /\ Len(call.buf) # 0
      BY <1>3, <2>1 DEF Locals
    <3>2. toWrite \in Nat \ {0}
      BY <3>1, BlocksFor DEF toWrite
    <3>3. pos[tail] \in Nat
      BY <2>1 DEF placed
    <3> HIDE DEF K
    <3> QED
      BY <1>4, <2>1, <3>2, <3>3
  <2>3. call.cur \in freeOrNone /\ call.cur \notin E
    BY <1>8, <2>1 DEF freeOrNone
  <2>4. IF first \in E THEN \A b \in E : pos[first] <= pos[b]
        ELSE E = {} /\ first \in freeOrNone
    <3>1. CASE tail = inodeIndices[s]
      <4>1. pos[tail] = 0 /\ first = call.cur
        BY <1>5, <2>1, <3>1 DEF inodeOf
      <4>2. \A b \in E : pos[b] <= 0 /\ pos[b] \in 1..K
        BY <1>8, <2>1, <4>1
      <4>3. E = {}
        <5> HIDE DEF E, K
        <5> QED
          BY <1>4, <4>2
      <4> QED
        BY <2>3, <4>1, <4>3
    <3>2. CASE tail # inodeIndices[s]
      <4>1. 0 # K
        BY <2>2
      <4>2. first \in placed(disk, lost) /\ own[first] = s /\ pos[first] = 1
        <5>1. inodeIndices[s] \in placed(disk, lost) \ {tail}
          BY <1>5, <3>2
        <5>2. LET next == disk[inodeIndices[s]].nextBlock
              IN IF 0 = K THEN next = noBlockLink
                 ELSE next \in placed(disk, lost) /\ own[next] = s /\ pos[next] = 0 + 1
          BY <1>2, <1>5, <5>1 DEF IsLayout, Linked
        <5> QED
          BY <4>1, <5>2 DEF inodeOf
      <4>3. first \in E
        BY <4>2
      <4>4. \A b \in E : pos[b] >= 1
        BY <1>4, <1>8
      <4> QED
        BY <4>2, <4>3, <4>4
    <3> QED
      BY <3>1, <3>2
  <2>5. ASSUME NEW b \in E
        PROVE  LET next == disk[b].nextBlock
               IN IF next \in E THEN pos[next] = pos[b] + 1
                  ELSE next \in freeOrNone /\ \A c \in E : pos[c] <= pos[b]
    <3>1. \A c \in E : pos[c] <= pos[tail]
      BY <2>1
    <3>2. CASE b = tail
      BY <2>1, <2>3, <3>1, <3>2
    <3>3. CASE b # tail
      <4>1. LET next == disk[b].nextBlock
            IN IF pos[b] = K THEN next = noBlockLink
               ELSE next \in E /\ pos[next] = pos[b] + 1
        BY <1>11, <3>3
      <4>2. pos[b] # K
        <5>1. pos[b] <= pos[tail] /\ pos[b] \in Nat
          BY <1>8, <3>1
        <5> HIDE DEF K
        <5> QED
          BY <1>4, <2>2, <5>1
      <4> QED
        BY <4>1, <4>2
    <3> QED
      BY <3>2, <3>3
  <2>6. Strung(pos, E, first)
    <3> HIDE DEF E
    <3> QED
      BY <1>8, <2>4, <2>5 DEF Strung
  <2>7. CutAt(lost \cup {}, s, own, pos, E)
    BY <1>1, <1>7, <1>8 DEF CutAt
  <2> HIDE DEF E
  <2>8. E \in SUBSET Blocks
    BY <1>8
  <2> QED
    BY <1>9, <1>10, <2>6, <2>7, <2>8
<1> QED
  BY <1>13, <1>14

\* A write or a deletion that is cut off while it erases or writes blocks.
LEMMA FileCutOff ==
  ASSUME NEW CONSTANT lost, NEW CONSTANT tidy, Inv, CarefulInv(lost, tidy),
         call.pc \in {"eraseFileData", "writeBlocks"},
         UNCHANGED diskVars, call' = NoCall,
         openFiles' = openFiles \/ DOMAIN openFiles' = {},
         NEW CONSTANT n, n = openFiles[call.fd].fileName
  PROVE  \E G \in SUBSET Blocks : LostByOne(G) /\ TornInv(lost \cup G, n)'
<1>1. PICK s \in Slots : s = busySlot
  BY BusyFile
<1>2. PICK G \in SUBSET Blocks, own \in [Blocks -> Slots], pos \in [Blocks -> Nat],
           rest \in SUBSET Blocks :
        /\ LostByOne(G) /\ lost \cup G \subseteq Blocks \ freeBlocks
        /\ CutAt(lost \cup G, s, own, pos, rest)
        /\ Strung(pos, rest, inodeOf(s).nextBlock)
  BY <1>1, CutFile
<1>3. /\ disk' = disk /\ inodeIndices' = inodeIndices /\ freeBlocks' = freeBlocks
      /\ usedSlots' = usedSlots
  BY NoFileChanged DEF diskVars
<1>4. inodeOf(s).fileName = n
  BY <1>1, BusyFile DEF CarefulInv, TableOK, busySlot
<1>5. \A fd \in DOMAIN openFiles' : Fresh(openFiles[fd]) /\ openFiles'[fd] = openFiles[fd]
  BY DEF CarefulInv, TableOK, Fresh
<1>6. Cut(lost \cup G, n, s, own, pos, rest)'
  BY <1>2, <1>3, <1>4, <1>5 DEF Cut, CutAt, Strung, Fresh, inodeOf, freeOrNone
<1>7. NamesOK' /\ TableApart'
  BY <1>3 DEF CarefulInv, NamesOK, TableOK, TableApart, inodeOf
<1>8. TornInv(lost \cup G, n)'
  BY <1>2, <1>3, <1>6, <1>7 DEF TornInv
<1> QED
  BY <1>2, <1>8

-----------------------------------------------------------------------------
(* The torn file                                                           *)

\* The torn file or a descriptor of it is there; only a write or a deletion of it is
\* in progress, and all other descriptors agree with their files.
StillThere(n) ==
  /\ ~gone(n)
  /\ call = NoCall \/ (/\ call.pc \in {"eraseFileData", "freeInode"}
                       /\ call.op \in {"writeFile", "deleteFile"}
                       /\ openFiles[call.fd].fileName = n)
  /\ \A s \in usedSlots : safeReadBlock(inodeIndices[s], {INODE_ID}) = 0
  /\ \A fd \in DOMAIN openFiles :
       openFiles[fd].inodeLinkIndex \in usedSlots => Fresh(openFiles[fd])

\* What TornInv says of a torn file, without the layout.
LEMMA TornHere ==
  ASSUME NEW CONSTANT lost, NEW CONSTANT n
  PROVE  TornInv(lost, n) => StillThere(n)
<1> SUFFICES ASSUME TornInv(lost, n) PROVE StillThere(n)
  OBVIOUS
<1>1. PICK s \in Slots, own \in [Blocks -> Slots], pos \in [Blocks -> Nat] :
        \/ \E rest \in SUBSET Blocks : Cut(lost, n, s, own, pos, rest)
        \/ Stale(lost, n, s, own, pos)
  BY DEF TornInv
<1>2. ASSUME NEW F, NEW tail, IsLayout(disk, inodeIndices, own, pos, F, tail)
      PROVE  \A t \in usedSlots : /\ safeReadBlock(inodeIndices[t], {INODE_ID}) = 0
                                  /\ isFile(t)
  <2> SUFFICES ASSUME NEW t \in usedSlots
               PROVE  safeReadBlock(inodeIndices[t], {INODE_ID}) = 0 /\ isFile(t)
    OBVIOUS
  <2>1. t \in Slots /\ inodeIndices[t] # noBlockLink
    BY DEF usedSlots
  <2>2. inodeIndices[t] \in placed(disk, F) /\ disk[inodeIndices[t]].blockID = INODE_ID
    BY <1>2, <2>1, InodesPlaced
  <2> QED
    BY <2>2 DEF placed, safeReadBlock, isFile, inodeOf
<1>3. CASE \E rest \in SUBSET Blocks : Cut(lost, n, s, own, pos, rest)
  <2>1. PICK rest \in SUBSET Blocks : Cut(lost, n, s, own, pos, rest)
    BY <1>3
  <2>2. \A t \in usedSlots : safeReadBlock(inodeIndices[t], {INODE_ID}) = 0 /\ isFile(t)
    BY <1>2, <2>1 DEF Cut, CutAt
  <2>3. s \in usedSlots /\ inodeOf(s).fileName = n
    BY <2>1 DEF Cut, CutAt
  <2>4. ~gone(n)
    BY <2>2, <2>3 DEF gone
  <2> QED
    BY <2>1, <2>2, <2>4 DEF Cut, CutErasing, Mending, StillThere
<1>4. CASE Stale(lost, n, s, own, pos)
  <2>1. \A t \in usedSlots : safeReadBlock(inodeIndices[t], {INODE_ID}) = 0
    BY <1>2, <1>4 DEF Stale
  <2>2. ~gone(n)
    <3>1. PICK fd \in DOMAIN openFiles : openFiles[fd].inodeLinkIndex = s
      BY <1>4 DEF Stale
    <3>2. fd \in openUnder(n)
      BY <1>4, <3>1 DEF Stale, openUnder
    <3> QED
      BY <3>2 DEF gone
  <2>3. \A fd \in DOMAIN openFiles :
          openFiles[fd].inodeLinkIndex \in usedSlots => Fresh(openFiles[fd])
    BY <1>4 DEF Stale, unusedSlots
  <2> QED
    BY <1>4, <2>1, <2>2, <2>3 DEF Stale, Mending, StillThere
<1> QED
  BY <1>1, <1>3, <1>4

\* A file that is torn after a step is not gone after it.
LEMMA TornHereAfter ==
  ASSUME NEW CONSTANT lost, NEW CONSTANT n, TornInv(lost, n)'
  PROVE  ~gone(n)'
<1>1. (TornInv(lost, n) => StillThere(n))'
  BY TornHere, PTL
<1> QED
  BY <1>1 DEF StillThere

\* Between two calls the disk keeps a file torn, whatever becomes of the open list.
LEMMA CutStays ==
  ASSUME NEW CONSTANT lost, NEW CONSTANT n, TornInv(lost, n), idle,
         NEW CONSTANT s \in Slots,
         NEW CONSTANT own \in [Blocks -> Slots], NEW CONSTANT pos \in [Blocks -> Nat],
         NEW CONSTANT rest \in SUBSET Blocks, Cut(lost, n, s, own, pos, rest),
         UNCHANGED diskVars, call' = NoCall,
         \A fd \in DOMAIN openFiles' : Fresh(openFiles'[fd]), TableApart'
  PROVE  TornInv(lost, n)'
<1>1. /\ disk' = disk /\ inodeIndices' = inodeIndices /\ freeBlocks' = freeBlocks
      /\ usedSlots' = usedSlots
  BY NoFileChanged DEF diskVars
<1>2. CutAt(lost, s, own, pos, rest) /\ inodeOf(s).fileName = n
      /\ Strung(pos, rest, inodeOf(s).nextBlock)
  BY DEF Cut, CutErasing, idle
<1>3. Cut(lost, n, s, own, pos, rest)'
  BY <1>1, <1>2 DEF Cut, CutAt, Strung, Fresh, inodeOf, freeOrNone
<1>4. NamesOK' /\ lost \subseteq Blocks \ freeBlocks'
  BY <1>1 DEF TornInv, NamesOK, inodeOf
<1> QED
  BY <1>3, <1>4 DEF TornInv

\* And a file that is gone as long as its descriptor is there.
LEMMA StaleStays ==
  ASSUME NEW CONSTANT lost, NEW CONSTANT n, TornInv(lost, n),
         NEW CONSTANT s \in Slots,
         NEW CONSTANT own \in [Blocks -> Slots], NEW CONSTANT pos \in [Blocks -> Nat],
         Stale(lost, n, s, own, pos),
         UNCHANGED diskVars, call' = NoCall,
         \E fd \in DOMAIN openFiles' : openFiles'[fd].inodeLinkIndex = s,
         \A fd \in DOMAIN openFiles' :
           \/ openFiles'[fd].inodeLinkIndex # s /\ Fresh(openFiles'[fd])
           \/ fd \in DOMAIN openFiles /\ openFiles'[fd] = openFiles[fd],
         TableApart'
  PROVE  TornInv(lost, n)'
<1>1. /\ disk' = disk /\ inodeIndices' = inodeIndices /\ freeBlocks' = freeBlocks
      /\ usedSlots' = usedSlots
  BY NoFileChanged DEF diskVars
<1>2. \A fd \in DOMAIN openFiles' :
        IF openFiles'[fd].inodeLinkIndex = s
        THEN openFiles'[fd].fileName = n /\ openFiles'[fd].nextBlockIndex \in freeOrNone
        ELSE Fresh(openFiles'[fd])
  BY DEF Stale
<1>3. Stale(lost, n, s, own, pos)'
  BY <1>1, <1>2 DEF Stale, Fresh, inodeOf, freeOrNone, unusedSlots
<1>4. NamesOK' /\ lost \subseteq Blocks \ freeBlocks'
  BY <1>1 DEF TornInv, NamesOK, inodeOf
<1> QED
  BY <1>3, <1>4 DEF TornInv

\* When its last descriptor is gone, the rest is as if it had never been.
LEMMA StaleEnds ==
  ASSUME NEW CONSTANT lost, NEW CONSTANT n, TornInv(lost, n),
         NEW CONSTANT s \in Slots,
         NEW CONSTANT own \in [Blocks -> Slots], NEW CONSTANT pos \in [Blocks -> Nat],
         Stale(lost, n, s, own, pos),
         UNCHANGED diskVars, call' = NoCall,
         \A fd \in DOMAIN openFiles' : /\ fd \in DOMAIN openFiles /\ openFiles'[fd] = openFiles[fd]
                                       /\ openFiles[fd].inodeLinkIndex # s
  PROVE  CarefulInv(lost, FALSE)' /\ gone(n)'
<1>1. /\ disk' = disk /\ inodeIndices' = inodeIndices /\ freeBlocks' = freeBlocks
      /\ usedSlots' = usedSlots
  BY NoFileChanged DEF diskVars
<1>2. \A fd \in DOMAIN openFiles' : Fresh(openFiles'[fd])
  BY DEF Stale
<1>3. TableOK' /\ NamesOK'
  <2>1. TableOK'
    BY <1>1, <1>2 DEF TornInv, TableApart, TableOK, Fresh, inodeOf
  <2>2. NamesOK'
    BY <1>1 DEF TornInv, NamesOK, inodeOf
  <2> QED
    BY <2>1, <2>2
<1>4. IsLayout(disk', inodeIndices', own, pos, lost, 0) /\ lost \subseteq Blocks \ freeBlocks'
  BY <1>1 DEF Stale, TornInv, noBlockLink
<1>5. CarefulInv(lost, FALSE)'
  BY <1>3, <1>4, Ended
<1>6. gone(n)'
  <2>1. \A t \in usedSlots : inodeOf(t).fileName # n
    BY DEF Stale
  <2>2. \A fd \in DOMAIN openFiles' : openFiles'[fd].fileName # n
    BY <1>2, <2>1 DEF Fresh
  <2> QED
    BY <1>1, <2>1, <2>2 DEF gone, openUnder, isFile, inodeOf
<1> QED
  BY <1>5, <1>6

\* The process dies, or the call returns at once.
CutOff ==
  /\ UNCHANGED diskVars /\ call' = NoCall
  /\ openFiles' = openFiles \/ DOMAIN openFiles' = {}

\* A torn file is still torn when a call with it is cut off; one that is gone is
\* forgotten with its descriptors.
LEMMA TornCutOff ==
  ASSUME NEW CONSTANT lost, NEW CONSTANT n, TornInv(lost, n), CutOff
  PROVE  \E G \in SUBSET Blocks :
           /\ LostByOne(G)
           /\ \/ TornInv(lost \cup G, n)'
              \/ CarefulInv(lost \cup G, FALSE)' /\ gone(n)'
<1>1. PICK s \in Slots, own \in [Blocks -> Slots], pos \in [Blocks -> Nat] :
        \/ \E rest \in SUBSET Blocks : Cut(lost, n, s, own, pos, rest)
        \/ Stale(lost, n, s, own, pos)
  BY DEF TornInv
<1>2. /\ disk' = disk /\ inodeIndices' = inodeIndices /\ freeBlocks' = freeBlocks
      /\ usedSlots' = usedSlots
  BY NoFileChanged DEF CutOff, diskVars
<1>3. NamesOK' /\ TableApart' /\ lost \subseteq Blocks \ freeBlocks
  BY <1>2 DEF TornInv, NamesOK, TableApart, inodeOf, CutOff
<1>4. LostByOne({}) /\ {} \in SUBSET Blocks /\ lost \cup {} = lost
  BY DEF LostByOne
<1>5. ASSUME NEW rest \in SUBSET Blocks, Cut(lost, n, s, own, pos, rest)
      PROVE  \E G \in SUBSET Blocks : LostByOne(G) /\ TornInv(lost \cup G, n)'
  <2>1. \A fd \in DOMAIN openFiles' : Fresh(openFiles[fd]) /\ openFiles'[fd] = openFiles[fd]
    BY <1>5 DEF Cut, CutOff
  <2>2. CutAt(lost, s, own, pos, rest) /\ inodeOf(s).fileName = n
    BY <1>5 DEF Cut
  <2>3. CASE Strung(pos, rest, inodeOf(s).nextBlock)
    <3>1. Cut(lost, n, s, own, pos, rest)'
      BY <1>2, <2>1, <2>2, <2>3 DEF Cut, CutAt, Strung, Fresh, inodeOf, freeOrNone, CutOff
    <3>2. TornInv(lost, n)'
      BY <1>2, <1>3, <3>1 DEF TornInv
    <3> QED
      BY <1>4, <3>2
  <2>4. CASE inodeOf(s).nextBlock \in freeBlocks /\ \A b \in rest : pos[b] # 1
    <3>1. CutAt(lost \cup rest, s, own, pos, {})
      <4>1. (lost \cup rest) \cup {} = lost \cup rest
        OBVIOUS
      <4> QED
        BY <2>2, <4>1 DEF CutAt
    <3>2. Strung(pos, {}, inodeOf(s).nextBlock)
      BY <2>4 DEF Strung, freeOrNone
    <3>3. Cut(lost \cup rest, n, s, own, pos, {})'
      BY <1>2, <2>1, <2>2, <3>1, <3>2 DEF Cut, CutAt, Strung, Fresh, inodeOf, freeOrNone, CutOff
    <3>4. TornInv(lost \cup rest, n)'
      <4>1. lost \cup rest \subseteq Blocks \ freeBlocks'
        BY <1>2, <1>3, <2>2 DEF CutAt
      <4> QED
        BY <1>3, <3>3, <4>1 DEF TornInv
    <3>5. LostByOne(rest)
      <4>1. CASE rest = {}
        BY <4>1 DEF LostByOne
      <4>2. CASE rest # {}
        <5>1. \A b, c \in rest : pos[b] = pos[c] => b = c
          BY <1>5, <4>2 DEF Cut, CutErasing, Strung
        <5>2. \A b \in rest : pos[b] \in 2..extents(disk, inodeIndices, s)
          <6>1. \A b \in rest : pos[b] \in 1..extents(disk, inodeIndices, s) /\ pos[b] # 1
            BY <2>2, <2>4 DEF CutAt
          <6> QED
            BY <6>1
        <5>3. s \in usedSlots
          BY <2>2 DEF CutAt
        <5> QED
          BY <5>1, <5>2, <5>3 DEF LostByOne
      <4> QED
        BY <4>1, <4>2
    <3> QED
      BY <3>4, <3>5
  <2> QED
    BY <1>5, <2>3, <2>4 DEF Cut, CutErasing
<1>6. CASE Stale(lost, n, s, own, pos)
  <2>1. CASE openFiles' = openFiles
    <3>1. \A fd \in DOMAIN openFiles' : fd \in DOMAIN openFiles /\ openFiles'[fd] = openFiles[fd]
      BY <2>1
    <3>2. \E fd \in DOMAIN openFiles' : openFiles'[fd].inodeLinkIndex = s
      BY <1>6, <2>1 DEF Stale
    <3>3. TornInv(lost, n)'
      BY <1>3, <1>6, <3>1, <3>2, StaleStays DEF CutOff
    <3> QED
      BY <1>4, <3>3
  <2>2. CASE DOMAIN openFiles' = {}
    <3>1. CarefulInv(lost, FALSE)' /\ gone(n)'
      BY <1>6, <2>2, StaleEnds DEF CutOff
    <3> QED
      BY <1>4, <3>1
  <2> QED
    BY <2>1, <2>2 DEF CutOff
<1> QED
  BY <1>1, <1>5, <1>6

\* A file that has no descriptor gets one that agrees with its inode.
LEMMA Reopened ==
  ASSUME Inv, TableApart, NEW CONSTANT fname, openUnder(fname) = {}, UNCHANGED diskVars,
         \A fd \in DOMAIN openFiles :
           openFiles[fd].inodeLinkIndex \in usedSlots => Fresh(openFiles[fd]),
         NEW CONSTANT slot \in usedSlots, inodeOf(slot).fileName = fname,
         openFDs_add(inodeOf(slot).fileSize, fname, slot, inodeOf(slot).nextBlock)
  PROVE  /\ DOMAIN openFiles' = DOMAIN openFiles \cup {currentFD}
         /\ \A fd \in DOMAIN openFiles : openFiles'[fd] = openFiles[fd]
         /\ currentFD \notin DOMAIN openFiles
         /\ openFiles'[currentFD].inodeLinkIndex = slot
         /\ Fresh(openFiles'[currentFD])
         /\ TableApart'
<1>1. /\ DOMAIN openFiles' = DOMAIN openFiles \cup {currentFD}
      /\ currentFD \notin DOMAIN openFiles
      /\ \A fd \in DOMAIN openFiles : openFiles'[fd] = openFiles[fd]
      /\ openFiles'[currentFD] =
           [location |-> 0, inodeLinkIndex |-> slot, nextBlockIndex |-> inodeOf(slot).nextBlock,
            fileSize |-> inodeOf(slot).fileSize, fileName |-> fname]
  BY DiskAssumption DEF openFDs_add, Inv, TypeOK, OpenListOK
<1>2. Fresh(openFiles'[currentFD]) /\ openFiles'[currentFD].inodeLinkIndex = slot
  BY <1>1 DEF Fresh
<1>3. \A fd \in DOMAIN openFiles : openFiles[fd].inodeLinkIndex # slot
  <2> SUFFICES ASSUME NEW fd \in DOMAIN openFiles, openFiles[fd].inodeLinkIndex = slot PROVE FALSE
    OBVIOUS
  <2>1. openFiles[fd].fileName = fname
    BY DEF Fresh
  <2> QED
    BY <2>1 DEF openUnder
<1>4. TableApart'
  BY <1>1, <1>2, <1>3 DEF TableApart
<1> QED
  BY <1>1, <1>2, <1>4

\* The file is whole, so its new entry agrees with its inode.
LEMMA ReopenedCareful ==
  ASSUME NEW CONSTANT lost, NEW CONSTANT tidy, Inv, CarefulInv(lost, tidy), idle,
         NEW CONSTANT fname, openUnder(fname) = {}, searchSB(fname).code = 1,
         NEW CONSTANT slot, slot = searchSB(fname).slot,
         openFDs_add(inodeOf(slot).fileSize, fname, slot, inodeOf(slot).nextBlock),
         UNCHANGED diskVars, call' = NoCall
  PROVE  CarefulInv(lost, tidy)'
<1>1. /\ disk' = disk /\ inodeIndices' = inodeIndices /\ freeBlocks' = freeBlocks
      /\ usedSlots' = usedSlots
  BY NoFileChanged DEF diskVars
<1>2. slot \in usedSlots /\ inodeOf(slot).fileName = fname
  BY SearchSBFound
<1>3. TableApart /\ \A fd \in DOMAIN openFiles : Fresh(openFiles[fd])
  BY DEF CarefulInv, TableOK, TableApart, Fresh, idle
<1>4. /\ DOMAIN openFiles' = DOMAIN openFiles \cup {currentFD}
      /\ \A fd \in DOMAIN openFiles : openFiles'[fd] = openFiles[fd]
      /\ Fresh(openFiles'[currentFD]) /\ TableApart'
  BY <1>2, <1>3, Reopened
<1>5. \A fd \in DOMAIN openFiles' : Fresh(openFiles'[fd])
  BY <1>3, <1>4
<1>6. TableOK'
  BY <1>1, <1>4, <1>5 DEF TableOK, TableApart, Fresh, inodeOf
<1>7. NamesOK'
  BY <1>1 DEF CarefulInv, NamesOK, inodeOf
<1>8. PICK own \in [Blocks -> Slots], pos \in [Blocks -> Nat] :
        IsLayout(disk, inodeIndices, own, pos, lost, 0)
  BY Settled DEF idle
<1>9. lost \subseteq Blocks \ freeBlocks'
  BY <1>1, StillLost
<1> QED
  BY <1>1, <1>6, <1>7, <1>8, <1>9, Ended

\* The file may be the torn one; its new entry agrees with its inode all the same.
LEMMA ReopenedTorn ==
  ASSUME NEW CONSTANT lost, NEW CONSTANT n, Inv, TornInv(lost, n), idle,
         NEW CONSTANT fname, openUnder(fname) = {}, searchSB(fname).code = 1,
         NEW CONSTANT slot, slot = searchSB(fname).slot,
         openFDs_add(inodeOf(slot).fileSize, fname, slot, inodeOf(slot).nextBlock),
         UNCHANGED diskVars, call' = NoCall
  PROVE  TornInv(lost, n)'
<1>1. StillThere(n)
  BY TornHere
<1>2. slot \in usedSlots /\ inodeOf(slot).fileName = fname
  BY <1>1, SearchSBFinds DEF StillThere
<1>3. /\ DOMAIN openFiles' = DOMAIN openFiles \cup {currentFD}
      /\ \A fd \in DOMAIN openFiles : openFiles'[fd] = openFiles[fd]
      /\ openFiles'[currentFD].inodeLinkIndex = slot
      /\ Fresh(openFiles'[currentFD]) /\ TableApart'
  BY <1>1, <1>2, Reopened DEF StillThere, TornInv
<1>4. PICK s \in Slots, own \in [Blocks -> Slots], pos \in [Blocks -> Nat] :
        \/ \E rest \in SUBSET Blocks : Cut(lost, n, s, own, pos, rest)
        \/ Stale(lost, n, s, own, pos)
  BY DEF TornInv
<1>5. CASE \E rest \in SUBSET Blocks : Cut(lost, n, s, own, pos, rest)
  <2>1. PICK rest \in SUBSET Blocks : Cut(lost, n, s, own, pos, rest)
    BY <1>5
  <2>2. \A fd \in DOMAIN openFiles' : Fresh(openFiles'[fd])
    BY <1>3, <2>1 DEF Cut
  <2> QED
    BY <1>3, <2>1, <2>2, CutStays
<1>6. CASE Stale(lost, n, s, own, pos)
  <2>1. slot # s
    BY <1>2, <1>6 DEF Stale, unusedSlots
  <2>2. \A fd \in DOMAIN openFiles' :
          \/ openFiles'[fd].inodeLinkIndex # s /\ Fresh(openFiles'[fd])
          \/ fd \in DOMAIN openFiles /\ openFiles'[fd] = openFiles[fd]
    BY <1>3, <2>1
  <2>3. \E fd \in DOMAIN openFiles' : openFiles'[fd].inodeLinkIndex = s
    BY <1>3, <1>6 DEF Stale
  <2> QED
    BY <1>3, <1>6, <2>2, <2>3, StaleStays
<1> QED
  BY <1>4, <1>5, <1>6

\* A walk that is given up goes on with the next slot; all blocks are where they were.
LEMMA WalkGivenUp ==
  ASSUME NEW CONSTANT lost, Inv, CarefulInv(lost, FALSE), call.pc = "iterateFEs", IterateFEsFails
  PROVE  CarefulInv(lost, FALSE)'
<1>1. call.op = "defrag"
  BY OpOfPhase DEF CarefulInv
<1>2. call \in Locals
  BY Types
<1>3. call'.op = "defrag" /\ call'.pc = "defragInode"
  BY <1>1, <1>2 DEF IterateFEsFails, nextSlot, Locals
<1>4. /\ disk' = disk /\ inodeIndices' = inodeIndices /\ openFiles' = openFiles
      /\ freeBlocks' = freeBlocks /\ usedSlots' = usedSlots
  BY NoFileChanged DEF IterateFEsFails, diskVars, openList
<1>5. PICK own \in [Blocks -> Slots], pos \in [Blocks -> Nat] :
        IsLayout(disk, inodeIndices, own, pos, afloat(lost), 0)
  BY <1>1, AtDefrag
<1>6. floating = {} /\ floating' = {}
  BY <1>3 DEF floating
<1>7. IsLayout(disk', inodeIndices', own, pos, afloat(lost)', 0)
  BY <1>4, <1>5, <1>6 DEF afloat
<1>8. DOMAIN openFiles' = {}
  BY <1>1, <1>4, AtDefrag
<1>9. NamesOK' /\ LostOK(lost)'
  BY <1>4, <1>6 DEF CarefulInv, NamesOK, LostOK, inodeOf
<1>10. Moving(lost, FALSE, own, pos)'
  BY <1>3, <1>8 DEF Moving, Compacted
<1> QED
  BY <1>3, <1>7, <1>8, <1>9, <1>10, DefragGoesOn

\* What a fault does to files that all have their blocks.
LEMMA CarefulCutOff ==
  ASSUME Habits = {}, NEW CONSTANT lost, Inv, CarefulInv(lost, FALSE), CutOff
  PROVE  \E G \in SUBSET Blocks :
           /\ LostByOne(G)
           /\ \/ tearing = {} /\ CarefulInv(lost \cup G, FALSE)'
              \/ \E n \in Name :
                   /\ tearing = {n}
                   /\ \/ TornInv(lost \cup G, n)'
                      \/ CarefulInv(lost \cup G, FALSE)' /\ gone(n)'
<1>1. CASE call.pc \in {"eraseFileData", "writeBlocks"}
  <2>1. PICK n \in Name : n = openFiles[call.fd].fileName
    BY <1>1, OpenFileFields DEF Inv, TypeOK, LocalsOK, isOpen
  <2>2. PICK G \in SUBSET Blocks : LostByOne(G) /\ TornInv(lost \cup G, n)'
    BY <1>1, <2>1, FileCutOff DEF CutOff
  <2>3. tearing = {n}
    BY <1>1, <2>1 DEF tearing
  <2> QED
    BY <2>2, <2>3
<1>2. CASE call.pc = "freeInode"
  <2>1. PICK n \in Name : n = openFiles[call.fd].fileName
    BY <1>2, OpenFileFields DEF Inv, TypeOK, LocalsOK, isOpen
  <2>2. tearing = {n}
    BY <1>2, <2>1 DEF tearing
  <2>3. CASE openFiles' = openFiles
    <3>1. PICK G \in SUBSET Blocks : LostByOne(G) /\ TornInv(lost \cup G, n)'
      BY <1>2, <2>1, <2>3, DeletionCutOff DEF CutOff, diskVars
    <3> QED
      BY <2>2, <3>1
  <2>4. CASE DOMAIN openFiles' = {}
    <3>1. TableOK'
      BY <2>4, TableStays DEF CutOff
    <3>2. PICK G \in SUBSET Blocks : LostByOne(G) /\ CarefulInv(lost \cup G, FALSE)'
      BY <1>2, <3>1, GivesUp DEF CutOff
    <3>3. gone(n)'
      <4>1. \A t \in usedSlots : inodeOf(t).fileName # n
        BY <1>2, <2>1 DEF CarefulInv, PhaseOK
      <4>2. usedSlots' = usedSlots /\ disk' = disk /\ inodeIndices' = inodeIndices
        BY NoFileChanged DEF CutOff, diskVars
      <4> QED
        BY <2>4, <4>1, <4>2 DEF gone, openUnder, inodeOf
    <3> QED
      BY <2>2, <3>2, <3>3
  <2> QED
    BY <2>3, <2>4 DEF CutOff
<1>3. CASE call.pc \notin {"eraseFileData", "writeBlocks", "freeInode"}
  <2>1. TableOK'
    BY <1>3, TableStays DEF CutOff
  <2>2. PICK G \in SUBSET Blocks : LostByOne(G) /\ CarefulInv(lost \cup G, FALSE)'
    BY <1>3, <2>1, GivesUp DEF CutOff
  <2>3. tearing = {}
    BY <1>3 DEF tearing
  <2> QED
    BY <2>2, <2>3
<1> QED
  BY <1>1, <1>2, <1>3

\* A file that exists is opened, which writes no block.
Reopening ==
  /\ idle /\ UNCHANGED diskVars /\ call' = NoCall
  /\ \E fname \in Name :
       /\ openUnder(fname) = {} /\ searchSB(fname).code = 1
       /\ LET slot == searchSB(fname).slot
          IN openFDs_add(inodeOf(slot).fileSize, fname, slot, inodeOf(slot).nextBlock)

\* All faults but those of swapFileExtent's last two writes are of three kinds: the call is
\* cut off, it ends with a file opened, or the walk over a file's extents is given up.
LEMMA FaultKinds ==
  ASSUME FailPoints \cap swapFileExtentPoints = {}, Inv, Restart \/ AccessFails
  PROVE  CutOff \/ Reopening \/ (call.pc = "iterateFEs" /\ IterateFEsFails)
<1>1. CASE Restart
  <2>1. DOMAIN openFiles' = {}
    BY <1>1 DEF Restart, openFDs_Reset
  <2> QED
    BY <1>1, <2>1 DEF Restart, CutOff
<1>2. ASSUME NEW code, Fail(code)
      PROVE  CutOff
  BY <1>2 DEF Fail, Return, CutOff, diskVars
<1>3. CASE CallFails \/ StepFails \/ DisplayFails
  BY <1>2, <1>3, FailureCodes
<1>4. ASSUME NEW name \in UserNames, ChangePermissionsFails(name)
      PROVE  CutOff \/ Reopening
  <2> DEFINE fname == formatName(name)
             found == searchSB(fname)
             in    == disk[inodeIndices[found.slot]]
  <2>1. CASE Fail(ENOSPC)
    BY <1>2, <2>1
  <2>2. CASE /\ openUnder(fname) = {} /\ found.code = 1
             /\ openFDs_add(in.fileSize, fname, found.slot, in.nextBlock)
             /\ Return(ENOSPC)
             /\ UNCHANGED <<diskVars, mounted>>
    <3>1. fname \in Name /\ idle /\ call' = NoCall /\ in = inodeOf(found.slot)
      BY <1>4, <2>2, Inputs DEF ChangePermissionsFails, Ready, Return, inodeOf
    <3> QED
      BY <2>2, <3>1 DEF Reopening
  <2> QED
    BY <1>4, <2>1, <2>2 DEF ChangePermissionsFails
<1>5. CASE call.pc \in FailPoints /\ IterateFEsFails
  BY <1>5 DEF IterateFEsFails, swapFileExtentPoints
<1>6. "findFreeBlock" \notin FailPoints
  BY DEF swapFileExtentPoints
<1> QED
  BY <1>1, <1>3, <1>4, <1>5, <1>6 DEF AccessFails

\* A fault leaves the disk as it is, and takes one thing at most from the files.
LEMMA FaultKeeps ==
  ASSUME Habits = {}, FailPoints \cap swapFileExtentPoints = {},
         NEW CONSTANT lost, Inv, TornOK(lost), Restart \/ AccessFails,
         torn' = {m \in torn \cup tearing : ~gone(m)'}
  PROVE  UNCHANGED diskVars /\ \E G \in SUBSET Blocks : LostByOne(G) /\ TornOK(lost \cup G)'
<1>1. CutOff \/ Reopening \/ (call.pc = "iterateFEs" /\ IterateFEsFails)
  BY FaultKinds
<1>2. UNCHANGED diskVars
  BY <1>1 DEF CutOff, Reopening, IterateFEsFails
<1>3. LostByOne({}) /\ {} \in SUBSET Blocks /\ lost \cup {} = lost
  BY DEF LostByOne
<1>4. ASSUME NEW CONSTANT n \in Name, torn = {n}, TornInv(lost, n)
      PROVE  \E G \in SUBSET Blocks : LostByOne(G) /\ TornOK(lost \cup G)'
  <2>1. StillThere(n)
    BY <1>4, TornHere
  <2>2. tearing \subseteq {n}
    BY <2>1 DEF StillThere, tearing, NoCall
  <2>3. torn' = {m \in {n} : ~gone(m)'}
    BY <1>4, <2>2
  <2>4. ASSUME NEW CONSTANT M, TornInv(M, n)'
        PROVE  TornOK(M)'
    <3>1. ~gone(n)'
      BY <2>4, TornHereAfter
    <3> QED
      BY <2>3, <2>4, <3>1 DEF TornOK
  <2>5. CASE CutOff
    <3>1. PICK G \in SUBSET Blocks :
            /\ LostByOne(G)
            /\ TornInv(lost \cup G, n)' \/ (CarefulInv(lost \cup G, FALSE)' /\ gone(n)')
      BY <1>4, <2>5, TornCutOff
    <3>2. CASE TornInv(lost \cup G, n)'
      BY <2>4, <3>1, <3>2
    <3>3. CASE CarefulInv(lost \cup G, FALSE)' /\ gone(n)'
      BY <2>3, <3>1, <3>3 DEF TornOK
    <3> QED
      BY <3>1, <3>2, <3>3
  <2>6. CASE Reopening
    <3>1. TornInv(lost, n)'
      BY <1>4, <2>6, ReopenedTorn DEF Reopening
    <3> QED
      BY <1>3, <2>4, <3>1
  <2>7. call.pc # "iterateFEs"
    BY <2>1 DEF StillThere, NoCall
  <2> QED
    BY <1>1, <2>5, <2>6, <2>7
<1>5. ASSUME CarefulInv(lost, FALSE), torn = {} \/ torn = tearing
      PROVE  \E G \in SUBSET Blocks : LostByOne(G) /\ TornOK(lost \cup G)'
  <2>1. torn' = {m \in tearing : ~gone(m)'}
    BY <1>5
  <2>2. ASSUME NEW CONSTANT M, torn' = {}, CarefulInv(M, FALSE)'
        PROVE  TornOK(M)'
    BY <2>2 DEF TornOK
  <2>3. tearing = {} => torn' = {}
    BY <2>1
  <2>4. CASE CutOff
    <3>1. PICK G \in SUBSET Blocks :
            /\ LostByOne(G)
            /\ \/ tearing = {} /\ CarefulInv(lost \cup G, FALSE)'
               \/ \E n \in Name :
                    /\ tearing = {n}
                    /\ \/ TornInv(lost \cup G, n)'
                       \/ CarefulInv(lost \cup G, FALSE)' /\ gone(n)'
      BY <1>5, <2>4, CarefulCutOff
    <3>2. CASE tearing = {} /\ CarefulInv(lost \cup G, FALSE)'
      <4>1. TornOK(lost \cup G)'
        BY <2>2, <2>3, <3>2
      <4> QED
        BY <3>1, <4>1
    <3>3. ASSUME NEW CONSTANT n \in Name, tearing = {n}, TornInv(lost \cup G, n)'
          PROVE  TornOK(lost \cup G)'
      <4>1. torn' = {n}
        BY <2>1, <3>3, TornHereAfter
      <4> QED
        BY <3>3, <4>1 DEF TornOK
    <3>4. ASSUME NEW CONSTANT n \in Name, tearing = {n}, CarefulInv(lost \cup G, FALSE)' /\ gone(n)'
          PROVE  TornOK(lost \cup G)'
      <4>1. torn' = {}
        BY <2>1, <3>4
      <4> QED
        BY <2>2, <3>4, <4>1
    <3>5. ASSUME NEW CONSTANT n \in Name, tearing = {n},
                 TornInv(lost \cup G, n)' \/ (CarefulInv(lost \cup G, FALSE)' /\ gone(n)')
          PROVE  TornOK(lost \cup G)'
      BY <3>3, <3>4, <3>5
    <3>6. CASE ~(tearing = {} /\ CarefulInv(lost \cup G, FALSE)')
      <4>1. PICK n \in Name :
              /\ tearing = {n}
              /\ TornInv(lost \cup G, n)' \/ (CarefulInv(lost \cup G, FALSE)' /\ gone(n)')
        BY <3>1, <3>6
      <4>2. TornOK(lost \cup G)'
        BY <3>5, <4>1
      <4> QED
        BY <3>1, <4>2
    <3> QED
      BY <3>2, <3>6
  <2>5. CASE Reopening
    <3>1. CarefulInv(lost, FALSE)'
      BY <1>5, <2>5, ReopenedCareful DEF Reopening
    <3>2. tearing = {}
      BY <2>5 DEF Reopening, idle, tearing
    <3>3. TornOK(lost)'
      BY <2>2, <2>3, <3>1, <3>2
    <3> QED
      BY <1>3, <3>3
  <2>6. CASE call.pc = "iterateFEs" /\ IterateFEsFails
    <3>1. CarefulInv(lost, FALSE)'
      BY <1>5, <2>6, WalkGivenUp
    <3>2. tearing = {}
      BY <2>6 DEF tearing
    <3>3. TornOK(lost)'
      BY <2>2, <2>3, <3>1, <3>2
    <3> QED
      BY <1>3, <3>3
  <2> QED
    BY <1>1, <2>4, <2>5, <2>6
<1> QED
  BY <1>2, <1>4, <1>5 DEF TornOK

-----------------------------------------------------------------------------
(* Mending the torn file                                                   *)

\* The torn file stays torn, or is forgotten when nothing of it is left.
LEMMA StillTorn ==
  ASSUME NEW CONSTANT M, NEW CONSTANT n \in Name, torn = {n}, torn' = mended, TornInv(M, n)',
         ~(call.op \in {"writeFile", "deleteFile"} /\ idle' /\ ret'.code = 0)
  PROVE  TornOK(M)'
<1>1. ~gone(n)'
  BY TornHereAfter
<1>2. torn' = {n}
  BY <1>1 DEF mended
<1> QED
  BY <1>2 DEF TornOK

\* A file that is gone is not torn any more, and the others are whole.
LEMMA Forgotten ==
  ASSUME NEW CONSTANT M, NEW CONSTANT n, torn = {n}, torn' = mended, gone(n)', CarefulInv(M, FALSE)'
  PROVE  TornOK(M)'
<1>1. torn' = {}
  BY DEF mended
<1> QED
  BY <1>1 DEF TornOK

\* A call that writes nothing and opens no file.
LEMMA TornQuiet ==
  ASSUME NEW CONSTANT lost, NEW CONSTANT n, TornInv(lost, n), idle,
         UNCHANGED diskVars, call' = NoCall,
         \A fd \in DOMAIN openFiles' : fd \in DOMAIN openFiles /\ openFiles'[fd] = openFiles[fd]
  PROVE  TornInv(lost, n)' \/ (CarefulInv(lost, FALSE)' /\ gone(n)')
<1>1. PICK s \in Slots, own \in [Blocks -> Slots], pos \in [Blocks -> Nat] :
        \/ \E rest \in SUBSET Blocks : Cut(lost, n, s, own, pos, rest)
        \/ Stale(lost, n, s, own, pos)
  BY DEF TornInv
<1>2. TableApart'
  BY DEF TornInv, TableApart
<1>3. CASE \E rest \in SUBSET Blocks : Cut(lost, n, s, own, pos, rest)
  <2>1. PICK rest \in SUBSET Blocks : Cut(lost, n, s, own, pos, rest)
    BY <1>3
  <2>2. disk' = disk /\ inodeIndices' = inodeIndices /\ usedSlots' = usedSlots
    BY NoFileChanged DEF diskVars
  <2>3. \A fd \in DOMAIN openFiles' : Fresh(openFiles'[fd])
    BY <2>1 DEF Cut
  <2> QED
    BY <1>2, <2>1, <2>3, CutStays
<1>4. CASE Stale(lost, n, s, own, pos)
  <2>1. CASE \E fd \in DOMAIN openFiles' : openFiles'[fd].inodeLinkIndex = s
    BY <1>2, <1>4, <2>1, StaleStays
  <2>2. CASE \A fd \in DOMAIN openFiles' : openFiles'[fd].inodeLinkIndex # s
    BY <1>4, <2>2, StaleEnds
  <2> QED
    BY <2>1, <2>2
<1> QED
  BY <1>1, <1>3, <1>4

\* The torn file is written or deleted again.
LEMMA MendingBegins ==
  ASSUME Habits = {}, NEW CONSTANT lost, NEW CONSTANT n, Inv, TornInv(lost, n), idle,
         NEW CONSTANT fd \in DOMAIN openFiles, openFiles[fd].fileName = n,
         UNCHANGED <<diskVars, openFiles>>,
         call'.pc = "eraseFileData", call'.op \in {"writeFile", "deleteFile"}, call'.fd = fd,
         call'.cur = openFiles[fd].nextBlockIndex,
         call'.op = "writeFile" => call'.buf # <<>> /\ fitsAgain(fd, call'.buf),
         call' \in Locals
  PROVE  TornInv(lost, n)'
<1>1. PICK s \in Slots, own \in [Blocks -> Slots], pos \in [Blocks -> Nat] :
        \/ \E rest \in SUBSET Blocks : Cut(lost, n, s, own, pos, rest)
        \/ Stale(lost, n, s, own, pos)
  BY DEF TornInv
<1>2. /\ disk' = disk /\ inodeIndices' = inodeIndices /\ freeBlocks' = freeBlocks
      /\ usedSlots' = usedSlots /\ openFiles' = openFiles
  BY NoFileChanged DEF diskVars
<1>3. NamesOK' /\ TableApart' /\ lost \subseteq Blocks \ freeBlocks'
  BY <1>2 DEF TornInv, NamesOK, TableApart, inodeOf
<1>4. ASSUME NEW CONSTANT rest \in SUBSET Blocks, Cut(lost, n, s, own, pos, rest)
      PROVE  TornInv(lost, n)'
  <2>1. /\ CutAt(lost, s, own, pos, rest) /\ inodeOf(s).fileName = n /\ Fresh(openFiles[fd])
        /\ Strung(pos, rest, inodeOf(s).nextBlock)
    BY <1>4 DEF Cut, CutErasing, idle
  <2>2. openFiles[fd].inodeLinkIndex = s /\ openFiles[fd].nextBlockIndex = inodeOf(s).nextBlock
    BY <2>1 DEF Fresh, CutAt, TornInv, NamesOK
  <2>3. Mending(n, s)'
    BY <1>2, <2>2 DEF Mending, busySlot, isOpen
  <2>4. call'.op = "writeFile" => call'.buf # <<>> /\ toWrite' <= Cardinality(freeBlocks \cup rest)
    <3> SUFFICES ASSUME call'.op = "writeFile"
                 PROVE  call'.buf # <<>> /\ toWrite' <= Cardinality(freeBlocks \cup rest)
      OBVIOUS
    <3> DEFINE T == freeBlocks \cup rest
               C == freeBlocks \cup chainBlocks(openFiles[fd].nextBlockIndex)
    <3>1. openFiles[fd].nextBlockIndex \in T \cup {noBlockLink}
      BY <2>1, <2>2 DEF Strung, freeOrNone
    <3>2. \A b \in T : disk[b].nextBlock \in T \cup {noBlockLink}
      <4>1. \A b \in rest : disk[b].nextBlock \in T \cup {noBlockLink}
        BY <2>1 DEF Strung, freeOrNone
      <4>2. \A b \in freeBlocks : disk[b].nextBlock = noBlockLink
        BY Types, BlockFields DEF freeBlocks
      <4> QED
        BY <4>1, <4>2
    <3>3. C \subseteq T
      <4> HIDE DEF T
      <4>1. chainBlocks(openFiles[fd].nextBlockIndex) \subseteq T
        BY <3>1, <3>2, ChainBlocksWithin
      <4> QED
        BY <4>1 DEF T
    <3>4. IsFiniteSet(T) /\ T \subseteq Blocks
      <4>1. IsFiniteSet(Blocks)
        BY FS_Interval, DiskAssumption DEF Blocks
      <4>2. T \subseteq Blocks
        BY DEF freeBlocks
      <4> QED
        BY <4>1, <4>2, FS_Subset
    <3> HIDE DEF T, C
    <3>5. Cardinality(C) <= Cardinality(T) /\ Cardinality(C) \in Nat /\ Cardinality(T) \in Nat
      BY <3>3, <3>4, FS_Subset, FS_CardinalityType
    <3>6. call'.buf # <<>> /\ toWrite' <= Cardinality(C)
      BY DEF fitsAgain, toWrite, C
    <3>7. toWrite' \in Nat
      <4>1. Len(call'.buf) \in Nat
        BY DEF Locals
      <4> QED
        BY <4>1, BlocksFor DEF toWrite
    <3>8. toWrite' <= Cardinality(T)
      BY <3>5, <3>6, <3>7
    <3> QED
      BY <3>6, <3>8 DEF T
  <2>5. CutErasing(n, s, pos, rest)'
    BY <1>2, <2>1, <2>2, <2>3, <2>4 DEF CutErasing, Strung, inodeOf, freeOrNone
  <2>6. Cut(lost, n, s, own, pos, rest)'
    BY <1>2, <1>4, <2>1, <2>5 DEF Cut, CutAt, Fresh, inodeOf
  <2> QED
    BY <1>3, <2>6 DEF TornInv
<1>5. CASE Stale(lost, n, s, own, pos)
  <2>1. openFiles[fd].inodeLinkIndex = s /\ openFiles[fd].nextBlockIndex \in freeOrNone
    BY <1>5 DEF Stale, Fresh
  <2>2. Mending(n, s)'
    BY <1>2, <2>1 DEF Mending, busySlot, isOpen
  <2>3. Stale(lost, n, s, own, pos)'
    BY <1>2, <1>5, <2>1, <2>2 DEF Stale, Fresh, inodeOf, freeOrNone, unusedSlots
  <2> QED
    BY <1>3, <2>3 DEF TornInv
<1> QED
  BY <1>1, <1>4, <1>5

\* One block is freed that no file has any more.
ErasesRest(own, pos, F, F2, tail, s, c) ==
  /\ IsLayout(disk, inodeIndices, own, pos, F, tail)
  /\ \A b \in placed(disk, F) : own[b] # s => b # tail
  /\ disk[c].blockID = FREE_ID \/ c \in F
  /\ F2 \subseteq F /\ F \subseteq F2 \cup {c}
  /\ disk' = [disk EXCEPT ![c] = freeBlock] /\ inodeIndices' = inodeIndices

\* The places of all other blocks stay as they are.
LEMMA RestErased ==
  ASSUME Inv, Inv',
         NEW CONSTANT own \in [Blocks -> Slots], NEW CONSTANT pos \in [Blocks -> Nat],
         NEW CONSTANT F, NEW CONSTANT F2, NEW CONSTANT tail,
         NEW CONSTANT s \in Slots, NEW CONSTANT c \in Blocks,
         ErasesRest(own, pos, F, F2, tail, s, c)
  PROVE  /\ IsLayout(disk', inodeIndices', own, pos, F2, tail)
         /\ placed(disk', F2) = placed(disk, F)
         /\ \A b \in Blocks : b # c => disk'[b] = disk[b]
         /\ \A t \in usedSlots : inodeIndices[t] # c /\ inodeOf(t)' = inodeOf(t)
         /\ freeBlocks' = freeBlocks \cup {c}
         /\ usedSlots' = usedSlots /\ OnlyChanges({s})
<1> USE DEF ErasesRest
<1>1. /\ disk \in [Blocks -> Block] /\ disk'[c] = freeBlock
      /\ \A b \in Blocks : b # c => disk'[b] = disk[b]
  BY Types
<1>2. placed(disk', F2) = placed(disk, F) /\ c \notin placed(disk, F)
  BY <1>1 DEF placed, freeBlock
<1>3. \A b \in placed(disk, F) : disk'[b] = disk[b]
  BY <1>1, <1>2 DEF placed
<1>4. IsLayout(disk', inodeIndices', own, pos, F2, tail)
  BY <1>2, <1>3, SameLayout
<1>5. \A t \in usedSlots : /\ inodeIndices[t] \in placed(disk, F) /\ inodeIndices[t] # c
                           /\ inodeOf(t)' = inodeOf(t)
  <2>1. \A t \in usedSlots : t \in Slots /\ inodeIndices[t] # noBlockLink
    BY DEF usedSlots
  <2>2. \A t \in usedSlots : inodeIndices[t] \in placed(disk, F)
    BY <2>1, InodesPlaced
  <2> QED
    BY <1>2, <1>3, <2>2 DEF inodeOf
<1>6. freeBlocks' = freeBlocks \cup {c}
  BY <1>1 DEF freeBlocks, freeBlock
<1>7. OnlyChanges({s})
  <2>1. LinksKept(inodeIndices, inodeIndices', {s})
    BY DEF LinksKept
  <2>2. BlocksKept(disk, own, pos, F, tail, disk', own, pos, F2, tail, {s})
    BY <1>2, <1>3 DEF BlocksKept
  <2> QED
    BY <1>4, <2>1, <2>2, OthersKept
<1> QED
  BY <1>1, <1>2, <1>4, <1>5, <1>6, <1>7 DEF usedSlots

\* What is still strung on the links when the first of the extents is gone.
LEMMA RestStrung ==
  ASSUME Inv, NEW CONSTANT pos \in [Blocks -> Nat], NEW CONSTANT rest \in SUBSET Blocks,
         NEW CONSTANT c \in rest, Strung(pos, rest, c),
         NEW CONSTANT after, after = disk[c].nextBlock,
         \A b \in Blocks : b # c => disk'[b] = disk[b],
         freeBlocks' = freeBlocks \cup {c},
         \A b \in rest : pos[b] # 0
  PROVE  /\ Strung(pos, rest \ {c}, after)'
         /\ \A b \in rest \ {c} : pos[b] # 1
<1> DEFINE less == rest \ {c}
<1>1. /\ \A b \in rest : pos[b] \in Nat /\ pos[c] <= pos[b]
      /\ \A b, d \in rest : pos[b] = pos[d] => b = d
  BY DEF Strung
<1>2. \A b \in less : pos[c] < pos[b] /\ disk'[b] = disk[b] /\ pos[c] + 1 <= pos[b]
  BY <1>1
<1>3. \A b \in rest : LET next == disk[b].nextBlock
                      IN IF next \in rest THEN pos[next] = pos[b] + 1
                         ELSE next \in freeOrNone /\ \A d \in rest : pos[d] <= pos[b]
  BY DEF Strung
<1>4. ASSUME NEW b \in rest
      PROVE  LET next == disk[b].nextBlock
             IN IF next \in less THEN pos[next] = pos[b] + 1
                ELSE next \in freeOrNone' /\ \A d \in rest : pos[d] <= pos[b]
  <2> DEFINE next == disk[b].nextBlock
  <2>1. next # c
    <3> SUFFICES ASSUME next = c PROVE FALSE
      OBVIOUS
    <3>1. pos[c] = pos[b] + 1
      BY <1>3
    <3>2. pos[c] \in Nat /\ pos[b] \in Nat /\ pos[c] <= pos[b]
      BY <1>1
    <3> QED
      BY <3>1, <3>2
  <2>2. freeOrNone \subseteq freeOrNone'
    BY DEF freeOrNone
  <2>3. CASE next \in rest
    BY <1>3, <2>1, <2>3
  <2>4. CASE next \notin rest
    BY <1>3, <2>2, <2>4
  <2> QED
    BY <2>3, <2>4
<1>5. IF after \in less THEN \A b \in less : pos[after] <= pos[b]
      ELSE less = {} /\ after \in freeOrNone'
  <2>1. CASE after \in less
    BY <1>2, <1>4, <2>1
  <2>2. CASE after \notin less
    <3>1. after \in freeOrNone' /\ \A d \in rest : pos[d] <= pos[c]
      BY <1>4, <2>2
    <3>2. ASSUME NEW d \in less PROVE FALSE
      BY <1>1, <1>2, <3>1
    <3> QED
      BY <2>2, <3>1, <3>2
  <2> QED
    BY <2>1, <2>2
<1>6. Strung(pos, less, after)'
  <2>1. \A b \in less : LET next == disk'[b].nextBlock
                        IN IF next \in less THEN pos[next] = pos[b] + 1
                           ELSE next \in freeOrNone' /\ \A d \in less : pos[d] <= pos[b]
    BY <1>2, <1>4
  <2>2. \A b, d \in less : pos[b] = pos[d] => b = d
    BY <1>1
  <2> HIDE DEF less
  <2> QED
    BY <1>5, <2>1, <2>2 DEF Strung
<1>7. \A b \in less : pos[b] # 1
  BY <1>1, <1>2
<1> QED
  BY <1>6, <1>7

\* Erasing the torn file takes its first extent from it, or frees a free block again.
LEMMA CutEraseBlock ==
  ASSUME NEW CONSTANT lost, NEW CONSTANT n, Inv, Inv', TornInv(lost, n), EraseBlock,
         NEW CONSTANT s \in Slots,
         NEW CONSTANT own \in [Blocks -> Slots], NEW CONSTANT pos \in [Blocks -> Nat],
         NEW CONSTANT rest \in SUBSET Blocks, Cut(lost, n, s, own, pos, rest)
  PROVE  TornInv(lost, n)' /\ OnlyChanges({busySlot})
<1>1. CutAt(lost, s, own, pos, rest) /\ inodeOf(s).fileName = n /\ CutErasing(n, s, pos, rest)
  BY DEF Cut, EraseBlock, NoCall
<1>2. call.cur # noBlockLink /\ Strung(pos, rest, call.cur) /\ busySlot = s
  BY <1>1 DEF EraseBlock, CutErasing, Mending
<1>3. call.cur \in rest \/ (rest = {} /\ call.cur \in freeBlocks)
  BY <1>2 DEF Strung, freeOrNone
<1>4. PICK c \in Blocks : c = call.cur
  BY <1>3 DEF freeBlocks
<1>5. PICK after \in BlockLink : after = disk[c].nextBlock
  BY Types, BlockFields
<1>6. /\ disk' = [disk EXCEPT ![c] = freeBlock] /\ call' = [call EXCEPT !.cur = after]
      /\ inodeIndices' = inodeIndices /\ openFiles' = openFiles
  BY <1>4, <1>5 DEF EraseBlock, openList
<1>7. /\ call'.cur = after /\ call'.pc = "eraseFileData" /\ call'.op = call.op
      /\ call'.fd = call.fd /\ call'.buf = call.buf
  BY <1>6, Types DEF EraseBlock, Locals
<1> DEFINE less == rest \ {c}
<1>8. /\ IsLayout(disk', inodeIndices', own, pos, lost \cup less, inodeIndices[s])
      /\ placed(disk', lost \cup less) = placed(disk, lost \cup rest)
      /\ \A b \in Blocks : b # c => disk'[b] = disk[b]
      /\ \A t \in usedSlots : inodeIndices[t] # c /\ inodeOf(t)' = inodeOf(t)
      /\ freeBlocks' = freeBlocks \cup {c}
      /\ usedSlots' = usedSlots /\ OnlyChanges({s})
  <2> DEFINE F == lost \cup rest
             F2 == lost \cup less
  <2>1. s \in usedSlots /\ IsLayout(disk, inodeIndices, own, pos, F, inodeIndices[s])
    BY <1>1 DEF CutAt
  <2>2. own[inodeIndices[s]] = s
    BY <2>1, InodesPlaced DEF usedSlots
  <2>3. PICK tail : tail = inodeIndices[s]
    OBVIOUS
  <2>4. PICK G : G = F
    OBVIOUS
  <2>5. PICK G2 : G2 = F2
    OBVIOUS
  <2>6. ErasesRest(own, pos, G, G2, tail, s, c)
    <3>1. IsLayout(disk, inodeIndices, own, pos, G, tail) /\ \A b \in placed(disk, G) : own[b] # s => b # tail
      BY <2>1, <2>2, <2>3, <2>4
    <3>2. (disk[c].blockID = FREE_ID \/ c \in G) /\ G2 \subseteq G /\ G \subseteq G2 \cup {c}
      BY <1>3, <1>4, <2>4, <2>5 DEF freeBlocks
    <3> QED
      BY <1>6, <3>1, <3>2 DEF ErasesRest
  <2>7. /\ IsLayout(disk', inodeIndices', own, pos, G2, tail)
        /\ placed(disk', G2) = placed(disk, G)
        /\ \A b \in Blocks : b # c => disk'[b] = disk[b]
        /\ \A t \in usedSlots : inodeIndices[t] # c /\ inodeOf(t)' = inodeOf(t)
        /\ freeBlocks' = freeBlocks \cup {c}
        /\ usedSlots' = usedSlots /\ OnlyChanges({s})
    BY <2>6, RestErased
  <2> QED
    BY <2>3, <2>4, <2>5, <2>7
<1>9. /\ s \in usedSlots /\ rest \subseteq Blocks \ freeBlocks /\ lost \cap rest = {}
      /\ \A b \in placed(disk, lost \cup rest) : own[b] = s => pos[b] = 0
      /\ \A b \in rest : pos[b] \in 1..extents(disk, inodeIndices, s)
  BY <1>1 DEF CutAt
<1>10. c \notin lost
  <2>1. CASE c \in rest
    BY <1>9, <2>1
  <2>2. CASE c \in freeBlocks
    BY <2>2 DEF TornInv
  <2> QED
    BY <1>3, <1>4, <2>1, <2>2
<1>11. CutAt(lost, s, own, pos, less)'
  <2>1. extents(disk', inodeIndices', s) = extents(disk, inodeIndices, s)
    BY <1>6, <1>8, <1>9 DEF extents, inodeOf
  <2>2. less \subseteq Blocks \ freeBlocks' /\ lost \cap less = {}
    BY <1>8, <1>9
  <2> QED
    BY <1>6, <1>8, <1>9, <2>1, <2>2 DEF CutAt
<1>12. Strung(pos, less, after)' /\ \A b \in less : pos[b] # 1
  <2>1. CASE c \in rest
    <3>1. \A b \in rest : pos[b] # 0
      BY <1>9
    <3>2. Strung(pos, rest, c)
      BY <1>2, <1>4
    <3> QED
      BY <1>5, <1>8, <2>1, <3>1, <3>2, RestStrung
  <2>2. CASE rest = {} /\ c \in freeBlocks
    <3>1. after = noBlockLink
      BY <1>5, <2>2, Types, BlockFields DEF freeBlocks
    <3> QED
      BY <2>2, <3>1 DEF Strung, freeOrNone
  <2> QED
    BY <1>3, <1>4, <2>1, <2>2
<1>13. inodeOf(s)' = inodeOf(s) /\ inodeOf(s).nextBlock \in freeBlocks'
  <2>1. inodeOf(s).nextBlock = c \/ inodeOf(s).nextBlock \in freeBlocks
    BY <1>1, <1>4 DEF CutErasing
  <2> QED
    BY <1>8, <1>9, <2>1
<1>14. freeBlocks \cup rest = freeBlocks' \cup less
  BY <1>3, <1>4, <1>8
<1>15. CutErasing(n, s, pos, less)'
  <2>1. Mending(n, s)'
    BY <1>1, <1>6, <1>7 DEF CutErasing, Mending, busySlot, isOpen
  <2>2. call'.op = "writeFile" =>
          call'.buf # <<>> /\ toWrite' <= Cardinality(freeBlocks' \cup less)
    BY <1>1, <1>7, <1>14 DEF CutErasing, toWrite
  <2>3. call'.op \in {"writeFile", "deleteFile"}
    BY <1>1, <1>7 DEF CutErasing
  <2> HIDE DEF less
  <2> QED
    BY <1>7, <1>12, <1>13, <2>1, <2>2, <2>3 DEF CutErasing
<1>16. (\A fd \in DOMAIN openFiles : Fresh(openFiles[fd]))'
  <2>1. \A fd \in DOMAIN openFiles : Fresh(openFiles[fd])
    BY DEF Cut
  <2> QED
    BY <1>6, <1>8, <2>1 DEF Fresh
<1>17. Cut(lost, n, s, own, pos, less)'
  <2> HIDE DEF less
  <2> QED
    BY <1>1, <1>11, <1>13, <1>15, <1>16 DEF Cut
<1>18. NamesOK' /\ TableApart' /\ lost \subseteq Blocks \ freeBlocks'
  BY <1>6, <1>8, <1>10 DEF TornInv, NamesOK, TableApart
<1>19. less \in SUBSET Blocks
  OBVIOUS
<1>20. TornInv(lost, n)'
  <2> HIDE DEF less
  <2> QED
    BY <1>17, <1>18, <1>19 DEF TornInv
<1> QED
  BY <1>2, <1>8, <1>20

\* With the descriptor of a file that is gone, only a free block can be freed.
LEMMA StaleEraseBlock ==
  ASSUME NEW CONSTANT lost, NEW CONSTANT n, Inv, Inv', TornInv(lost, n), EraseBlock,
         NEW CONSTANT s \in Slots,
         NEW CONSTANT own \in [Blocks -> Slots], NEW CONSTANT pos \in [Blocks -> Nat],
         Stale(lost, n, s, own, pos)
  PROVE  TornInv(lost, n)' /\ OnlyChanges({busySlot})
<1>1. /\ call.pc = "eraseFileData" /\ call.op \in {"writeFile", "deleteFile"} /\ Mending(n, s)
      /\ call.cur \in freeBlocks
  BY DEF Stale, EraseBlock, NoCall, freeOrNone
<1>2. PICK c \in Blocks : c = call.cur /\ disk[c].blockID = FREE_ID
  BY <1>1 DEF freeBlocks
<1>3. disk[c].nextBlock = noBlockLink
  BY <1>2, Types, BlockFields
<1>4. /\ disk' = [disk EXCEPT ![c] = freeBlock] /\ call' = [call EXCEPT !.cur = noBlockLink]
      /\ inodeIndices' = inodeIndices /\ openFiles' = openFiles
  BY <1>2, <1>3 DEF EraseBlock, openList
<1>5. /\ call'.cur = noBlockLink /\ call'.pc = "eraseFileData" /\ call'.op = call.op
      /\ call'.fd = call.fd
  BY <1>1, <1>4, Types DEF Locals
<1>6. ErasesRest(own, pos, lost, lost, noBlockLink, s, c)
  <2>1. \A b \in placed(disk, lost) : b # noBlockLink
    BY DiskAssumption DEF placed, Blocks, noBlockLink
  <2> QED
    BY <1>2, <1>4, <2>1 DEF ErasesRest, Stale
<1>7. /\ IsLayout(disk', inodeIndices', own, pos, lost, noBlockLink)
      /\ \A t \in usedSlots : inodeOf(t)' = inodeOf(t)
      /\ freeBlocks' = freeBlocks \cup {c}
      /\ usedSlots' = usedSlots /\ OnlyChanges({s})
  BY <1>6, RestErased DEF noBlockLink
<1>8. freeBlocks' = freeBlocks
  BY <1>1, <1>2, <1>7
<1>9. Mending(n, s)'
  BY <1>1, <1>4, <1>5 DEF Mending, busySlot, isOpen
<1>10. Stale(lost, n, s, own, pos)'
  BY <1>1, <1>4, <1>5, <1>7, <1>8, <1>9 DEF Stale, Fresh, freeOrNone, unusedSlots
<1>11. NamesOK' /\ TableApart' /\ lost \subseteq Blocks \ freeBlocks'
  BY <1>4, <1>7, <1>8 DEF TornInv, NamesOK, TableApart
<1>12. TornInv(lost, n)'
  BY <1>10, <1>11 DEF TornInv
<1> QED
  BY <1>1, <1>7, <1>12 DEF Mending

\* When the torn file has no extents left, it is a file like any other whose blocks
\* were erased.
LEMMA CutErased ==
  ASSUME NEW CONSTANT lost, NEW CONSTANT n, Inv, TornInv(lost, n),
         call.pc = "eraseFileData", call.cur = noBlockLink,
         NEW CONSTANT s \in Slots,
         NEW CONSTANT own \in [Blocks -> Slots], NEW CONSTANT pos \in [Blocks -> Nat],
         NEW CONSTANT rest \in SUBSET Blocks, Cut(lost, n, s, own, pos, rest)
  PROVE  /\ CarefulInv(lost, FALSE)
         /\ call.op = "writeFile" => call.buf # <<>> /\ toWrite <= Cardinality(freeBlocks)
<1>1. CutAt(lost, s, own, pos, rest) /\ CutErasing(n, s, pos, rest)
  BY DEF Cut, NoCall
<1>2. rest = {} /\ busySlot = s /\ call.op \in {"writeFile", "deleteFile"}
  <2>1. call.cur \notin rest
    BY DiskAssumption DEF Blocks, noBlockLink
  <2> QED
    BY <1>1, <2>1 DEF CutErasing, Strung, Mending
<1>3. lost \cup rest = lost /\ freeBlocks \cup rest = freeBlocks
  BY <1>2
<1>4. PICK tail \in BlockLink : tail = inodeIndices[s]
  BY Types
<1>5. /\ IsLayout(disk, inodeIndices, own, pos, lost, tail)
      /\ \A b \in placed(disk, lost) : own[b] = s => pos[b] = 0
  BY <1>1, <1>3, <1>4 DEF CutAt
<1>6. call.op = "writeFile" => call.buf # <<>> /\ toWrite <= Cardinality(freeBlocks)
  BY <1>1, <1>3 DEF CutErasing
<1>7. floating = {} /\ afloat(lost) = lost
  BY DEF floating, afloat
<1>8. Erasing(lost, own, pos, tail)
  <2>1. inodeOf(s).nextBlock \in freeBlocks \cup {call.cur}
    BY <1>1 DEF CutErasing
  <2>2. call.op = "writeFile" => toWrite <= Cardinality(freeBlocks) + toErase(pos)
    <3>1. toErase(pos) = 0 /\ Cardinality(freeBlocks) \in Nat
      BY FreeFinite DEF toErase
    <3> QED
      BY <1>6, <3>1
  <2> QED
    BY <1>2, <1>4, <1>5, <1>6, <2>1, <2>2 DEF Erasing
<1>9. Writing(lost, own, pos, tail) /\ Moving(lost, FALSE, own, pos) /\ Linking
  BY <1>2 DEF Writing, Moving, Linking
<1>10. LayoutOK(lost, FALSE)
  BY <1>5, <1>7, <1>8, <1>9 DEF LayoutOK
<1>11. PhaseOK
  BY <1>2 DEF PhaseOK, phases, idle
<1>12. TableOK
  BY DEF Cut, Fresh, TornInv, TableApart, TableOK
<1>13. NamesOK /\ LostOK(lost)
  BY <1>7 DEF TornInv, LostOK
<1> QED
  BY <1>6, <1>9, <1>10, <1>11, <1>12, <1>13 DEF CarefulInv

\* A deletion of a file that is gone fails, one step later than a write of it.
LEMMA StaleFails ==
  ASSUME NEW CONSTANT lost, NEW CONSTANT n, TornInv(lost, n),
         NEW CONSTANT s \in Slots,
         NEW CONSTANT own \in [Blocks -> Slots], NEW CONSTANT pos \in [Blocks -> Nat],
         Stale(lost, n, s, own, pos), NEW code, Fail(code)
  PROVE  TornInv(lost, n)'
<1>1. UNCHANGED diskVars /\ call' = NoCall /\ openFiles' = openFiles
  BY DEF Fail, Return, diskVars
<1>2. TableApart'
  BY <1>1 DEF TornInv, TableApart
<1>3. \E fd \in DOMAIN openFiles' : openFiles'[fd].inodeLinkIndex = s
  BY <1>1 DEF Stale
<1> QED
  BY <1>1, <1>2, <1>3, StaleStays

\* The calls with which a client begins to mend the torn file.
LEMMA MendIdle ==
  ASSUME Habits = {}, NEW CONSTANT lost, NEW CONSTANT n \in Name, Inv, Inv', TornInv(lost, n), torn = {n},
         torn' = mended, idle, Mend
  PROVE  TornOK(lost)' /\ UNCHANGED diskVars
<1>1. StillThere(n)
  BY TornHere
<1>2. call = NoCall /\ call.op = "none"
  BY <1>1 DEF StillThere, idle, NoCall
<1>3. TornInv(lost, n)' => TornOK(lost)'
  BY <1>2, StillTorn
<1>4. ASSUME UNCHANGED diskVars, call' = NoCall,
             \A fd \in DOMAIN openFiles' : fd \in DOMAIN openFiles /\ openFiles'[fd] = openFiles[fd]
      PROVE  TornOK(lost)' /\ UNCHANGED diskVars
  BY <1>3, <1>4, TornQuiet, Forgotten
<1>5. ASSUME NEW code, Fail(code)
      PROVE  TornOK(lost)' /\ UNCHANGED diskVars
  BY <1>4, <1>5 DEF Fail, Return, diskVars
<1>6. CASE Mount
  <2>1. CASE Return(0) /\ UNCHANGED <<diskVars, openList>>
    BY <1>4, <2>1 DEF Return, openList
  <2> QED
    BY <1>5, <1>6, <2>1 DEF Mount
<1>7. CASE Unmount
  <2>1. DOMAIN openFiles' = {} \/ openFiles' = openFiles
    BY <1>7 DEF Unmount, openFDs_Reset, openList
  <2> QED
    BY <1>4, <1>7, <2>1 DEF Unmount, Return
<1>8. ASSUME NEW CONSTANT name \in UserNames, formatName(name) \in torn, OpenFile(name)
      PROVE  TornOK(lost)' /\ UNCHANGED diskVars
  <2> DEFINE found == searchSB(n)
  <2>1. formatName(name) = n
    BY <1>8
  <2>2. CASE openUnder(n) = {} /\ found.code = 0
    <3>1. \E t \in usedSlots : inodeOf(t).fileName = n
      BY <1>1, <2>2 DEF StillThere, gone
    <3> QED
      BY <1>1, <2>2, <3>1, SearchSBFinds DEF StillThere
  <2>3. CASE /\ openUnder(n) = {} /\ found.code = 1
             /\ LET in == disk[inodeIndices[found.slot]]
                IN openFDs_add(in.fileSize, n, found.slot, in.nextBlock)
             /\ Return(currentFD)
             /\ UNCHANGED <<diskVars, mounted>>
    <3>1. PICK slot \in Slots : slot = found.slot
      BY <2>3, SearchSB
    <3>2. openFDs_add(inodeOf(slot).fileSize, n, slot, inodeOf(slot).nextBlock)
      BY <2>3, <3>1 DEF inodeOf
    <3>3. UNCHANGED diskVars /\ call' = NoCall
      BY <2>3 DEF Return
    <3>4. TornInv(lost, n)'
      <4>1. openUnder(n) = {} /\ searchSB(n).code = 1 /\ slot = searchSB(n).slot
        BY <2>3, <3>1
      <4> QED
        BY <3>2, <3>3, <4>1, ReopenedTorn
    <3> QED
      BY <1>3, <3>3, <3>4
  <2>4. CASE \E code : Fail(code)
    BY <1>5, <2>4
  <2> QED
    BY <1>8, <2>1, <2>2, <2>3, <2>4 DEF OpenFile
<1>9. ASSUME NEW CONSTANT fd \in DOMAIN openFiles, openFiles[fd].fileName = n,
             \/ CloseFile(fd)
             \/ DeleteFile(fd)
             \/ \E buffer \in Buffers \ {<<>>} : fitsAgain(fd, buffer) /\ WriteFile(fd, buffer)
      PROVE  TornOK(lost)' /\ UNCHANGED diskVars
  <2>1. isOpen(fd)
    BY DEF isOpen
  <2>2. CASE CloseFile(fd)
    BY <1>4, <1>5, <2>1, <2>2 DEF CloseFile, openFDs_removeByFD, Restrict, Return
  <2>3. call' \in Locals
    BY TypesAfter
  <2>4. CASE DeleteFile(fd)
    <3>1. UNCHANGED <<diskVars, openFiles>>
      BY <2>1, <2>4 DEF DeleteFile, openList
    <3>2. /\ call'.pc = "eraseFileData" /\ call'.op = "deleteFile" /\ call'.fd = fd
          /\ call'.cur = openFiles[fd].nextBlockIndex
      BY <2>1, <2>4 DEF DeleteFile, Begin, NoCall
    <3>3. TornInv(lost, n)'
      BY <1>9, <2>3, <3>1, <3>2, MendingBegins
    <3> QED
      BY <1>3, <3>1, <3>3
  <2>5. ASSUME NEW CONSTANT buffer \in Buffers \ {<<>>}, fitsAgain(fd, buffer), WriteFile(fd, buffer)
        PROVE  TornOK(lost)' /\ UNCHANGED diskVars
    <3>1. CASE Fail(EPERM)
      BY <1>5, <3>1
    <3>2. CASE ~Fail(EPERM)
      <4>1. UNCHANGED <<diskVars, openFiles>>
        BY <2>1, <2>5, <3>2 DEF WriteFile, openList
      <4>2. /\ call'.pc = "eraseFileData" /\ call'.op = "writeFile" /\ call'.fd = fd
            /\ call'.cur = openFiles[fd].nextBlockIndex /\ call'.buf = buffer
        BY <2>1, <2>5, <3>2 DEF WriteFile, Begin, NoCall
      <4>3. TornInv(lost, n)'
        BY <1>9, <2>3, <2>5, <4>1, <4>2, MendingBegins
      <4> QED
        BY <1>3, <4>1, <4>3
    <3> QED
      BY <3>1, <3>2
  <2> QED
    BY <1>9, <2>2, <2>4, <2>5
<1>10. ~Continue
  BY <1>2 DEF NoCall, Continue, LinkInode, EraseBlock, UpdateInode, WriteBlock, RemoveInode,
              FreeInode, DisplayBlock, DefragInode, SwapInodeLink, FreeOldInode, IterateFEs,
              SwapExtentLink, FreeOldExtent
<1> QED
  BY <1>6, <1>7, <1>8, <1>9, <1>10 DEF Mend

\* While a call is in progress the client only waits for it.
LEMMA OnlyContinue == ASSUME ~idle, Mend PROVE Continue
BY DEF Mend, Mount, Unmount, OpenFile, CloseFile, DeleteFile, WriteFile, Ready

\* The next step of a call that erases the torn file.
LEMMA MendErasing ==
  ASSUME NEW CONSTANT lost, NEW CONSTANT n \in Name, Inv, Inv', TornInv(lost, n), torn = {n},
         torn' = mended, call.pc = "eraseFileData", Continue
  PROVE  TornOK(lost)' /\ OnlyChanges({busySlot})
<1>1. /\ EraseBlock \/ UpdateInode \/ RemoveInode
      /\ EraseBlock => call.cur # noBlockLink
      /\ UpdateInode => call.cur = noBlockLink /\ call.op = "writeFile"
      /\ RemoveInode => call.cur = noBlockLink /\ call.op = "deleteFile"
  BY DEF Continue, LinkInode, EraseBlock, UpdateInode, WriteBlock, RemoveInode,
         FreeInode, DisplayBlock, DefragInode, SwapInodeLink, FreeOldInode, IterateFEs,
         SwapExtentLink, FreeOldExtent
<1>2. PICK s \in Slots, own \in [Blocks -> Slots], pos \in [Blocks -> Nat] :
        \/ \E rest \in SUBSET Blocks : Cut(lost, n, s, own, pos, rest)
        \/ Stale(lost, n, s, own, pos)
  BY DEF TornInv
<1>3. TornInv(lost, n)' /\ ~(idle' /\ ret'.code = 0) => TornOK(lost)'
  BY StillTorn
<1>4. CASE EraseBlock
  <2>1. TornInv(lost, n)' /\ OnlyChanges({busySlot})
    BY <1>2, <1>4, CutEraseBlock, StaleEraseBlock
  <2>2. ~idle'
    BY <1>4, Types DEF EraseBlock, idle, Locals
  <2> QED
    BY <1>3, <2>1, <2>2
<1>5. ASSUME NEW CONSTANT rest \in SUBSET Blocks, Cut(lost, n, s, own, pos, rest),
             UpdateInode \/ RemoveInode
      PROVE  TornOK(lost)' /\ OnlyChanges({busySlot})
  <2>1. /\ CarefulInv(lost, FALSE)
        /\ call.op = "writeFile" => call.buf # <<>> /\ toWrite <= Cardinality(freeBlocks)
    BY <1>1, <1>5, CutErased
  <2>2. CarefulInv(lost, FALSE)' /\ OnlyChanges({busySlot})
    BY <1>5, <2>1, CUpdateInode, CRemoveInode
  <2>3. /\ call.fd \in DOMAIN openFiles /\ openFiles[call.fd].fileName = n
        /\ inodeLink(openFiles[call.fd]) # noBlockLink
    <3>1. Mending(n, s) /\ s \in usedSlots
      BY <1>5 DEF Cut, CutAt, CutErasing, NoCall
    <3> QED
      BY <3>1 DEF Mending, isOpen, busySlot, inodeLink, usedSlots
  <2>4. /\ call'.pc \in {"writeBlocks", "freeInode"} /\ call'.fd = call.fd
        /\ call.fd \in DOMAIN openFiles' /\ openFiles'[call.fd].fileName = n
    <3>1. CASE UpdateInode
      <4> DEFINE first == findFreeBlock(disk, 0)
      <4>1. ~(first < 0) /\ call.buf # <<>>
        <5>1. toWrite \in Nat \ {0}
          <6>1. call.buf \in Seq(Byte) /\ Len(call.buf) \in Nat /\ Len(call.buf) # 0
            BY <1>1, <2>1, <3>1, Types DEF Locals
          <6> QED
            BY <6>1, BlocksFor DEF toWrite
        <5>2. Cardinality(freeBlocks) # 0
          BY <1>1, <2>1, <3>1, <5>1, FreeFinite
        <5>3. PICK b \in Blocks : disk[b].blockID = FREE_ID
          BY <5>2, FS_EmptySet DEF freeBlocks
        <5>4. b > 0
          BY DiskAssumption DEF Blocks
        <5>5. first \in Blocks
          BY <5>3, <5>4, FindFreeBlock
        <5> QED
          BY <1>1, <2>1, <3>1, <5>5, DiskAssumption DEF Blocks
      <4>2. openFiles' = [openFiles EXCEPT ![call.fd] = [openFiles[call.fd] EXCEPT
                            !.nextBlockIndex = first, !.fileSize = Len(call.buf), !.location = 0]]
        BY <2>3, <3>1, <4>1 DEF UpdateInode
      <4>3. call' = [call EXCEPT !.pc = "writeBlocks", !.cur = first]
        BY <2>3, <3>1, <4>1 DEF UpdateInode, Begin
      <4> HIDE DEF first
      <4>4. openFiles'[call.fd].fileName = n /\ call.fd \in DOMAIN openFiles'
        BY <2>3, <4>2, Types DEF TinyOpenFile
      <4> QED
        BY <4>3, <4>4, Types DEF Locals
    <3>2. CASE RemoveInode
      BY <2>3, <3>2, Types DEF RemoveInode, Begin, Locals, openList
    <3> QED
      BY <1>5, <3>1, <3>2
  <2>5. tearing' = {n} /\ ~idle'
    BY <2>4 DEF tearing, idle
  <2>6. ~gone(n)'
    BY <2>4 DEF gone, openUnder
  <2>7. torn' = {n}
    BY <2>5, <2>6 DEF mended
  <2>8. TornOK(lost)'
    BY <2>2, <2>4, <2>5, <2>7 DEF TornOK
  <2> QED
    BY <2>2, <2>8
<1>6. CASE Stale(lost, n, s, own, pos) /\ (UpdateInode \/ RemoveInode)
  <2>1. Mending(n, s) /\ s \in unusedSlots
    BY <1>6 DEF Stale, NoCall
  <2>2. call.fd \in DOMAIN openFiles /\ inodeLink(openFiles[call.fd]) = noBlockLink
    BY <2>1 DEF Mending, isOpen, busySlot, inodeLink, unusedSlots, usedSlots
  <2>3. ASSUME NEW code, code # 0, Fail(code)
        PROVE  TornOK(lost)' /\ OnlyChanges({busySlot})
    <3>1. TornInv(lost, n)' /\ ret'.code # 0
      BY <1>6, <2>3, StaleFails DEF Fail, Return
    <3>2. OnlyChanges({busySlot})
      BY <2>3, NoFileChanged DEF Fail, diskVars, OnlyChanges
    <3> QED
      BY <1>3, <3>1, <3>2
  <2>4. CASE UpdateInode
    <3>1. findFreeBlock(disk, 0) < 0 => findFreeBlock(disk, 0) # 0
      OBVIOUS
    <3>2. EIO # 0
      BY DEF EIO
    <3> QED
      BY <2>2, <2>3, <2>4, <3>1, <3>2 DEF UpdateInode
  <2>5. CASE RemoveInode
    <3>1. /\ call' = [call EXCEPT !.pc = "freeInode", !.cur = noBlockLink]
          /\ openFiles' = openFiles /\ disk' = disk
      BY <2>2, <2>5 DEF RemoveInode, Begin, openList
    <3>2. inodeIndices' = inodeIndices
      <4>1. inodeIndices' = [inodeIndices EXCEPT ![s] = noBlockLink]
        BY <2>1, <2>5 DEF RemoveInode, Mending, busySlot
      <4> QED
        BY <2>1, <4>1, Types DEF unusedSlots, usedSlots
    <3>3. freeBlocks' = freeBlocks /\ usedSlots' = usedSlots /\ OnlyChanges({busySlot})
      BY <3>1, <3>2, NoFileChanged DEF diskVars, OnlyChanges
    <3>4. /\ call'.pc = "freeInode" /\ call'.op = "deleteFile" /\ call'.cur = noBlockLink
          /\ call'.fd = call.fd
      BY <1>1, <2>5, <3>1, Types DEF Locals
    <3>5. Mending(n, s)'
      BY <2>1, <3>1, <3>4 DEF Mending, busySlot, isOpen
    <3>6. Stale(lost, n, s, own, pos)'
      BY <1>6, <3>1, <3>2, <3>3, <3>4, <3>5 DEF Stale, Fresh, inodeOf, freeOrNone, unusedSlots
    <3>7. NamesOK' /\ TableApart' /\ lost \subseteq Blocks \ freeBlocks'
      BY <3>1, <3>2, <3>3 DEF TornInv, NamesOK, TableApart, inodeOf
    <3>8. TornInv(lost, n)' /\ ~idle'
      BY <3>4, <3>6, <3>7 DEF TornInv, idle
    <3> QED
      BY <1>3, <3>3, <3>8
  <2> QED
    BY <1>6, <2>4, <2>5
<1> QED
  BY <1>1, <1>2, <1>4, <1>5, <1>6

\* The last step with a descriptor of a file that is gone.
LEMMA MendFreeing ==
  ASSUME NEW CONSTANT lost, NEW CONSTANT n \in Name, Inv, TornInv(lost, n), torn = {n},
         torn' = mended, call.pc = "freeInode", Continue
  PROVE  TornOK(lost)' /\ OnlyChanges({busySlot})
<1>1. FreeInode
  BY DEF Continue, LinkInode, EraseBlock, UpdateInode, WriteBlock, RemoveInode,
         FreeInode, DisplayBlock, DefragInode, SwapInodeLink, FreeOldInode, IterateFEs,
         SwapExtentLink, FreeOldExtent
<1>2. PICK s \in Slots, own \in [Blocks -> Slots], pos \in [Blocks -> Nat] :
        Stale(lost, n, s, own, pos) /\ call.cur = noBlockLink
  BY DEF TornInv, Cut, CutErasing, Stale, NoCall
<1>3. Fail(EIO) /\ EIO # 0
  BY <1>1, <1>2 DEF FreeInode, EIO
<1>4. TornInv(lost, n)' /\ ret'.code # 0
  BY <1>2, <1>3, StaleFails DEF Fail, Return
<1>5. TornOK(lost)'
  BY <1>4, StillTorn
<1>6. OnlyChanges({busySlot})
  BY <1>3, NoFileChanged DEF Fail, diskVars, OnlyChanges
<1> QED
  BY <1>5, <1>6

\* Once its blocks are erased, nothing can go wrong for the file: the write has room
\* for its buffer, and the deletion has the inode.
LEMMA MendingEnds ==
  ASSUME NEW CONSTANT lost, NEW CONSTANT n \in Name, Inv, Inv', CarefulInv(lost, FALSE),
         torn = {n}, tearing = {n}, torn' = mended,
         call.pc \in {"writeBlocks", "freeInode"}, Continue
  PROVE  TornOK(lost)' /\ OnlyChanges({busySlot})
<1>1. CarefulInv(lost, FALSE)' /\ call.op \in {"writeFile", "deleteFile"} /\ OnlyChanges({busySlot})
  BY CContinue, OpOfPhase DEF CarefulInv
<1>2. /\ WriteBlock \/ FreeInode
      /\ WriteBlock => call.pc = "writeBlocks"
      /\ FreeInode => call.pc = "freeInode"
  BY DEF Continue, LinkInode, EraseBlock, UpdateInode, WriteBlock, RemoveInode,
         FreeInode, DisplayBlock, DefragInode, SwapInodeLink, FreeOldInode, IterateFEs,
         SwapExtentLink, FreeOldExtent
<1>3. ASSUME Return(0)
      PROVE  TornOK(lost)'
  <2>1. idle' /\ ret'.code = 0
    BY <1>3 DEF Return, NoCall, idle
  <2>2. torn' = {}
    BY <1>1, <2>1 DEF mended
  <2> QED
    BY <1>1, <2>2 DEF TornOK
<1>4. CASE WriteBlock
  <2> DEFINE isLast == Len(call.buf) <= DataPerBlock
             next   == IF isLast THEN noBlockLink ELSE findFreeBlock(disk, call.cur)
  <2>1. ~(next < 0)
    <3>1. CASE isLast
      BY <3>1 DEF noBlockLink
    <3>2. CASE ~isLast
      <4>1. ~(findFreeBlock(disk, call.cur) < 0)
        BY <1>2, <1>4, <3>2, RoomLeft
      <4> QED
        BY <3>2, <4>1
    <3> QED
      BY <3>1, <3>2
  <2>2. CASE isLast
    BY <1>1, <1>3, <1>4, <2>1, <2>2 DEF WriteBlock
  <2>3. CASE ~isLast
    <3>1. call' = [call EXCEPT !.cur = next, !.buf = restOf(call.buf)] /\ openFiles' = openFiles
      BY <1>4, <2>1, <2>3 DEF WriteBlock, Begin, openList
    <3>2. call'.pc = "writeBlocks" /\ call'.fd = call.fd
      BY <1>2, <1>4, <3>1, Types DEF Locals
    <3>3. call.fd \in DOMAIN openFiles /\ openFiles[call.fd].fileName = n
      BY <1>2, <1>4 DEF tearing, Inv, TypeOK, LocalsOK, isOpen
    <3>4. tearing' = {n} /\ ~gone(n)' /\ ~idle'
      BY <3>1, <3>2, <3>3 DEF tearing, gone, openUnder, idle
    <3>5. torn' = {n}
      BY <3>4 DEF mended
    <3>6. TornOK(lost)'
      BY <1>1, <3>2, <3>4, <3>5 DEF TornOK
    <3> QED
      BY <1>1, <3>6
  <2> QED
    BY <2>2, <2>3
<1>5. CASE FreeInode
  <2>1. call.cur \in Blocks /\ call.cur # noBlockLink
    BY <1>2, <1>5, DiskAssumption DEF CarefulInv, PhaseOK, Blocks, noBlockLink
  <2> QED
    BY <1>1, <1>3, <1>5, <2>1 DEF FreeInode
<1> QED
  BY <1>2, <1>4, <1>5

\* A step of the client keeps what is known of the files, and changes no file but the
\* one a call may change.
LEMMA ClientKeeps ==
  ASSUME Habits = {}, NEW CONSTANT lost, Inv, Inv', TornOK(lost),
         IF torn = {} THEN ClientNext ELSE Mend, torn' = mended
  PROVE  /\ TornOK(lost)'
         /\ UNCHANGED diskVars \/ \E s \in Slots : OnlyChanges({s})
         /\ call.op \in {"writeFile", "deleteFile"} =>
              UNCHANGED diskVars \/ (busySlot \in Slots /\ OnlyChanges({busySlot}))
         /\ call.op = "defrag" => OnlyChanges({})
<1>1. CASE torn = {} /\ CarefulInv(lost, FALSE)
  <2>1. /\ CarefulInv(lost, FALSE)' /\ \E s \in Slots : OnlyChanges({s})
        /\ call.op \in {"writeFile", "deleteFile"} => OnlyChanges({busySlot})
        /\ call.op = "defrag" => OnlyChanges({})
    BY <1>1, CarefulNext
  <2>2. torn' = {}
    BY <1>1 DEF mended
  <2>3. call.op \in {"writeFile", "deleteFile"} => busySlot \in Slots
    <3>1. call.op \in {"writeFile", "deleteFile"} => isOpen(call.fd)
      BY <1>1 DEF CarefulInv, PhaseOK, phases, Inv, TypeOK, LocalsOK
    <3> QED
      BY <3>1, OpenFileFields DEF isOpen, busySlot
  <2> QED
    BY <2>1, <2>2, <2>3 DEF TornOK
<1>2. ASSUME NEW CONSTANT n \in Name, torn = {n},
             \/ TornInv(lost, n)
             \/ call.pc \in {"writeBlocks", "freeInode"} /\ tearing = {n} /\ CarefulInv(lost, FALSE)
      PROVE  /\ TornOK(lost)' /\ call.op # "defrag"
             /\ UNCHANGED diskVars \/ (busySlot \in Slots /\ OnlyChanges({busySlot}))
  <2>1. Mend
    BY <1>2
  <2>2. CASE TornInv(lost, n) /\ idle
    <3>1. call.op = "none"
      BY <2>2, TornHere DEF StillThere, idle, NoCall
    <3> QED
      BY <1>2, <2>1, <2>2, <3>1, MendIdle
  <2>3. CASE ~idle
    <3>1. Continue
      BY <2>1, <2>3, OnlyContinue
    <3>2. /\ call.pc \in {"eraseFileData", "writeBlocks", "freeInode"} /\ call.op # "defrag"
          /\ TornInv(lost, n) => call.pc \in {"eraseFileData", "freeInode"}
      <4>1. CASE TornInv(lost, n)
        BY <2>3, <4>1, TornHere DEF StillThere, idle, NoCall
      <4>2. CASE call.pc \in {"writeBlocks", "freeInode"} /\ CarefulInv(lost, FALSE) /\ ~TornInv(lost, n)
        BY <4>2, OpOfPhase DEF CarefulInv
      <4> QED
        BY <1>2, <4>1, <4>2
    <3>3. TornOK(lost)' /\ OnlyChanges({busySlot})
      BY <1>2, <3>1, <3>2, MendErasing, MendFreeing, MendingEnds
    <3>4. busySlot \in Slots
      BY <3>2, OpenFileFields DEF Inv, TypeOK, LocalsOK, isOpen, busySlot
    <3> QED
      BY <3>2, <3>3, <3>4
  <2>4. CASE idle /\ ~TornInv(lost, n)
    BY <1>2, <2>4 DEF idle
  <2> QED
    BY <2>2, <2>3, <2>4
<1>3. CASE \E n \in Name :
             /\ torn = {n}
             /\ \/ TornInv(lost, n)
                \/ call.pc \in {"writeBlocks", "freeInode"} /\ tearing = {n} /\ CarefulInv(lost, FALSE)
  BY <1>2, <1>3
<1> QED
  BY <1>1, <1>3 DEF TornOK

-----------------------------------------------------------------------------
(* The invariant                                                           *)

\* A step that changes no variable.
LEMMA TornStutters ==
  ASSUME NEW CONSTANT lost, TornOK(lost), UNCHANGED faultVars
  PROVE  TornOK(lost)'
<1>1. /\ disk' = disk /\ inodeIndices' = inodeIndices /\ openFiles' = openFiles
      /\ call' = call /\ torn' = torn /\ UNCHANGED vars
  BY DEF faultVars, vars
<1>2. freeBlocks' = freeBlocks /\ busySlot' = busySlot /\ usedSlots' = usedSlots
      /\ unusedSlots' = unusedSlots /\ tearing' = tearing /\ toWrite' = toWrite
  BY <1>1 DEF freeBlocks, busySlot, usedSlots, unusedSlots, tearing, toWrite
<1>3. CarefulInv(lost, FALSE) => CarefulInv(lost, FALSE)'
  BY <1>1, Stuttering
<1>4. ASSUME NEW CONSTANT n, TornInv(lost, n)
      PROVE  TornInv(lost, n)'
  <2>1. PICK s \in Slots, own \in [Blocks -> Slots], pos \in [Blocks -> Nat] :
          \/ \E rest \in SUBSET Blocks : Cut(lost, n, s, own, pos, rest)
          \/ Stale(lost, n, s, own, pos)
    BY <1>4 DEF TornInv
  <2>2. NamesOK' /\ TableApart' /\ lost \subseteq Blocks \ freeBlocks'
    BY <1>1, <1>2, <1>4 DEF TornInv, NamesOK, TableApart, inodeOf
  <2>3. ASSUME NEW CONSTANT rest \in SUBSET Blocks, Cut(lost, n, s, own, pos, rest)
        PROVE  TornInv(lost, n)'
    <3>1. CutAt(lost, s, own, pos, rest)'
      BY <1>1, <1>2, <2>3 DEF Cut, CutAt
    <3>2. CASE call = NoCall /\ Strung(pos, rest, inodeOf(s).nextBlock)
      <4>1. Strung(pos, rest, inodeOf(s).nextBlock)'
        BY <1>1, <1>2, <3>2 DEF Strung, inodeOf, freeOrNone
      <4>2. Cut(lost, n, s, own, pos, rest)'
        BY <1>1, <1>2, <2>3, <3>1, <3>2, <4>1 DEF Cut, Fresh, inodeOf
      <4> QED
        BY <2>2, <4>2 DEF TornInv
    <3>3. CASE CutErasing(n, s, pos, rest)
      <4>1. CutErasing(n, s, pos, rest)'
        BY <1>1, <1>2, <3>3 DEF CutErasing, Strung, Mending, isOpen, inodeOf, freeOrNone
      <4>2. Cut(lost, n, s, own, pos, rest)'
        BY <1>1, <1>2, <2>3, <3>1, <4>1 DEF Cut, Fresh, inodeOf
      <4> QED
        BY <2>2, <4>2 DEF TornInv
    <3> QED
      BY <2>3, <3>2, <3>3 DEF Cut
  <2>4. CASE Stale(lost, n, s, own, pos)
    <3>1. Stale(lost, n, s, own, pos)'
      BY <1>1, <1>2, <2>4 DEF Stale, Fresh, Mending, isOpen, inodeOf, freeOrNone
    <3> QED
      BY <2>2, <3>1 DEF TornInv
  <2> QED
    BY <2>1, <2>3, <2>4
<1>5. CASE torn = {} /\ CarefulInv(lost, FALSE)
  BY <1>1, <1>3, <1>5 DEF TornOK
<1>6. ASSUME NEW CONSTANT n \in Name, torn = {n},
             \/ TornInv(lost, n)
             \/ call.pc \in {"writeBlocks", "freeInode"} /\ tearing = {n} /\ CarefulInv(lost, FALSE)
      PROVE  TornOK(lost)'
  BY <1>1, <1>2, <1>3, <1>4, <1>6 DEF TornOK
<1>7. CASE \E n \in Name :
             /\ torn = {n}
             /\ \/ TornInv(lost, n)
                \/ call.pc \in {"writeBlocks", "freeInode"} /\ tearing = {n} /\ CarefulInv(lost, FALSE)
  BY <1>6, <1>7
<1> QED
  BY <1>5, <1>7 DEF TornOK

\* A step keeps all the blocks of the files, or a fault takes a little from them.
LEMMA FaultsStep ==
  ASSUME FailPoints \cap swapFileExtentPoints = {}, Habits = {},
         NEW CONSTANT lost \in SUBSET Blocks, Inv, Inv', TornOK(lost), [FaultNext]_faultVars
  PROVE  \E G \in SUBSET Blocks :
           /\ TornOK(lost \cup G)'
           /\ (G = {} /\ faults' = faults) \/ (LostByOne(G) /\ faults' = faults + 1)
<1>1. ASSUME TornOK(lost)', faults' = faults
      PROVE  \E G \in SUBSET Blocks :
               /\ TornOK(lost \cup G)'
               /\ (G = {} /\ faults' = faults) \/ (LostByOne(G) /\ faults' = faults + 1)
  <2>1. {} \in SUBSET Blocks /\ lost \cup {} = lost
    OBVIOUS
  <2>2. TornOK(lost \cup {})'
    BY <1>1, <2>1
  <2> QED
    BY <1>1, <2>1, <2>2
<1>2. CASE (IF torn = {} THEN ClientNext ELSE Mend) /\ torn' = mended /\ UNCHANGED faults
  <2>1. TornOK(lost)'
    BY <1>2, ClientKeeps
  <2> QED
    BY <1>1, <1>2, <2>1
<1>3. CASE faults' = faults + 1 /\ (Restart \/ AccessFails) /\ torn' = {n \in torn \cup tearing : ~gone(n)'}
  <2>1. \E G \in SUBSET Blocks : LostByOne(G) /\ TornOK(lost \cup G)'
    BY <1>3, FaultKeeps
  <2> QED
    BY <1>3, <2>1
<1>4. CASE UNCHANGED faultVars
  <2>1. TornOK(lost)' /\ faults' = faults
    BY <1>4, TornStutters DEF faultVars
  <2> QED
    BY <1>1, <2>1
<1> QED
  BY <1>2, <1>3, <1>4 DEF FaultNext

\* On a new disk no file is torn and nothing is lost.
LEMMA FaultsInit == FaultInit => TornOK({})
<1> SUFFICES ASSUME FaultInit PROVE TornOK({})
  OBVIOUS
<1>1. CarefulInv({}, FALSE)
  BY InitCareful, Untidy DEF FaultInit
<1> QED
  BY <1>1 DEF TornOK, FaultInit

\* Whatever fails, all files have their blocks but for the torn one.
LEMMA AlwaysFilesOK ==
  ASSUME FailPoints \cap swapFileExtentPoints = {}, Habits = {}
  PROVE  FaultSpec => [](Inv /\ FilesOK)
<1>1. FaultInit => FilesOK
  BY FaultsInit DEF FilesOK
<1>2. ASSUME Inv, Inv', FilesOK, [FaultNext]_faultVars
      PROVE  FilesOK'
  <2>1. PICK lost \in SUBSET Blocks : TornOK(lost)
    BY <1>2 DEF FilesOK
  <2>2. PICK G \in SUBSET Blocks : TornOK(lost \cup G)'
    BY <1>2, <2>1, FaultsStep
  <2> QED
    BY <2>2 DEF FilesOK
<1>3. Inv /\ Inv' /\ FilesOK /\ [FaultNext]_faultVars => FilesOK'
  BY <1>2
<1> QED
  BY <1>1, <1>3, AlwaysInvWithFaults, PTL DEF FaultSpec

-----------------------------------------------------------------------------
(* What holds whatever fails                                               *)

\* Whatever fails, as soon as no file is torn every file is whole, with the extents its
\* size calls for, and the open list agrees with the disk: the descriptor that
\* changePermissions leaves open included.
THEOREM MendedIsWholeCorrect ==
  ASSUME FailPoints \cap swapFileExtentPoints = {}, Habits = {}
  PROVE  FaultSpec => []MendedIsWhole
<1>1. ASSUME Inv, FilesOK, torn = {} PROVE ChainsMatchSizes /\ OpenTableFresh
  <2> SUFFICES ASSUME idle PROVE ChainsMatchSizes /\ OpenTableFresh
    BY DEF ChainsMatchSizes, OpenTableFresh
  <2>1. PICK lost \in SUBSET Blocks : CarefulInv(lost, FALSE)
    BY <1>1 DEF FilesOK, TornOK
  <2>2. PICK own \in [Blocks -> Slots], pos \in [Blocks -> Nat] :
          IsLayout(disk, inodeIndices, own, pos, lost, 0)
    BY <2>1, Settled DEF idle
  <2>3. disk \in [Blocks -> Block] /\ inodeIndices \in [Slots -> BlockLink]
    BY <1>1, Types
  <2>4. ASSUME NEW s \in usedSlots
        PROVE  /\ isFile(s)
               /\ LET ext == fileBlocks(s) \ {inodeIndices[s]}
                  IN /\ Cardinality(ext) = blocksFor(inodeOf(s).fileSize)
                     /\ \A b \in ext : disk[b].blockID = FILE_EXTENT_ID
    BY <2>2, <2>3, LayoutMatchesSizes
  <2>5. ChainsMatchSizes
    BY <2>4 DEF ChainsMatchSizes
  <2>6. call.pc # "freeInode"
    BY DEF idle
  <2>7. \A fd \in DOMAIN openFiles : isFile(openFiles[fd].inodeLinkIndex)
    BY <2>1, <2>6, SlotsLinked DEF CarefulInv, TableOK
  <2>8. OpenTableFresh
    BY <2>1, <2>6, <2>7 DEF CarefulInv, TableOK, OpenTableFresh
  <2> QED
    BY <2>5, <2>8
<1>2. Inv /\ FilesOK => MendedIsWhole
  BY <1>1 DEF MendedIsWhole
<1> QED
  BY <1>2, AlwaysFilesOK, PTL

\* What a step of the client and its faults does to the files.
LEMMA StepChanges ==
  ASSUME FailPoints \cap swapFileExtentPoints = {}, Habits = {},
         Inv, Inv', FilesOK, [FaultNext]_faultVars
  PROVE  \/ UNCHANGED diskVars
         \/ /\ \E s \in Slots : OnlyChanges({s})
            /\ call.op \in {"writeFile", "deleteFile"} => OnlyChanges({busySlot})
            /\ call.op = "defrag" => OnlyChanges({})
<1>1. PICK lost \in SUBSET Blocks : TornOK(lost)
  BY DEF FilesOK
<1>2. CASE (IF torn = {} THEN ClientNext ELSE Mend) /\ torn' = mended
  BY <1>1, <1>2, ClientKeeps
<1>3. CASE (Restart \/ AccessFails) /\ torn' = {n \in torn \cup tearing : ~gone(n)'}
  BY <1>1, <1>3, FaultKeeps
<1>4. CASE UNCHANGED faultVars
  BY <1>4 DEF faultVars, diskVars
<1> QED
  BY <1>2, <1>3, <1>4 DEF FaultNext

\* Wherever calls are cut off and whatever the client does to mend a file, no step
\* changes two files, and a write or a deletion changes only its own.
THEOREM OthersUntouchedWithFaults ==
  ASSUME FailPoints \cap swapFileExtentPoints = {}, Habits = {}
  PROVE  FaultSpec => OthersUntouched
<1> DEFINE untouched ==
      /\ Cardinality(changedFiles) <= 1
      /\ call.op \in {"writeFile", "deleteFile"} =>
           changedFiles \subseteq {openFiles[call.fd].inodeLinkIndex}
<1>1. ASSUME Inv, Inv', FilesOK, [FaultNext]_faultVars PROVE untouched
  <2>1. CASE UNCHANGED diskVars
    <3>1. changedFiles = {}
      BY <2>1 DEF changedFiles
    <3> QED
      BY <3>1, FS_EmptySet
  <2>2. CASE /\ \E s \in Slots : OnlyChanges({s})
             /\ call.op \in {"writeFile", "deleteFile"} => OnlyChanges({busySlot})
    <3>1. PICK s \in Slots : OnlyChanges({s})
      BY <2>2
    <3>2. changedFiles \subseteq {s}
      BY <3>1, ChangedFiles
    <3>3. Cardinality(changedFiles) <= 1
      BY <3>2, AtMostOneElement
    <3>4. call.op \in {"writeFile", "deleteFile"} => changedFiles \subseteq {busySlot}
      BY <2>2 DEF OnlyChanges, changedFiles
    <3> QED
      BY <3>3, <3>4 DEF busySlot
  <2> QED
    BY <1>1, <2>1, <2>2, StepChanges
<1>2. Inv /\ Inv' /\ FilesOK /\ [FaultNext]_faultVars => [untouched]_vars
  BY <1>1
<1> HIDE DEF untouched
<1>3. FaultSpec => [][untouched]_vars
  BY <1>2, AlwaysFilesOK, PTL DEF FaultSpec
<1> QED
  BY <1>3 DEF OthersUntouched, untouched

\* A client that mends a file that is gone takes no slot at all.
LEMMA StaleTakesNoSlot ==
  ASSUME Habits = {}, NEW CONSTANT lost, NEW CONSTANT n \in Name, Inv, Inv', TornInv(lost, n), torn = {n},
         torn' = mended, Mend, \E s, own, pos : Stale(lost, n, s, own, pos)
  PROVE  unusedSlots \ unusedSlots' = {}
<1>1. call = NoCall \/ call.pc \in {"eraseFileData", "freeInode"}
  BY DEF Stale
<1>2. CASE call = NoCall
  <2>1. UNCHANGED diskVars
    BY <1>2, MendIdle DEF idle, NoCall
  <2> QED
    BY <2>1 DEF diskVars, unusedSlots, usedSlots
<1>3. CASE call.pc \in {"eraseFileData", "freeInode"}
  BY <1>3, AnyClient, ErasingTakesNoSlot
<1> QED
  BY <1>1, <1>2, <1>3

\* Wherever calls are cut off, and with the descriptor that changePermissions leaves
\* open, a file that is created is nobody's.
THEOREM NoFileInheritedWithFaults ==
  ASSUME FailPoints \cap swapFileExtentPoints = {}, Habits = {}
  PROVE  FaultSpec => NoFileInherited
<1> DEFINE nobodys == \A s \in unusedSlots \ unusedSlots' :
                        \A fd \in DOMAIN openFiles : openFiles[fd].inodeLinkIndex # s
<1>1. ASSUME UNCHANGED diskVars PROVE nobodys
  BY <1>1 DEF diskVars, unusedSlots, usedSlots
<1>2. ASSUME Inv, Inv', FilesOK, IF torn = {} THEN ClientNext ELSE Mend, torn' = mended
      PROVE  nobodys
  <2>1. PICK lost \in SUBSET Blocks : TornOK(lost)
    BY <1>2 DEF FilesOK
  <2>2. CASE TableOK
    BY <1>2, <2>2, AnyClient, SlotTakenIsNobodys
  <2>3. ASSUME NEW CONSTANT n \in Name, torn = {n}, TornInv(lost, n)
        PROVE  nobodys
    <3>1. CASE \E s, own, pos, rest : Cut(lost, n, s, own, pos, rest)
      <4>1. \A fd \in DOMAIN openFiles : openFiles[fd].inodeLinkIndex \in usedSlots
        BY <3>1 DEF Cut, Fresh
      <4> QED
        BY <4>1 DEF unusedSlots
    <3>2. CASE \E s, own, pos : Stale(lost, n, s, own, pos)
      BY <1>2, <2>3, <3>2, StaleTakesNoSlot
    <3> QED
      BY <2>3, <3>1, <3>2 DEF TornInv
  <2> QED
    BY <2>1, <2>2, <2>3 DEF TornOK, CarefulInv
<1>3. ASSUME Inv, FilesOK, Restart \/ AccessFails, torn' = {n \in torn \cup tearing : ~gone(n)'}
      PROVE  nobodys
  BY <1>1, <1>3, FaultKeeps DEF FilesOK
<1>4. Inv /\ Inv' /\ FilesOK /\ [FaultNext]_faultVars => [nobodys]_vars
  BY <1>1, <1>2, <1>3 DEF FaultNext, faultVars, vars
<1> HIDE DEF nobodys
<1>5. FaultSpec => [][nobodys]_vars
  BY <1>4, AlwaysFilesOK, PTL DEF FaultSpec
<1> QED
  BY <1>5 DEF NoFileInherited, nobodys

\* No step of tfs_defrag changes a file, on a disk that faults have left blocks
\* behind on and when the walk over a file is given up.
THEOREM DefragKeepsFilesWithFaults ==
  ASSUME FailPoints \cap swapFileExtentPoints = {}, Habits = {}
  PROVE  FaultSpec => DefragKeepsFiles
<1> DEFINE kept == call.op = "defrag" => changedFiles = {}
<1>1. ASSUME Inv, Inv', FilesOK, [FaultNext]_faultVars PROVE kept
  <2> SUFFICES ASSUME call.op = "defrag" PROVE changedFiles = {}
    OBVIOUS
  <2>1. UNCHANGED diskVars \/ OnlyChanges({})
    BY <1>1, StepChanges
  <2> QED
    BY <2>1 DEF OnlyChanges, changedFiles
<1>2. Inv /\ Inv' /\ FilesOK /\ [FaultNext]_faultVars => [kept]_vars
  BY <1>1
<1> HIDE DEF kept
<1>3. FaultSpec => [][kept]_vars
  BY <1>2, AlwaysFilesOK, PTL DEF FaultSpec
<1> QED
  BY <1>3 DEF DefragKeepsFiles, kept

-----------------------------------------------------------------------------
(* Whose blocks are whose                                                  *)

\* The chain of a file r whose own blocks are H, and at most one of whose links leads
\* to a free block.
LEMMA ChainOfBroken ==
  ASSUME Inv, NEW r \in usedSlots, NEW H,
         inodeIndices[r] \in H,
         \A b \in H : disk[b].nextBlock \in H \cup freeOrNone
  PROVE  fileBlocks(r) \subseteq H \cup freeBlocks
<1>1. \A b \in freeBlocks : disk[b].nextBlock = noBlockLink
  BY Types DEF freeBlocks, Block, FREE_ID, INODE_ID, FILE_EXTENT_ID
<1> DEFINE T == H \cup freeBlocks
<1>2. \A b \in T : disk[b].nextBlock \in T \cup {noBlockLink}
  BY <1>1 DEF freeOrNone
<1>3. inodeIndices[r] \in T \cup {noBlockLink}
  OBVIOUS
<1> HIDE DEF T
<1>4. chainBlocks(inodeIndices[r]) \subseteq T
  BY <1>2, <1>3, ChainBlocksWithin
<1> QED
  BY <1>4 DEF T, fileBlocks

\* All files but r are whole, and r shares no block with them.
LEMMA OneBroken ==
  ASSUME Inv, NEW own \in [Blocks -> Slots], NEW pos \in [Blocks -> Nat], NEW F, NEW tail,
         IsLayout(disk, inodeIndices, own, pos, F, tail),
         NEW r \in usedSlots, NEW H \in SUBSET (Blocks \ freeBlocks),
         \A b \in placed(disk, F) : own[b] # r => b # tail /\ b \notin H,
         inodeIndices[r] \in H,
         \A b \in H : disk[b].nextBlock \in H \cup freeOrNone,
         r \in busySlots \/ (isFile(r) /\ inodeOf(r).fileName \in torn)
  PROVE  FilesKeepBlocks
<1>1. fileBlocks(r) \subseteq H \cup freeBlocks
  BY ChainOfBroken
<1>2. ASSUME NEW s \in usedSlots, s # r
      PROVE  fileBlocks(s) = {b \in placed(disk, F) : own[b] = s}
  BY <1>2, BlocksOfFile, Types
<1>3. placed(disk, F) \cap freeBlocks = {}
  BY DEF placed, freeBlocks
<1>4. \A s \in usedSlots : s # r =>
        fileBlocks(s) \cap freeBlocks = {} /\ fileBlocks(s) \cap H = {}
  BY <1>2, <1>3
<1>5. \A s, t \in usedSlots : s # t => fileBlocks(s) \cap fileBlocks(t) = {}
  <2> SUFFICES ASSUME NEW s \in usedSlots, NEW t \in usedSlots, s # t
               PROVE  fileBlocks(s) \cap fileBlocks(t) = {}
    OBVIOUS
  <2>1. CASE s # r /\ t # r
    BY <1>2, <2>1
  <2>2. CASE s = r \/ t = r
    BY <1>1, <1>4, <2>2
  <2> QED
    BY <2>1, <2>2
<1> QED
  BY <1>4, <1>5 DEF FilesKeepBlocks

\* No file is broken.
LEMMA NoneBroken ==
  ASSUME Inv, NEW own \in [Blocks -> Slots], NEW pos \in [Blocks -> Nat], NEW F,
         IsLayout(disk, inodeIndices, own, pos, F, 0)
  PROVE  FilesKeepBlocks
BY LayoutPartitions, Types DEF FilesKeepBlocks

\* While no file is torn, at most the one being written or deleted is broken.
LEMMA CarefulKeepsBlocks ==
  ASSUME NEW CONSTANT lost, Inv, CarefulInv(lost, FALSE)
  PROVE  FilesKeepBlocks
<1>1. PICK own \in [Blocks -> Slots], pos \in [Blocks -> Nat], tail \in BlockLink :
        /\ IsLayout(disk, inodeIndices, own, pos, afloat(lost), tail)
        /\ call.pc \notin {"eraseFileData", "writeBlocks"} => tail = noBlockLink
        /\ Erasing(lost, own, pos, tail)
        /\ Writing(lost, own, pos, tail)
  BY DEF CarefulInv, LayoutOK
<1>2. CASE call.pc \notin {"eraseFileData", "writeBlocks"}
  BY <1>1, <1>2, NoneBroken DEF noBlockLink
<1>3. CASE call.pc \in {"eraseFileData", "writeBlocks"}
  <2> DEFINE H == {b \in placed(disk, lost) : own[b] = busySlot}
  <2>1. /\ busySlot \in usedSlots /\ busySlot \in Slots /\ inodeIndices[busySlot] # noBlockLink
        /\ afloat(lost) = lost
    BY <1>3, BusyFile
  <2>2. IsLayout(disk, inodeIndices, own, pos, lost, tail)
    BY <1>1, <2>1
  <2>3. inodeIndices[busySlot] \in H
    BY <2>1, <2>2 DEF IsLayout, Rooted
  <2>4. tail \in H /\ disk[tail].nextBlock \in H \cup freeOrNone
    <3>1. CASE call.pc = "eraseFileData"
      BY <1>1, <2>3, <3>1 DEF Erasing, inodeOf, freeOrNone
    <3>2. CASE call.pc = "writeBlocks"
      BY <1>1, <3>2 DEF Writing, freeOrNone
    <3> QED
      BY <1>3, <3>1, <3>2
  <2>5. \A b \in H : disk[b].nextBlock \in H \cup freeOrNone
    <3> SUFFICES ASSUME NEW b \in H, b # tail PROVE disk[b].nextBlock \in H \cup freeOrNone
      BY <2>4
    <3> QED
      BY <2>2 DEF IsLayout, Linked, freeOrNone
  <2>6. H \in SUBSET (Blocks \ freeBlocks)
    BY DEF placed, freeBlocks
  <2>7. busySlot \in busySlots
    BY <1>3, OpOfPhase DEF busySlots, busySlot, CarefulInv
  <2>8. \A b \in placed(disk, lost) : own[b] # busySlot => b # tail /\ b \notin H
    BY <2>4
  <2> HIDE DEF H
  <2> QED
    BY <2>1, <2>2, <2>3, <2>5, <2>6, <2>7, <2>8, OneBroken
<1> QED
  BY <1>2, <1>3

\* While a file is torn, no other is broken.
LEMMA TornKeepsBlocks ==
  ASSUME NEW CONSTANT lost, NEW CONSTANT n, Inv, TornInv(lost, n), torn = {n}
  PROVE  FilesKeepBlocks
<1>1. PICK s \in Slots, own \in [Blocks -> Slots], pos \in [Blocks -> Nat] :
        \/ \E rest \in SUBSET Blocks : Cut(lost, n, s, own, pos, rest)
        \/ Stale(lost, n, s, own, pos)
  BY DEF TornInv
<1>2. ASSUME NEW rest \in SUBSET Blocks, Cut(lost, n, s, own, pos, rest)
      PROVE  FilesKeepBlocks
  <2> DEFINE F == lost \cup rest
             H == {inodeIndices[s]} \cup rest
  <2>1. /\ s \in usedSlots /\ inodeOf(s).fileName = n /\ rest \cap freeBlocks = {}
        /\ IsLayout(disk, inodeIndices, own, pos, F, inodeIndices[s])
    BY <1>2 DEF Cut, CutAt
  <2>2. isFile(s)
    BY <2>1, InodesPlaced DEF usedSlots, isFile, inodeOf
  <2>3. inodeIndices[s] \in placed(disk, F) /\ own[inodeIndices[s]] = s
    BY <2>1 DEF IsLayout, Rooted, usedSlots
  <2>4. H \in SUBSET (Blocks \ freeBlocks)
    BY <2>1, <2>3 DEF placed, freeBlocks
  <2>5. \A b \in placed(disk, F) : own[b] # s => b # inodeIndices[s] /\ b \notin H
    BY <2>3 DEF placed
  <2>6. PICK first :
          /\ Strung(pos, rest, first)
          /\ inodeOf(s).nextBlock = first \/ inodeOf(s).nextBlock \in freeBlocks
    BY <1>2 DEF Cut, CutErasing
  <2>7. first \in rest \cup freeOrNone /\ \A b \in rest : disk[b].nextBlock \in rest \cup freeOrNone
    BY <2>6 DEF Strung
  <2>8. \A b \in H : disk[b].nextBlock \in H \cup freeOrNone
    BY <2>6, <2>7 DEF inodeOf, freeOrNone
  <2>9. inodeOf(s).fileName \in torn
    BY <2>1
  <2> HIDE DEF F
  <2>10. inodeIndices[s] \in H
    OBVIOUS
  <2> HIDE DEF H
  <2> QED
    BY <2>1, <2>2, <2>4, <2>5, <2>8, <2>9, <2>10, OneBroken
<1>3. CASE Stale(lost, n, s, own, pos)
  BY <1>3, NoneBroken DEF Stale, noBlockLink
<1> QED
  BY <1>1, <1>2, <1>3

\* Whatever fails and wherever a call is cut off, no file has lost a block to another
\* file or to the free blocks, except the one file that is being written or deleted or
\* was when it was cut off; and that one leads into no other file.
THEOREM FilesKeepBlocksCorrect ==
  ASSUME FailPoints \cap swapFileExtentPoints = {}, Habits = {}
  PROVE  FaultSpec => []FilesKeepBlocks
<1>1. ASSUME Inv, FilesOK PROVE FilesKeepBlocks
  <2>1. PICK lost \in SUBSET Blocks : TornOK(lost)
    BY <1>1 DEF FilesOK
  <2>2. CASE CarefulInv(lost, FALSE)
    BY <1>1, <2>2, CarefulKeepsBlocks
  <2>3. CASE \E n \in Name : torn = {n} /\ TornInv(lost, n)
    <3>1. PICK n \in Name : torn = {n} /\ TornInv(lost, n)
      BY <2>3
    <3> QED
      BY <1>1, <3>1, TornKeepsBlocks
  <2> QED
    BY <2>1, <2>2, <2>3 DEF TornOK
<1>2. Inv /\ FilesOK => FilesKeepBlocks
  BY <1>1
<1> QED
  BY <1>2, AlwaysFilesOK, PTL

-----------------------------------------------------------------------------
(* How long the files are                                                  *)

\* What a step leaves of SizesOK when it writes no block, or one block that is no
\* inode or the inode of a file as long as a buffer.
LEMMA SizesKept ==
  ASSUME SizesOK, UNCHANGED disk,
         (call'.pc = "eraseFileData" /\ call'.op = "writeFile") => call'.buf \in Buffers
  PROVE  SizesOK'
BY DEF SizesOK

\* Whatever the block was before.
LEMMA OneSize ==
  ASSUME Inv, SizesOK, NEW b \in Blocks, NEW bl, disk' = [disk EXCEPT ![b] = bl],
         bl.blockID = INODE_ID => bl.fileSize \in sizes,
         (call'.pc = "eraseFileData" /\ call'.op = "writeFile") => call'.buf \in Buffers
  PROVE  SizesOK'
<1>1. disk \in [Blocks -> Block]
  BY Types
<1>2. ASSUME NEW c \in Blocks, disk'[c].blockID = INODE_ID
      PROVE  disk'[c].fileSize \in sizes
  <2>1. CASE c = b
    BY <1>1, <1>2, <2>1
  <2>2. CASE c # b
    BY <1>1, <1>2, <2>2 DEF SizesOK
  <2> QED
    BY <2>1, <2>2
<1> QED
  BY <1>2 DEF SizesOK

\* A call that ends, or that fails.
LEMMA SizesReturned ==
  ASSUME SizesOK, UNCHANGED disk, NEW code, Return(code)
  PROVE  SizesOK'
BY SizesKept DEF Return, NoCall

\* It writes no block.
LEMMA SizesFailed ==
  ASSUME SizesOK, NEW code, Fail(code)
  PROVE  SizesOK'
BY SizesReturned DEF Fail

\* The fields a write of one field leaves alone.
LEMMA FieldsKept ==
  ASSUME NEW bl \in Block
  PROVE  /\ \A next : /\ [bl EXCEPT !.nextBlock = next].blockID = bl.blockID
                      /\ bl.blockID = INODE_ID => [bl EXCEPT !.nextBlock = next].fileSize = bl.fileSize
         /\ \A mode : /\ [bl EXCEPT !.readMode = mode].blockID = bl.blockID
                      /\ bl.blockID = INODE_ID => [bl EXCEPT !.readMode = mode].fileSize = bl.fileSize
         /\ \A name : /\ [bl EXCEPT !.fileName = name].blockID = bl.blockID
                      /\ bl.blockID = INODE_ID => [bl EXCEPT !.fileName = name].fileSize = bl.fileSize
         /\ \A data : [bl EXCEPT !.data = data].blockID = bl.blockID
BY DEF Block, INODE_ID, FILE_EXTENT_ID, FREE_ID

\* The calls that write nothing, and the steps that write no inode but the one that
\* was there.
LEMMA SizesOfCalls ==
  ASSUME Inv, SizesOK, SafeCall
  PROVE  SizesOK'
<1>1. ASSUME NEW code, Return(code), UNCHANGED diskVars
      PROVE  SizesOK'
  BY <1>1, SizesReturned DEF diskVars
<1>2. CASE Mount \/ Unmount \/ CallUnmounted \/ NullName \/ Readdir
  BY <1>1, <1>2, SizesFailed DEF Mount, Unmount, CallUnmounted, NullName, Readdir
<1>3. CASE DisplayFragments
  BY <1>3, SizesKept DEF DisplayFragments, Begin, NoCall, diskVars
<1>4. ASSUME NEW name \in UserNames, OpenFile(name)
      PROVE  SizesOK'
  <2> DEFINE target == findFreeBlock(disk, 0)
             new    == inodeBlock(formatName(name), 0, noBlockLink, readAndWrite)
  <2>1. CASE \/ \E code : Fail(code)
             \/ \E code : Return(code) /\ UNCHANGED diskVars
    BY <1>1, <2>1, SizesFailed
  <2>2. CASE /\ target > 0 /\ disk' = [disk EXCEPT ![target] = new]
             /\ \E locals : Begin(locals) /\ locals.pc = "linkInode"
    <3>1. target \in Blocks
      BY <2>2, FindFreeBlock, ErrorCodes DEF ENOSPC
    <3>2. new.fileSize \in sizes
      BY DEF inodeBlock, sizes
    <3>3. call'.pc = "linkInode"
      BY <2>2 DEF Begin
    <3>4. disk' = [disk EXCEPT ![target] = new]
      BY <2>2
    <3> HIDE DEF target, new
    <3> QED
      BY <3>1, <3>2, <3>3, <3>4, OneSize
  <2>3. ASSUME NEW locals, locals = [NoCall EXCEPT !.op = "openFile", !.pc = "linkInode",
                                             !.cur = target, !.slot = searchSB(formatName(name)).slot,
                                             !.name = formatName(name)]
        PROVE  locals.pc = "linkInode"
    BY <2>3 DEF NoCall
  <2> QED
    BY <1>4, <2>1, <2>2, <2>3 DEF OpenFile
<1>5. ASSUME NEW slot \in Slots, NEW mode, NEW code, setReadMode(slot, mode), Return(code)
      PROVE  SizesOK'
  <2> DEFINE b == inodeIndices[slot]
  <2>1. disk \in [Blocks -> Block] /\ b \in BlockLink
    BY Types
  <2>2. CASE b = noBlockLink
    BY <1>5, <2>2, SizesReturned DEF setReadMode
  <2>3. CASE b # noBlockLink
    <3>1. b \in Blocks /\ disk[b] \in Block
      BY <2>1, <2>3, NoCallFields
    <3>2. PICK bl : /\ disk' = [disk EXCEPT ![b] = bl]
                    /\ \/ /\ disk[b].blockID = FILE_EXTENT_ID
                          /\ \E data : bl = [disk[b] EXCEPT !.data = data]
                       \/ bl = [disk[b] EXCEPT !.readMode = mode]
      BY <1>5, <2>3 DEF setReadMode
    <3>3. bl.blockID = INODE_ID => bl.fileSize \in sizes
      <4>1. CASE disk[b].blockID = FILE_EXTENT_ID /\ \E data : bl = [disk[b] EXCEPT !.data = data]
        <5>1. bl.blockID = FILE_EXTENT_ID
          BY <3>1, <4>1, FieldsKept
        <5> QED
          BY <5>1 DEF INODE_ID, FILE_EXTENT_ID
      <4>2. CASE bl = [disk[b] EXCEPT !.readMode = mode]
        <5> DEFINE old == disk[b]
        <5>1. old \in Block /\ bl = [old EXCEPT !.readMode = mode]
          BY <3>1, <4>2
        <5>2. old.blockID = INODE_ID => old.fileSize \in sizes
          BY <3>1 DEF SizesOK
        <5> HIDE DEF old
        <5> QED
          BY <5>1, <5>2, FieldsKept
      <4> QED
        BY <3>2, <4>1, <4>2
    <3>4. call'.pc = "idle"
      BY <1>5 DEF Return, NoCall
    <3> HIDE DEF b
    <3> QED
      BY <3>1, <3>2, <3>3, <3>4, OneSize
  <2> QED
    BY <2>2, <2>3
<1>6. ASSUME NEW name \in UserNames, MakeRO(name) \/ MakeRW(name)
      PROVE  SizesOK'
  <2> DEFINE fname == formatName(name)
             found == searchSB(fname)
             openFD == openFDs_searchByName(fname)
  <2>1. PICK mode \in readFlag : ChangePermissions(name, mode)
    BY <1>6 DEF MakeRO, MakeRW, readFlag
  <2>2. CASE \E code : Fail(code)
    BY <2>2, SizesFailed
  <2>3. CASE /\ openUnder(fname) # {}
             /\ setReadMode(openFiles[openFD].inodeLinkIndex, mode)
             /\ Return(0)
    <3>1. /\ currentFD \in Nat /\ openUnder(fname) \in SUBSET (0..currentFD)
          /\ openUnder(fname) \subseteq DOMAIN openFiles
      BY DiskAssumption DEF Inv, TypeOK, OpenListOK, openUnder
    <3>2. openFD \in DOMAIN openFiles
      BY <2>3, <3>1, MaxOfBoundedNats DEF openFDs_searchByName
    <3> HIDE DEF openFD
    <3>3. openFiles[openFD].inodeLinkIndex \in Slots
      BY <3>2, OpenFileFields
    <3> QED
      BY <1>5, <2>3, <3>3
  <2>4. CASE found.code = 1 /\ setReadMode(found.slot, mode) /\ Return(0)
    <3>1. found.slot \in Slots
      BY <2>4, SearchSB
    <3> HIDE DEF found
    <3> QED
      BY <1>5, <2>4, <3>1
  <2> QED
    BY <2>1, <2>2, <2>3, <2>4 DEF ChangePermissions
<1>7. ASSUME NEW fd \in FDs, CloseFile(fd) \/ ReadFileInfo(fd) \/ \E offset \in SeekOffsets : Seek(fd, offset)
      PROVE  SizesOK'
  BY <1>1, <1>7, SizesFailed DEF CloseFile, ReadFileInfo, Seek
<1>8. ASSUME NEW fd \in FDs, DeleteFile(fd)
      PROVE  SizesOK'
  <2>1. CASE \E code : Fail(code)
    BY <2>1, SizesFailed
  <2>2. CASE UNCHANGED diskVars /\ call'.op = "deleteFile"
    BY <2>2, SizesKept DEF diskVars
  <2> QED
    BY <1>8, <2>1, <2>2 DEF DeleteFile, Begin, NoCall
<1>9. ASSUME NEW fd \in FDs, ReadByte(fd)
      PROVE  SizesOK'
  <2>1. CASE \E code : Fail(code)
    BY <2>1, SizesFailed
  <2>2. CASE idle /\ UNCHANGED <<diskVars, call>>
    BY <2>2, SizesKept DEF idle, diskVars
  <2> QED
    BY <1>9, <2>1, <2>2 DEF ReadByte, Ready
<1>10. ASSUME NEW fd \in FDs, NEW byte \in WriteBytes, WriteByte(fd, byte)
       PROVE  SizesOK'
  <2> DEFINE file  == openFiles[fd]
             err   == locateByte(file)
             block == extentAt(file.nextBlockIndex, file.location \div DataPerBlock)
             i     == file.location % DataPerBlock
  <2>1. CASE \E code : Fail(code)
    BY <2>1, SizesFailed
  <2>2. CASE /\ isOpen(fd) /\ err = 0
             /\ disk' = [disk EXCEPT ![block].data[i] = byte]
             /\ Return(0)
    <3>1. block \in Blocks /\ disk[block].blockID = FILE_EXTENT_ID
      BY <2>2, LocateByte
    <3>2. PICK bl : /\ disk' = [disk EXCEPT ![block] = bl]
                    /\ \E data : bl = [disk[block] EXCEPT !.data = data]
      BY <2>2
    <3> HIDE DEF block
    <3>3. bl.blockID # INODE_ID
      BY <3>1, <3>2, FieldsKept, Types DEF INODE_ID, FILE_EXTENT_ID
    <3>4. call'.pc = "idle"
      BY <2>2 DEF Return, NoCall
    <3> QED
      BY <3>1, <3>2, <3>3, <3>4, OneSize
  <2> QED
    BY <1>10, <2>1, <2>2 DEF WriteByte
<1> QED
  BY <1>2, <1>3, <1>4, <1>6, <1>7, <1>8, <1>9, <1>10 DEF SafeCall

\* The steps of a call that has begun: only updateInode writes another size, that of its buffer.
LEMMA SizesOfContinue ==
  ASSUME Inv, SizesOK, Continue
  PROVE  SizesOK'
<1>1. disk \in [Blocks -> Block] /\ call.pc \in {"idle", "linkInode", "eraseFileData",
        "writeBlocks", "freeInode", "display", "defragInode", "swapInodeLink", "freeOldInode",
        "iterateFEs", "swapExtentLink", "freeOldExtent"} /\ call.cur \in BlockLink /\ call \in Locals
  BY Types DEF Inv, TypeOK, LocalsOK, Locals
<1>2. \A code : Fail(code) => SizesOK'
  BY SizesFailed
<1>3. freeBlock.blockID # INODE_ID
  BY DEF freeBlock, INODE_ID, FREE_ID
<1>4. ASSUME call'.pc # "eraseFileData", UNCHANGED disk
      PROVE  SizesOK'
  BY <1>4, SizesKept
<1>5. ASSUME NEW b \in Blocks, disk' = [disk EXCEPT ![b] = freeBlock], call'.pc # "eraseFileData"
      PROVE  SizesOK'
  BY <1>3, <1>5, OneSize
<1>6. \A code : Return(code) => call'.pc = "idle"
  BY DEF Return, NoCall
<1>7. CASE LinkInode
  BY <1>4, <1>6, <1>7 DEF LinkInode
<1>8. CASE EraseBlock
  <2>1. call.cur \in Blocks
    BY <1>1, <1>8, NoCallFields DEF EraseBlock
  <2>2. call'.op = call.op /\ call'.buf = call.buf /\ call.pc = "eraseFileData"
    BY <1>1, <1>8 DEF EraseBlock, Locals
  <2> QED
    BY <1>3, <1>8, <2>1, <2>2, OneSize DEF EraseBlock, SizesOK
<1>9. CASE UpdateInode
  <2> DEFINE file  == openFiles[call.fd]
             first == findFreeBlock(disk, 0)
  <2>1. CASE /\ inodeLink(file) # noBlockLink
             /\ \E mode \in readFlag :
                  disk' = [disk EXCEPT ![inodeLink(file)] =
                             inodeBlock(file.fileName, Len(call.buf), first, mode)]
             /\ call'.pc # "eraseFileData"
    <3>1. inodeLink(file) \in Blocks
      <4>1. file.inodeLinkIndex \in Slots
        BY <1>9, OpenFileFields DEF UpdateInode, Inv, TypeOK, LocalsOK, isOpen
      <4> QED
        BY <2>1, <4>1, Types, NoCallFields DEF inodeLink
    <3>2. PICK mode \in readFlag :
            disk' = [disk EXCEPT ![inodeLink(file)] =
                       inodeBlock(file.fileName, Len(call.buf), first, mode)]
      BY <2>1
    <3>3. inodeBlock(file.fileName, Len(call.buf), first, mode).fileSize \in sizes
      BY <1>9 DEF UpdateInode, SizesOK, sizes, inodeBlock
    <3> HIDE DEF file, first
    <3> QED
      BY <2>1, <3>1, <3>2, <3>3, OneSize
  <2>2. CASE \E code : Fail(code)
    BY <1>2, <2>2
  <2>3. \A locals : Begin(locals) /\ locals.pc = "writeBlocks" => call'.pc # "eraseFileData"
    BY DEF Begin
  <2>4. [call EXCEPT !.pc = "writeBlocks", !.cur = first].pc = "writeBlocks"
    BY <1>1 DEF Locals
  <2> QED
    BY <1>6, <1>9, <2>1, <2>2, <2>3, <2>4 DEF UpdateInode
<1>10. CASE WriteBlock
  <2>1. CASE \E code : Fail(code)
    BY <1>2, <2>1
  <2>2. CASE /\ call.pc = "writeBlocks"
             /\ \E next : disk' = [disk EXCEPT ![call.cur] = fileExtentBlock(next, blockOf(call.buf))]
             /\ call'.pc # "eraseFileData"
    <3>1. call.cur \in Blocks
      BY <2>2 DEF Inv, TypeOK, LocalsOK
    <3>2. PICK next : disk' = [disk EXCEPT ![call.cur] = fileExtentBlock(next, blockOf(call.buf))]
      BY <2>2
    <3>3. fileExtentBlock(next, blockOf(call.buf)).blockID # INODE_ID
      BY DEF fileExtentBlock, INODE_ID, FILE_EXTENT_ID
    <3> QED
      BY <2>2, <3>1, <3>2, <3>3, OneSize
  <2>3. \A next, buf : Begin([call EXCEPT !.cur = next, !.buf = buf]) => call'.pc = call.pc
    BY <1>1 DEF Begin, Locals
  <2> QED
    BY <1>6, <1>10, <2>1, <2>2, <2>3 DEF WriteBlock
<1>11. CASE RemoveInode
  BY <1>1, <1>4, <1>11 DEF RemoveInode, Begin, Locals
<1>12. CASE FreeInode
  <2>1. CASE call.cur # noBlockLink /\ disk' = [disk EXCEPT ![call.cur] = freeBlock] /\ Return(0)
    <3>1. call.cur \in Blocks
      BY <1>1, <2>1, NoCallFields
    <3> QED
      BY <1>5, <1>6, <2>1, <3>1
  <2> QED
    BY <1>2, <1>12, <2>1 DEF FreeInode
<1>13. CASE DisplayBlock
  <2>1. CASE \E code : Fail(code)
    BY <1>2, <2>1
  <2>2. CASE \E s, c : call' = [call EXCEPT !.slot = s, !.cur = c] /\ UNCHANGED disk
    <3>1. call'.pc = call.pc
      BY <1>1, <2>2 DEF Locals
    <3> QED
      BY <1>4, <1>13, <2>2, <3>1 DEF DisplayBlock
  <2>3. CASE \E c : call' = [call EXCEPT !.cur = c] /\ UNCHANGED disk
    <3>1. call'.pc = call.pc
      BY <1>1, <2>3 DEF Locals
    <3> QED
      BY <1>4, <1>13, <2>3, <3>1 DEF DisplayBlock
  <2> QED
    BY <1>13, <2>1, <2>2, <2>3 DEF DisplayBlock, diskVars
<1>14. ASSUME NEW b \in Blocks, NEW c \in Blocks, disk' = [disk EXCEPT ![b] = disk[c]],
              call'.pc # "eraseFileData"
       PROVE  SizesOK'
  BY <1>14, OneSize DEF SizesOK
<1>15. CASE DefragInode
  <2> DEFINE s    == Min(slotsFrom(call.slot))
             link == inodeIndices[s]
             err  == safeReadBlock(link, {INODE_ID})
  <2>1. CASE \E code : Fail(code)
    BY <1>2, <2>1
  <2>2. CASE slotsFrom(call.slot) # {} /\ err = 0 /\ disk' = [disk EXCEPT ![call.free] = disk[link]]
             /\ call'.pc = "swapInodeLink"
    <3>1. link \in Blocks
      BY <2>2, NextUsedSlot
    <3>2. call.free \in Blocks
      BY <1>15 DEF DefragInode, Inv, DefragCursor, freeBlocks
    <3> HIDE DEF link, err
    <3> QED
      BY <1>14, <2>2, <3>1, <3>2
  <2>3. CASE UNCHANGED disk /\ call'.pc = "iterateFEs"
    BY <1>4, <2>3
  <2>4. /\ [call EXCEPT !.pc = "swapInodeLink", !.slot = s, !.cur = link].pc = "swapInodeLink"
        /\ \A next : [call EXCEPT !.pc = "iterateFEs", !.slot = s, !.prev = link, !.cur = next].pc = "iterateFEs"
    BY <1>1 DEF Locals
  <2> QED
    BY <1>15, <2>1, <2>2, <2>3, <2>4 DEF DefragInode, diskVars
<1>16. CASE SwapInodeLink
  BY <1>1, <1>4, <1>16 DEF SwapInodeLink, Locals
<1>17. CASE FreeOldInode
  <2>1. call.cur \in Blocks /\ disk' = [disk EXCEPT ![call.cur] = freeBlock]
    BY <1>17 DEF FreeOldInode, Inv, TypeOK, LocalsOK
  <2>2. call'.pc # "eraseFileData"
    BY <1>1, <1>6, <1>17 DEF FreeOldInode, Locals
  <2> QED
    BY <1>5, <2>1, <2>2
<1>18. CASE IterateFEs
  <2>1. CASE call' = nextSlot /\ UNCHANGED disk
    BY <1>1, <1>4, <2>1 DEF nextSlot, Locals
  <2>2. CASE /\ 0 < call.free /\ safeReadBlock(call.cur, {FILE_EXTENT_ID}) = 0
             /\ disk' = [disk EXCEPT ![call.free] = disk[call.cur]]
             /\ call' = [call EXCEPT !.pc = "swapExtentLink"]
    <3>1. call.cur \in Blocks /\ call.free \in Blocks
      BY <1>18, <2>2, SafeReadBlock DEF IterateFEs, Inv, TypeOK, LocalsOK
    <3>2. call'.pc = "swapExtentLink"
      BY <1>1, <2>2 DEF Locals
    <3> QED
      BY <1>14, <2>2, <3>1, <3>2
  <2>3. CASE UNCHANGED disk /\ call.pc = "iterateFEs" /\ \E p, c : call' = [call EXCEPT !.prev = p, !.cur = c]
    BY <1>1, <1>4, <2>3 DEF Locals
  <2> QED
    BY <1>18, <2>1, <2>2, <2>3 DEF IterateFEs, diskVars
<1>19. CASE SwapExtentLink
  <2> DEFINE bl == [disk[call.prev] EXCEPT !.nextBlock = call.free]
  <2>1. call.prev \in Blocks /\ disk[call.prev] \in Block /\ disk' = [disk EXCEPT ![call.prev] = bl]
    BY <1>1, <1>19 DEF SwapExtentLink, Inv, TypeOK, LocalsOK
  <2>2. bl.blockID = INODE_ID => bl.fileSize \in sizes
    BY <2>1, FieldsKept DEF SizesOK
  <2>3. call'.pc = "freeOldExtent"
    BY <1>1, <1>19 DEF SwapExtentLink, Locals
  <2> HIDE DEF bl
  <2> QED
    BY <2>1, <2>2, <2>3, OneSize
<1>20. CASE FreeOldExtent
  <2>1. call.cur \in Blocks /\ disk' = [disk EXCEPT ![call.cur] = freeBlock]
    BY <1>20 DEF FreeOldExtent, Inv, TypeOK, LocalsOK
  <2>2. call'.pc # "eraseFileData"
    BY <1>1, <1>20 DEF FreeOldExtent, nextSlot, Locals
  <2> QED
    BY <1>5, <2>1, <2>2
<1> QED
  BY <1>7, <1>8, <1>9, <1>10, <1>11, <1>12, <1>13, <1>15, <1>16, <1>17, <1>18, <1>19, <1>20 DEF Continue

\* No call makes an inode of another size.
LEMMA SizesStay ==
  ASSUME Inv, SizesOK, Next
  PROVE  SizesOK'
<1>1. ASSUME NEW fd \in FDs, NEW buffer \in Buffers, WriteFile(fd, buffer)
      PROVE  SizesOK'
  <2>1. CASE \E code : Fail(code)
    BY <2>1, SizesFailed
  <2>2. CASE call'.buf = buffer /\ UNCHANGED diskVars
    BY <2>2, SizesKept DEF diskVars
  <2> QED
    BY <1>1, <2>1, <2>2 DEF WriteFile, Begin, NoCall
<1>2. ASSUME NEW fd \in FDs, NEW newName \in UserNames, Rename(fd, newName)
      PROVE  SizesOK'
  <2> DEFINE file == openFiles[fd]
             err  == safeReadBlock(inodeLink(file), {INODE_ID})
             name == formatName(newName)
             bl   == [disk[inodeLink(file)] EXCEPT !.fileName = name]
  <2>1. CASE \E code : Fail(code)
    BY <2>1, SizesFailed
  <2>2. CASE err = 0 /\ disk' = [disk EXCEPT ![inodeLink(file)].fileName = name] /\ Return(0)
    <3>1. inodeLink(file) \in Blocks /\ disk[inodeLink(file)] \in Block
      BY <2>2, SafeReadBlock, Types
    <3>2. bl.blockID = INODE_ID => bl.fileSize \in sizes
      BY <3>1, FieldsKept DEF SizesOK
    <3>3. disk' = [disk EXCEPT ![inodeLink(file)] = bl] /\ call'.pc = "idle"
      BY <2>2 DEF Return, NoCall
    <3> HIDE DEF bl, file
    <3> QED
      BY <3>1, <3>2, <3>3, OneSize
  <2> QED
    BY <1>2, <2>1, <2>2 DEF Rename
<1>3. CASE Defrag
  <2>1. CASE \E code : Fail(code)
    BY <2>1, SizesFailed
  <2>2. CASE call'.op = "defrag" /\ UNCHANGED diskVars
    BY <2>2, SizesKept DEF diskVars
  <2> QED
    BY <1>3, <2>1, <2>2 DEF Defrag, Begin, NoCall
<1>4. CASE FormatMounted
  <2>1. call'.pc = "idle" /\ disk' = [b \in Blocks |-> freeBlock]
    BY <1>4 DEF FormatMounted, Return, NoCall
  <2>2. freeBlock.blockID # INODE_ID
    BY DEF freeBlock, FREE_ID, INODE_ID
  <2> QED
    BY <2>1, <2>2 DEF SizesOK
<1> QED
  BY <1>1, <1>2, <1>3, <1>4, SizesOfCalls, SizesOfContinue DEF Next

\* Nor does a fault.
LEMMA SizesStayWithFaults ==
  ASSUME FailPoints \cap swapFileExtentPoints = {}, Inv, SizesOK, [FaultNext]_faultVars
  PROVE  SizesOK'
<1>1. CASE ClientNext \/ Mend
  BY <1>1, AnyClient, SizesStay
<1>2. CASE Restart \/ AccessFails
  <2>1. UNCHANGED disk /\ (call'.pc # "eraseFileData")
    <3>1. CASE CutOff \/ Reopening
      BY <3>1 DEF CutOff, Reopening, diskVars, NoCall
    <3>2. CASE call.pc = "iterateFEs" /\ IterateFEsFails
      BY <3>2, Types DEF IterateFEsFails, nextSlot, Locals, diskVars
    <3> QED
      BY <1>2, <3>1, <3>2, FaultKinds
  <2> QED
    BY <2>1, SizesKept
<1>3. CASE UNCHANGED faultVars
  BY <1>3 DEF faultVars, SizesOK
<1> QED
  BY <1>1, <1>2, <1>3 DEF FaultNext

-----------------------------------------------------------------------------
(* How much faults take                                                    *)

\* A file has no more extents than bytes.
LEMMA BlocksForBound ==
  ASSUME NEW n \in Nat
  PROVE  blocksFor(n) \in Nat /\ blocksFor(n) <= n
<1> DEFINE m == DataPerBlock
           q == blocksFor(n)
<1>1. m \in Nat \ {0} /\ q = (n + m - 1) \div m /\ n + m - 1 \in Nat
  BY DiskAssumption DEF blocksFor
<1>2. q \in Nat /\ m * q <= n + m - 1
  BY <1>1, Quotient
<1> HIDE DEF m, q
<1>3. ~(n + 1 <= q)
  <2> SUFFICES ASSUME n + 1 <= q PROVE FALSE
    OBVIOUS
  <2>1. m * (n + 1) <= m * q
    BY <1>1, <1>2
  <2>2. m * (n + 1) = m * n + m
    BY <1>1
  <2>3. m * n >= n
    BY <1>1
  <2> QED
    BY <1>1, <1>2, <2>1, <2>2, <2>3
<1>4. q <= n
  BY <1>2, <1>3
<1> QED
  BY <1>2, <1>4 DEF q

\* A buffer has no more bytes than its length, an int, can say.
buffersBounded == \E limit \in Nat : \A buffer \in Buffers : Len(buffer) <= limit

\* So mostFloating is a number, and as many as any file has extents behind its first.
LEMMA MostFloating ==
  ASSUME buffersBounded
  PROVE  /\ mostFloating \in Nat /\ 1 <= mostFloating
         /\ \A n \in sizes : blocksFor(n) - 1 <= mostFloating
<1> DEFINE S == {1} \cup {blocksFor(Len(buffer)) - 1 : buffer \in Buffers}
<1>1. PICK limit \in Nat : \A buffer \in Buffers : Len(buffer) <= limit
  BY DEF buffersBounded
<1>2. \A buffer \in Buffers : /\ Len(buffer) \in Nat /\ blocksFor(Len(buffer)) \in Nat
                              /\ blocksFor(Len(buffer)) <= limit
  BY <1>1, Inputs, BlocksForBound
<1>3. S \in SUBSET Int /\ limit + 1 \in Int /\ \A x \in S : x <= limit + 1
  BY <1>2
<1>4. 1 \in S /\ \A buffer \in Buffers : blocksFor(Len(buffer)) - 1 \in S
  OBVIOUS
<1>5. mostFloating = Max(S)
  BY DEF mostFloating
<1> HIDE DEF S
<1>6. mostFloating \in S /\ \A x \in S : x <= mostFloating
  BY <1>3, <1>4, <1>5, MaxOfBoundedInts
<1>7. mostFloating \in Nat /\ 1 <= mostFloating
  BY <1>3, <1>4, <1>6
<1>8. ASSUME NEW n \in sizes
      PROVE  blocksFor(n) - 1 <= mostFloating
  <2>1. CASE n = 0
    BY <1>7, <2>1, BlocksFor
  <2>2. CASE \E buffer \in Buffers : n = Len(buffer)
    BY <1>4, <1>6, <2>2
  <2> QED
    BY <2>1, <2>2 DEF sizes
<1> QED
  BY <1>7, <1>8

\* One fault takes no more blocks than mostFloating.
LEMMA LostByOneIsFew ==
  ASSUME buffersBounded, Inv, SizesOK, NEW CONSTANT lost, TornOK(lost),
         NEW G, LostByOne(G)
  PROVE  IsFiniteSet(G) /\ Cardinality(G) \in Nat /\ Cardinality(G) <= mostFloating
<1>1. mostFloating \in Nat /\ 1 <= mostFloating
  BY MostFloating
<1>2. CASE \E x : G \subseteq {x}
  <2>1. PICK x : G \in SUBSET {x}
    BY <1>2
  <2>2. IsFiniteSet({x}) /\ Cardinality(G) <= 1
    BY <2>1, FS_Singleton, AtMostOneElement
  <2>3. IsFiniteSet(G) /\ Cardinality(G) \in Nat
    BY <2>1, <2>2, FS_Subset, FS_CardinalityType
  <2> QED
    BY <1>1, <2>2, <2>3
<1>3. CASE \E s \in usedSlots, pos \in [Blocks -> Nat] :
             /\ \A b \in G : pos[b] \in 2..extents(disk, inodeIndices, s)
             /\ \A b, c \in G : pos[b] = pos[c] => b = c
  <2>1. PICK s \in usedSlots, pos \in [Blocks -> Nat] :
          /\ \A b \in G : pos[b] \in 2..extents(disk, inodeIndices, s)
          /\ \A b, c \in G : pos[b] = pos[c] => b = c
    BY <1>3
  <2> DEFINE K == extents(disk, inodeIndices, s)
             f == [b \in G |-> pos[b]]
  <2>2. isFile(s)
    <3>1. CASE CarefulInv(lost, FALSE)
      BY <3>1, SlotsLinked
    <3>2. CASE \E n \in Name : TornInv(lost, n)
      <4>1. safeReadBlock(inodeIndices[s], {INODE_ID}) = 0
        BY <3>2, TornHere DEF StillThere
      <4> QED
        BY <4>1, SafeReadBlock DEF isFile, inodeOf
    <3> QED
      BY <3>1, <3>2 DEF TornOK
  <2>3. inodeIndices[s] \in Blocks
    BY <2>2, Types, NoCallFields DEF isFile, usedSlots
  <2>4. disk[inodeIndices[s]].fileSize \in sizes
    BY <2>2, <2>3 DEF SizesOK, isFile, inodeOf
  <2>5. disk[inodeIndices[s]].fileSize \in Nat
    BY <2>2, <2>3, Types, BlockFields DEF isFile, inodeOf
  <2>6. K \in Nat /\ K - 1 <= mostFloating
    BY <2>4, <2>5, MostFloating, BlocksForBound DEF extents
  <2> HIDE DEF K
  <2>7. IsFiniteSet(2..K) /\ Cardinality(2..K) = IF 2 > K THEN 0 ELSE K - 2 + 1
    BY <2>6, FS_Interval
  <2>8. f \in Injection(G, 2..K)
    BY <2>1 DEF K, Injection, IsInjective
  <2>9. IsFiniteSet(G) /\ Cardinality(G) <= Cardinality(2..K)
    BY <2>7, <2>8, FS_Injection
  <2>10. Cardinality(G) \in Nat /\ Cardinality(2..K) <= mostFloating
    BY <1>1, <2>6, <2>7, <2>9, FS_CardinalityType
  <2> QED
    BY <1>1, <2>6, <2>7, <2>9, <2>10
<1> QED
  BY <1>2, <1>3 DEF LostByOne

\* A fault adds no more than mostFloating to what was lost before.
LEMMA FewLostStays ==
  ASSUME FailPoints \cap swapFileExtentPoints = {}, Habits = {}, buffersBounded,
         Inv, Inv', FewLost, [FaultNext]_faultVars
  PROVE  FewLost'
<1>1. PICK lost \in SUBSET Blocks :
        TornOK(lost) /\ Cardinality(lost) <= faults * mostFloating
  BY DEF FewLost
<1>2. SizesOK /\ faults \in Nat
  BY DEF FewLost
<1>3. SizesOK'
  BY <1>2, SizesStayWithFaults
<1>4. PICK G \in SUBSET Blocks :
        /\ TornOK(lost \cup G)'
        /\ (G = {} /\ faults' = faults) \/ (LostByOne(G) /\ faults' = faults + 1)
  BY <1>1, FaultsStep
<1>5. mostFloating \in Nat
  BY MostFloating
<1>6. mostFloating' = mostFloating
  BY DEF mostFloating
<1>7. IsFiniteSet(Blocks)
  BY DiskAssumption, FS_Interval DEF Blocks
<1>8. /\ IsFiniteSet(lost) /\ Cardinality(lost) \in Nat
      /\ IsFiniteSet(G) /\ Cardinality(G) \in Nat
  BY <1>7, FS_Subset, FS_CardinalityType
<1>9. Cardinality(lost \cup G) <= Cardinality(lost) + Cardinality(G)
  <2>1. /\ Cardinality(lost \cup G) = Cardinality(lost) + Cardinality(G) - Cardinality(lost \cap G)
        /\ Cardinality(lost \cap G) \in Nat /\ Cardinality(lost \cup G) \in Nat
    <3>1. IsFiniteSet(lost \cap G)
      BY <1>8, FS_Subset
    <3> QED
      BY <1>8, <3>1, FS_Union, FS_CardinalityType
  <2> QED
    BY <1>8, <2>1
<1>10. faults' \in Nat /\ Cardinality(lost \cup G) <= faults' * mostFloating
  <2> DEFINE m == mostFloating
             l == Cardinality(lost)
             g == Cardinality(G)
             u == Cardinality(lost \cup G)
  <2>1. m \in Nat /\ l \in Nat /\ g \in Nat /\ u \in Int /\ l <= faults * m /\ u <= l + g
    <3>1. u \in Nat
      BY <1>8, FS_Union, FS_CardinalityType
    <3> QED
      BY <1>1, <1>5, <1>8, <1>9, <3>1
  <2>2. CASE G = {} /\ faults' = faults
    <3>1. g = 0
      BY <2>2, FS_EmptySet
    <3> HIDE DEF m, l, g, u
    <3>2. u <= faults * m
      BY <1>2, <2>1, <3>1
    <3> QED
      BY <1>2, <2>2, <3>2 DEF u, m
  <2>3. CASE LostByOne(G) /\ faults' = faults + 1
    <3>1. g <= m
      BY <1>1, <1>2, <2>3, LostByOneIsFew
    <3> HIDE DEF m, l, g, u
    <3>2. (faults + 1) * m = faults * m + m /\ faults * m \in Nat
      BY <1>2, <2>1
    <3>3. u <= (faults + 1) * m
      BY <2>1, <3>1, <3>2
    <3> QED
      BY <1>2, <2>3, <3>3 DEF u, m
  <2> QED
    BY <1>4, <2>2, <2>3
<1> QED
  BY <1>3, <1>4, <1>6, <1>10 DEF FewLost

\* A new disk has lost nothing.
LEMMA FewLostInit == ASSUME buffersBounded, FaultInit PROVE FewLost
<1>1. mostFloating \in Nat
  BY MostFloating
<1>2. Cardinality({}) = 0 /\ {} \in SUBSET Blocks
  BY FS_EmptySet
<1>3. SizesOK
  <2>1. call.pc = "idle" /\ disk = [b \in Blocks |-> freeBlock]
    BY DEF FaultInit, Init, Format, NoCall
  <2>2. freeBlock.blockID # INODE_ID
    BY DEF freeBlock, FREE_ID, INODE_ID
  <2> QED
    BY <2>1, <2>2 DEF SizesOK
<1> QED
  BY <1>1, <1>2, <1>3, FaultsInit DEF FewLost, FaultInit

\* The blocks no file leads to when the program and its client are done are among the
\* lost ones, of which there are only so many.
THEOREM FewBlocksFloatCorrect ==
  ASSUME FailPoints \cap swapFileExtentPoints = {}, Habits = {}, buffersBounded
  PROVE  FaultSpec => []FewBlocksFloat
<1>1. ASSUME Inv, FewLost, idle, torn = {}
      PROVE  Cardinality(floatingBlocks) <= faults * mostFloating
  <2>1. PICK lost \in SUBSET Blocks :
          CarefulInv(lost, FALSE) /\ Cardinality(lost) <= faults * mostFloating
    BY <1>1 DEF FewLost, TornOK
  <2>2. PICK own \in [Blocks -> Slots], pos \in [Blocks -> Nat] :
          IsLayout(disk, inodeIndices, own, pos, lost, 0)
    BY <1>1, <2>1, Settled DEF idle
  <2>3. \A b \in Blocks \ (freeBlocks \cup lost) : \E s \in usedSlots : b \in fileBlocks(s)
    BY <1>1, <2>2, Types, LayoutPartitions
  <2>4. floatingBlocks \in SUBSET lost
    BY <2>3 DEF floatingBlocks
  <2>5. IsFiniteSet(lost)
    <3>1. IsFiniteSet(Blocks)
      BY DiskAssumption, FS_Interval DEF Blocks
    <3> QED
      BY <3>1, FS_Subset
  <2>6. Cardinality(floatingBlocks) <= Cardinality(lost)
    BY <2>4, <2>5, FS_Subset
  <2>7. /\ Cardinality(floatingBlocks) \in Nat /\ Cardinality(lost) \in Nat
        /\ faults * mostFloating \in Nat
    BY <1>1, <2>4, <2>5, FS_Subset, FS_CardinalityType, MostFloating DEF FewLost
  <2> QED
    BY <2>1, <2>6, <2>7
<1>2. Inv /\ FewLost => FewBlocksFloat
  BY <1>1 DEF FewBlocksFloat
<1>3. Inv /\ Inv' /\ FewLost /\ [FaultNext]_faultVars => FewLost'
  BY FewLostStays
<1>4. FaultInit => FewLost
  BY FewLostInit
<1> QED
  BY <1>2, <1>3, <1>4, AlwaysInvWithFaults, PTL DEF FaultSpec

=============================================================================
