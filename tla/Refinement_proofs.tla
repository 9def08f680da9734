-------------------------- MODULE Refinement_proofs --------------------------
(***************************************************************************)
(* The careful client's TinyFS implements FileStore, on every disk that is *)
(* not of the full size: its initial state is one of FileStore, and each   *)
(* step is a step of FileStore or leaves FileStore's variables alone.      *)
(***************************************************************************)
EXTENDS Refinement, Clients_proofs

\* FileStore has the constants and formats of TinyFSStructs.
LEMMA SameNotions ==
  /\ Store!ENOSPC = ENOSPC /\ Store!ERANGE = ERANGE /\ Store!EIO = EIO /\ Store!ENOENT = ENOENT
  /\ Store!EALREADY = EALREADY /\ Store!ENODEV = ENODEV /\ Store!EPARAM = EPARAM
  /\ Store!EPERM = EPERM
  /\ Store!readOnly = readOnly /\ Store!readAndWrite = readAndWrite /\ Store!readFlag = readFlag
  /\ Store!Byte = Byte /\ Store!Name = Name
  /\ \A size : Store!blocksFor(size) = blocksFor(size)
<1>1. \A name : Store!formatName(name) = formatName(name)
  BY DEF Store!formatName, formatName
<1>2. Store!Name = Name
  BY <1>1 DEF Store!Name, Name
<1>3. Store!readFlag = readFlag
  BY DEF Store!readFlag, readFlag, Store!readOnly, readOnly, Store!readAndWrite, readAndWrite
<1>4. \A size : Store!blocksFor(size) = blocksFor(size)
  BY DEF Store!blocksFor, blocksFor
<1> QED
  BY <1>2, <1>3, <1>4
     DEF Store!ENOSPC, ENOSPC, Store!ERANGE, ERANGE, Store!EIO, EIO, Store!ENOENT, ENOENT,
         Store!EALREADY, EALREADY, Store!ENODEV, ENODEV, Store!EPARAM, EPARAM, Store!EPERM, EPERM,
         Store!readOnly, readOnly, Store!readAndWrite, readAndWrite, Store!Byte, Byte

-----------------------------------------------------------------------------
(* The blocks a store uses                                                 *)

\* The sum that Store!used(store) takes at its last set, as a function of the set.
IsSum(store, g) ==
  g = [s \in SUBSET DOMAIN store |->
         IF s = {} THEN 0
         ELSE LET x == CHOOSE x \in s : TRUE
              IN (1 + Store!blocksFor(Len(store[x].bytes))) + g[s \ {x}]]

LEMMA SumIsUsed ==
  ASSUME NEW store, NEW g, IsSum(store, g), \A h : IsSum(store, h) => h = g
  PROVE  Store!used(store) = g[DOMAIN store]
BY DEF Store!used, Store!MapThenSumSet, Store!MapThenFoldSet, IsSum

\* What a sum over a set is, at each of its subsets.
LEMMA SumStep ==
  ASSUME NEW store, NEW g, IsSum(store, g), NEW s \in SUBSET DOMAIN store, s # {}
  PROVE  LET x == CHOOSE y \in s : TRUE
         IN x \in s /\ g[s] = (1 + blocksFor(Len(store[x].bytes))) + g[s \ {x}]
<1> DEFINE x == CHOOSE y \in s : TRUE
<1>1. x \in s
  OBVIOUS
<1>2. g[s] = (1 + Store!blocksFor(Len(store[x].bytes))) + g[s \ {x}]
  BY DEF IsSum
<1> HIDE DEF x
<1>3. g[s] = (1 + blocksFor(Len(store[x].bytes))) + g[s \ {x}]
  BY <1>2, SameNotions
<1> QED
  BY <1>1, <1>3 DEF x

\* There is only one such sum.
LEMMA OneSum ==
  ASSUME NEW store, IsFiniteSet(DOMAIN store), NEW g, IsSum(store, g), NEW h, IsSum(store, h)
  PROVE  h = g
<1> DEFINE D == DOMAIN store
           bad == {Cardinality(s) : s \in {t \in SUBSET D : h[t] # g[t]}}
<1>1. \A s \in SUBSET D : IsFiniteSet(s) /\ Cardinality(s) \in Nat
  BY FS_Subset, FS_CardinalityType
<1>2. bad = {}
  <2> SUFFICES ASSUME bad # {} PROVE FALSE
    OBVIOUS
  <2>1. bad \in SUBSET Nat
    BY <1>1
  <2>2. PICK m \in bad : \A y \in bad : m <= y
    BY <2>1, MinOfNats
  <2>3. PICK s \in SUBSET D : h[s] # g[s] /\ m = Cardinality(s)
    BY <2>2
  <2>4. s # {}
    <3>1. h[{}] = 0 /\ g[{}] = 0
      BY DEF IsSum
    <3> QED
      BY <2>3, <3>1
  <2> DEFINE x == CHOOSE y \in s : TRUE
  <2>5. x \in s
    BY <2>4
  <2>6. h[s \ {x}] # g[s \ {x}]
    <3>1. ASSUME NEW f, IsSum(store, f)
          PROVE  f[s] = (1 + blocksFor(Len(store[x].bytes))) + f[s \ {x}]
      BY <2>4, <3>1, SumStep
    <3> HIDE DEF x
    <3>2. /\ h[s] = (1 + blocksFor(Len(store[x].bytes))) + h[s \ {x}]
          /\ g[s] = (1 + blocksFor(Len(store[x].bytes))) + g[s \ {x}]
      BY <3>1
    <3> QED
      BY <2>3, <3>2
  <2>7. Cardinality(s \ {x}) = m - 1 /\ m \in Nat
    BY <1>1, <2>3, <2>5, FS_RemoveElement
  <2>8. Cardinality(s \ {x}) \in bad
    BY <2>6
  <2> HIDE DEF bad
  <2> QED
    BY <2>2, <2>7, <2>8
<1>3. \A s \in SUBSET D : h[s] = g[s]
  BY <1>2
<1>4. h = [s \in SUBSET D |-> h[s]] /\ g = [s \in SUBSET D |-> g[s]]
  BY DEF IsSum
<1> QED
  BY <1>3, <1>4

\* If the blocks of the files are apart, the store uses as many as there are.
LEMMA UsedBlocks ==
  ASSUME NEW store, IsFiniteSet(DOMAIN store), NEW B,
         \A n \in DOMAIN store :
           /\ B[n] \subseteq Blocks
           /\ Cardinality(B[n]) = 1 + blocksFor(Len(store[n].bytes)),
         \A m, n \in DOMAIN store : m # n => B[m] \cap B[n] = {}
  PROVE  Store!used(store) = Cardinality(UNION {B[n] : n \in DOMAIN store})
<1> DEFINE D == DOMAIN store
           blocks(s) == UNION {B[n] : n \in s}
           g == [s \in SUBSET D |-> Cardinality(blocks(s))]
<1>1. ASSUME NEW s \in SUBSET D
      PROVE  IsFiniteSet(blocks(s)) /\ Cardinality(blocks(s)) \in Nat
  <2>1. IsFiniteSet(Blocks)
    BY DiskAssumption, FS_Interval DEF Blocks
  <2>2. blocks(s) \subseteq Blocks
    OBVIOUS
  <2> QED
    BY <2>1, <2>2, FS_Subset, FS_CardinalityType
<1>2. ASSUME NEW s \in SUBSET D, NEW x \in s
      PROVE  Cardinality(blocks(s)) = (1 + blocksFor(Len(store[x].bytes))) + Cardinality(blocks(s \ {x}))
  <2>1. blocks(s) = B[x] \cup blocks(s \ {x})
    OBVIOUS
  <2>2. B[x] \cap blocks(s \ {x}) = {}
    OBVIOUS
  <2>3. IsFiniteSet(B[x]) /\ IsFiniteSet(blocks(s \ {x}))
    <3>1. IsFiniteSet(Blocks)
      BY DiskAssumption, FS_Interval DEF Blocks
    <3>2. IsFiniteSet(B[x])
      BY <3>1, FS_Subset
    <3>3. s \ {x} \in SUBSET D
      OBVIOUS
    <3> HIDE DEF blocks
    <3> QED
      BY <1>1, <3>2, <3>3
  <2>4. Cardinality(B[x]) \in Nat /\ Cardinality(blocks(s \ {x})) \in Nat
    BY <2>3, FS_CardinalityType
  <2>5. Cardinality(B[x]) = 1 + blocksFor(Len(store[x].bytes))
    OBVIOUS
  <2> HIDE DEF blocks
  <2>6. Cardinality(B[x] \cup blocks(s \ {x})) =
          Cardinality(B[x]) + Cardinality(blocks(s \ {x})) - Cardinality(B[x] \cap blocks(s \ {x}))
    BY <2>3, FS_Union
  <2>7. Cardinality({}) = 0
    BY FS_EmptySet
  <2>8. Cardinality(blocks(s)) = Cardinality(B[x]) + Cardinality(blocks(s \ {x})) - 0
    BY <2>1, <2>2, <2>6, <2>7
  <2> QED
    BY <2>4, <2>5, <2>8
<1>3. Cardinality(blocks({})) = 0
  BY FS_EmptySet
<1> HIDE DEF blocks
<1>4. IsSum(store, g)
  <2> DEFINE e(s) == IF s = {} THEN 0
                     ELSE LET x == CHOOSE x \in s : TRUE
                          IN (1 + Store!blocksFor(Len(store[x].bytes))) + g[s \ {x}]
  <2>1. ASSUME NEW s \in SUBSET D PROVE g[s] = e(s)
    <3>1. CASE s = {}
      BY <1>3, <3>1
    <3>2. CASE s # {}
      <4> DEFINE x == CHOOSE x \in s : TRUE
      <4>1. x \in s /\ s \ {x} \in SUBSET D
        BY <3>2
      <4>2. Cardinality(blocks(s)) =
              (1 + blocksFor(Len(store[x].bytes))) + Cardinality(blocks(s \ {x}))
        BY <1>2, <4>1
      <4>3. g[s] = Cardinality(blocks(s)) /\ g[s \ {x}] = Cardinality(blocks(s \ {x}))
        BY <4>1
      <4>4. e(s) = (1 + Store!blocksFor(Len(store[x].bytes))) + g[s \ {x}]
        BY <3>2
      <4> HIDE DEF g, e, x
      <4> QED
        BY <4>2, <4>3, <4>4, SameNotions
    <3> QED
      BY <3>1, <3>2
  <2> HIDE DEF e
  <2>2. g = [s \in SUBSET D |-> e(s)]
    BY <2>1
  <2> QED
    BY <2>2 DEF IsSum, e
<1>5. \A h : IsSum(store, h) => h = g
  BY <1>4, OneSum
<1>6. Store!used(store) = g[D]
  <2> HIDE DEF g
  <2> QED
    BY <1>4, <1>5, SumIsUsed
<1> QED
  BY <1>6 DEF blocks

-----------------------------------------------------------------------------
(* Where the bytes of a file are                                           *)

\* The extent that holds byte i, and its place in the extent.
LEMMA ByteBlock ==
  ASSUME NEW i \in Nat
  PROVE  /\ i \div DataPerBlock \in Nat /\ i % DataPerBlock \in 0..(DataPerBlock - 1)
         /\ i = DataPerBlock * (i \div DataPerBlock) + (i % DataPerBlock)
         /\ \A n \in Nat : i < n => i \div DataPerBlock < blocksFor(n)
         /\ IF i % DataPerBlock = 0 THEN i \div DataPerBlock = blocksFor(i)
                                    ELSE i \div DataPerBlock < blocksFor(i)
<1> SUFFICES ASSUME NEW m, m = DataPerBlock, NEW p, p = i \div m, NEW r, r = i % m
             PROVE  /\ p \in Nat /\ r \in 0..(m - 1)
                    /\ i = m * p + r
                    /\ \A n \in Nat : i < n => p < blocksFor(n)
                    /\ IF r = 0 THEN p = blocksFor(i) ELSE p < blocksFor(i)
  OBVIOUS
<1>1. m \in Nat /\ m # 0
  BY DiskAssumption
<1>2. p \in Nat /\ r \in 0..(m - 1) /\ i = m * p + r
  BY <1>1
<1>3. ASSUME NEW n \in Nat
      PROVE  blocksFor(n) \in Nat /\ n <= m * blocksFor(n) /\ m * blocksFor(n) <= n + m - 1
  <2> DEFINE q == blocksFor(n)
  <2>1. n + m - 1 \in Nat /\ q = (n + m - 1) \div m
    BY <1>1 DEF blocksFor
  <2>2. q \in Nat /\ m * q <= n + m - 1 /\ n + m - 1 < m * q + m
    BY <1>1, <2>1, Quotient
  <2> HIDE DEF q
  <2>3. m * q \in Nat
    BY <1>1, <2>2
  <2>4. n <= m * q
    BY <1>1, <2>2, <2>3
  <2> QED
    BY <2>2, <2>4 DEF q
<1>4. m * p \in Nat
  BY <1>1, <1>2
<1>5. ASSUME NEW n \in Nat, i < n PROVE p < blocksFor(n)
  <2> SUFFICES ASSUME blocksFor(n) <= p PROVE FALSE
    BY <1>2, <1>3
  <2> DEFINE q == blocksFor(n)
  <2>1. q \in Nat /\ n <= m * q
    BY <1>3
  <2> HIDE DEF q
  <2>2. q <= p
    BY DEF q
  <2>3. m * q <= m * p /\ m * q \in Nat
    BY <1>1, <1>2, <2>1, <2>2
  <2> QED
    BY <1>2, <1>4, <1>5, <2>1, <2>3
<1>8. \A n \in Nat : i < n => p < blocksFor(n)
  BY <1>5
<1>6. CASE r = 0
  <2> DEFINE q == blocksFor(i)
  <2>1. q = (i + m - 1) \div m /\ i + m - 1 \in Nat
    BY <1>1 DEF blocksFor
  <2>2. m * p <= i + m - 1 /\ i + m - 1 < m * p + m
    BY <1>1, <1>2, <1>4, <1>6
  <2>3. q = p
    BY <1>1, <1>2, <2>1, <2>2, Quotient
  <2> HIDE DEF q
  <2>4. IF r = 0 THEN p = q ELSE p < q
    BY <1>6, <2>3
  <2> QED
    BY <1>2, <1>8, <2>4 DEF q
<1>7. CASE r # 0
  <2> DEFINE q == blocksFor(i)
  <2>1. q \in Nat /\ i <= m * q
    BY <1>3
  <2>2. m * p < m * q
    BY <1>1, <1>2, <1>4, <1>7, <2>1
  <2>3. p < q
    <3> HIDE DEF q
    <3> SUFFICES ASSUME q <= p PROVE FALSE
      BY <1>2, <2>1
    <3>1. m * q <= m * p
      BY <1>1, <1>2, <2>1
    <3> QED
      BY <1>1, <1>2, <2>1, <2>2, <3>1
  <2> HIDE DEF q
  <2>4. IF r = 0 THEN p = q ELSE p < q
    BY <1>7, <2>3
  <2> QED
    BY <1>2, <1>8, <2>4 DEF q
<1> QED
  BY <1>6, <1>7

\* A buffer behind k whole blocks.
LEMMA BehindBlocks ==
  ASSUME NEW k \in Nat, NEW n \in Nat
  PROVE  blocksFor(DataPerBlock * k + n) = k + blocksFor(n)
<1> DEFINE m == DataPerBlock
           q == blocksFor(n)
<1>1. m \in Nat /\ m # 0
  BY DiskAssumption
<1>2. n + m - 1 \in Nat /\ q = (n + m - 1) \div m
  BY <1>1 DEF blocksFor
<1>3. q \in Nat /\ m * q <= n + m - 1 /\ n + m - 1 < m * q + m
  BY <1>1, <1>2, Quotient
<1>4. blocksFor(m * k + n) = (m * k + n + m - 1) \div m
  BY DEF blocksFor
<1> HIDE DEF m, q
<1>5. m * (k + q) = m * k + m * q /\ m * k \in Nat /\ m * q \in Nat
  BY <1>1, <1>3
<1>6. /\ m * (k + q) <= m * k + n + m - 1 /\ m * k + n + m - 1 < m * (k + q) + m
      /\ m * k + n + m - 1 \in Nat
  BY <1>1, <1>3, <1>5
<1>7. (m * k + n + m - 1) \div m = k + q
  <2>1. k + q \in Nat /\ m \in Nat \ {0}
    BY <1>1, <1>3
  <2> QED
    BY <1>6, <2>1, Quotient
<1> QED
  BY <1>4, <1>7 DEF m, q

-----------------------------------------------------------------------------
(* The files FileStore sees                                                *)

\* What storedFiles says of the file in a slot.
stored(s) ==
  [readMode |-> inodeOf(s).readMode,
   bytes    |-> IF s \in busySlots THEN <<>> ELSE bytesIn(s, inodeOf(s).fileSize)]

\* The same of a file as fileIn shows it.
asStored(file) ==
  [readMode |-> file.readMode,
   bytes    |-> [i \in {j + 1 : j \in DOMAIN file.bytes} |-> file.bytes[i - 1]]]

\* No slot but a busy one leads to the tail.
LEMMA NotBusyComplete ==
  ASSUME Inv, CarefulInv({}, TRUE)
  PROVE  \E own \in [Blocks -> Slots], pos \in [Blocks -> Nat], tail \in BlockLink :
           /\ IsLayout(disk, inodeIndices, own, pos, floating, tail)
           /\ \A s \in Slots \ busySlots : Complete(disk, own, floating, tail, s)
<1>1. PICK own \in [Blocks -> Slots], pos \in [Blocks -> Nat], tail \in BlockLink :
        /\ IsLayout(disk, inodeIndices, own, pos, floating, tail)
        /\ call.pc \notin {"eraseFileData", "writeBlocks"} => tail = noBlockLink
        /\ Erasing({}, own, pos, tail)
        /\ Writing({}, own, pos, tail)
  BY NothingLost DEF CarefulInv, LayoutOK
<1>2. CASE tail = noBlockLink
  <2>1. \A b \in placed(disk, floating) : b # tail
    BY <1>2, DiskAssumption DEF placed, Blocks, noBlockLink
  <2> QED
    BY <1>1, <2>1 DEF Complete
<1>3. CASE tail # noBlockLink
  <2>1. call.pc \in {"eraseFileData", "writeBlocks"}
    BY <1>1, <1>3
  <2>2. /\ call.op \in {"writeFile", "deleteFile"} /\ busySlots = {busySlot}
        /\ busySlot \in usedSlots
    BY <2>1, OpOfPhase, BusyFile DEF CarefulInv, busySlots, busySlot
  <2>3. own[tail] = busySlot
    <3>1. CASE call.pc = "eraseFileData"
      BY <1>1, <2>2, <3>1, InodesPlaced DEF Erasing, usedSlots
    <3>2. CASE call.pc = "writeBlocks"
      BY <1>1, <3>2 DEF Writing
    <3> QED
      BY <2>1, <3>1, <3>2
  <2> QED
    BY <1>1, <2>2, <2>3 DEF Complete
<1> QED
  BY <1>2, <1>3

\* What FileStore sees of a file is what fileIn shows of it, but the bytes of a file
\* that is being written or deleted.
LEMMA StoredFile ==
  Inv /\ CarefulInv({}, TRUE) =>
    /\ fileSlots = usedSlots
    /\ \A s \in Slots :
         /\ s \in usedSlots <=> fileIn(s) # noFile
         /\ s \in usedSlots =>
              /\ fileIn(s).fileName = inodeOf(s).fileName
              /\ fileIn(s).readMode = inodeOf(s).readMode
              /\ stored(s) = IF s \in busySlots
                             THEN [readMode |-> fileIn(s).readMode, bytes |-> <<>>]
                             ELSE asStored(fileIn(s))
<1> SUFFICES ASSUME Inv, CarefulInv({}, TRUE)
             PROVE  /\ fileSlots = usedSlots
                    /\ \A s \in Slots :
                         /\ s \in usedSlots <=> fileIn(s) # noFile
                         /\ s \in usedSlots =>
                              /\ fileIn(s).fileName = inodeOf(s).fileName
                              /\ fileIn(s).readMode = inodeOf(s).readMode
                              /\ stored(s) = IF s \in busySlots
                                             THEN [readMode |-> fileIn(s).readMode, bytes |-> <<>>]
                                             ELSE asStored(fileIn(s))
  OBVIOUS
<1>1. disk \in [Blocks -> Block] /\ inodeIndices \in [Slots -> BlockLink]
  BY Types
<1>2. \A s \in usedSlots : isFile(s)
  BY SlotsLinked
<1>3. fileSlots = usedSlots
  BY <1>2 DEF fileSlots
<1>4. ASSUME NEW s \in Slots, s \notin usedSlots PROVE fileIn(s) = noFile
  BY <1>4 DEF fileIn, isFile
<1>5. ASSUME NEW s \in usedSlots
      PROVE  /\ fileIn(s) # noFile
             /\ fileIn(s).fileName = inodeOf(s).fileName
             /\ fileIn(s).readMode = inodeOf(s).readMode
             /\ fileIn(s).bytes = [i \in 0..(inodeOf(s).fileSize - 1) |->
                                     IF (i \div DataPerBlock) + 1 <= NumBlocks
                                     THEN byteAt(chain(inodeIndices[s])[(i \div DataPerBlock) + 1], i)
                                     ELSE -1]
  <2>1. inodeOf(s) \in Block /\ inodeOf(s).blockID = INODE_ID
    BY <1>1, SlotsLinked DEF inodeOf
  <2>2. inodeOf(s).readMode \in readFlag
    BY <2>1 DEF Block, INODE_ID, FREE_ID, FILE_EXTENT_ID
  <2>3. inodeOf(s).readMode # 0
    BY <2>2 DEF readFlag, readOnly, readAndWrite
  <2>4. fileIn(s) = [fileName |-> inodeOf(s).fileName, readMode |-> inodeOf(s).readMode,
                     bytes |-> [i \in 0..(inodeOf(s).fileSize - 1) |->
                                  IF (i \div DataPerBlock) + 1 <= NumBlocks
                                  THEN byteAt(chain(inodeIndices[s])[(i \div DataPerBlock) + 1], i)
                                  ELSE -1]]
    BY <1>2 DEF fileIn
  <2> QED
    BY <2>3, <2>4 DEF noFile
<1>6. ASSUME NEW s \in usedSlots, s \notin busySlots
      PROVE  asStored(fileIn(s)).bytes = bytesIn(s, inodeOf(s).fileSize)
  <2> DEFINE size == inodeOf(s).fileSize
             link == chain(inodeIndices[s])
             f == fileIn(s).bytes
  <2>1. PICK own \in [Blocks -> Slots], pos \in [Blocks -> Nat], tail \in BlockLink :
          /\ IsLayout(disk, inodeIndices, own, pos, floating, tail)
          /\ Complete(disk, own, floating, tail, s)
    BY <1>6, NotBusyComplete DEF usedSlots
  <2>2. s \in Slots /\ inodeIndices[s] # noBlockLink
    BY DEF usedSlots
  <2>3. size \in Nat /\ blocksFor(size) < NumBlocks
    <3>1. extents(disk, inodeIndices, s) < NumBlocks
      BY <1>1, <2>1, <2>2, ChainOfFile DEF Complete
    <3>2. size \in Nat
      BY <1>1, <2>1, <2>2, ExtentsNat DEF inodeOf
    <3> QED
      BY <3>1, <3>2 DEF extents, inodeOf
  <2> HIDE DEF size, link
  <2>4. f = [i \in 0..(size - 1) |-> IF (i \div DataPerBlock) + 1 <= NumBlocks
                                     THEN byteAt(link[(i \div DataPerBlock) + 1], i) ELSE -1]
    BY <1>5 DEF size, link
  <2>5. ASSUME NEW i \in 0..(size - 1)
        PROVE  f[i] = byteAt(link[(i \div DataPerBlock) + 1], i)
    <3>1. i \in Nat /\ i < size
      BY <2>3
    <3>2. i \div DataPerBlock < blocksFor(size) /\ i \div DataPerBlock \in Nat
      BY <2>3, <3>1, ByteBlock
    <3>3. blocksFor(size) \in Nat
      BY <2>3, BlocksFor
    <3>4. (i \div DataPerBlock) + 1 <= NumBlocks
      BY <2>3, <3>2, <3>3, DiskAssumption
    <3> QED
      BY <2>4, <3>4
  <2> HIDE DEF f
  <2>6. DOMAIN f = 0..(size - 1)
    BY <2>4
  <2>7. {j + 1 : j \in DOMAIN f} = 1..size
    <3>1. \A i \in 1..size : i - 1 \in 0..(size - 1) /\ i = (i - 1) + 1
      BY <2>3
    <3>2. \A j \in 0..(size - 1) : j + 1 \in 1..size
      BY <2>3
    <3> QED
      BY <2>6, <3>1, <3>2
  <2>8. \A i \in 1..size : f[i - 1] = byteAt(link[(i - 1) \div DataPerBlock + 1], i - 1)
    <3>1. \A i \in 1..size : i - 1 \in 0..(size - 1)
      BY <2>3
    <3> QED
      BY <2>5, <3>1
  <2>9. asStored(fileIn(s)).bytes = [i \in 1..size |-> f[i - 1]]
    BY <2>7 DEF asStored, f
  <2>10. bytesIn(s, size) = [i \in 1..size |-> byteAt(link[(i - 1) \div DataPerBlock + 1], i - 1)]
    BY DEF bytesIn, link
  <2> QED
    BY <2>8, <2>9, <2>10 DEF size
<1>7. ASSUME NEW s \in usedSlots
      PROVE  stored(s) = IF s \in busySlots
                         THEN [readMode |-> fileIn(s).readMode, bytes |-> <<>>]
                         ELSE asStored(fileIn(s))
  <2>1. asStored(fileIn(s)) = [readMode |-> fileIn(s).readMode, bytes |-> asStored(fileIn(s)).bytes]
    BY DEF asStored
  <2> QED
    BY <1>5, <1>6, <2>1 DEF stored
<1> QED
  BY <1>3, <1>4, <1>5, <1>7

LEMMA StoredFileAfter ==
  Inv' /\ CarefulInv({}, TRUE)' =>
    /\ fileSlots' = usedSlots'
    /\ \A s \in Slots :
         /\ s \in usedSlots' <=> fileIn(s)' # noFile
         /\ s \in usedSlots' =>
              /\ fileIn(s)'.fileName = inodeOf(s)'.fileName
              /\ fileIn(s)'.readMode = inodeOf(s)'.readMode
              /\ stored(s)' = IF s \in busySlots'
                              THEN [readMode |-> fileIn(s)'.readMode, bytes |-> <<>>]
                              ELSE asStored(fileIn(s)')
<1>1. (Inv /\ CarefulInv({}, TRUE) =>
    /\ fileSlots = usedSlots
    /\ \A s \in Slots :
         /\ s \in usedSlots <=> fileIn(s) # noFile
         /\ s \in usedSlots =>
              /\ fileIn(s).fileName = inodeOf(s).fileName
              /\ fileIn(s).readMode = inodeOf(s).readMode
              /\ stored(s) = IF s \in busySlots
                             THEN [readMode |-> fileIn(s).readMode, bytes |-> <<>>]
                             ELSE asStored(fileIn(s)))'
  BY StoredFile, PTL
<1> QED
  BY <1>1 DEF noFile, asStored

-----------------------------------------------------------------------------
(* What a change of one file is to FileStore                               *)

\* FileStore's files are the files of the used slots, by their names.
LEMMA FilesSeen ==
  Habits = {} /\ Inv /\ CarefulInv({}, TRUE) =>
    /\ DOMAIN storedFiles = {inodeOf(s).fileName : s \in usedSlots}
    /\ \A s \in usedSlots : storedFiles[inodeOf(s).fileName] = stored(s)
    /\ storedFiles = [n \in DOMAIN storedFiles |-> storedFiles[n]]
<1> SUFFICES ASSUME Habits = {}, Inv, CarefulInv({}, TRUE)
             PROVE  /\ DOMAIN storedFiles = {inodeOf(s).fileName : s \in usedSlots}
                    /\ \A s \in usedSlots : storedFiles[inodeOf(s).fileName] = stored(s)
                    /\ storedFiles = [n \in DOMAIN storedFiles |-> storedFiles[n]]
  OBVIOUS
<1> DEFINE slotOf(n) == CHOOSE t \in fileSlots : inodeOf(t).fileName = n
<1>1. fileSlots = usedSlots
  BY StoredFile
<1>2. storedFiles = [n \in {inodeOf(s).fileName : s \in usedSlots} |-> stored(slotOf(n))]
  BY <1>1 DEF storedFiles, stored
<1>3. \A s, t \in usedSlots : inodeOf(s).fileName = inodeOf(t).fileName => s = t
  BY DEF CarefulInv, NamesOK
<1>4. \A s \in usedSlots : slotOf(inodeOf(s).fileName) = s
  BY <1>1, <1>3
<1> HIDE DEF slotOf
<1>5. \A s \in usedSlots : storedFiles[inodeOf(s).fileName] = stored(slotOf(inodeOf(s).fileName))
  BY <1>2
<1>6. \A s \in usedSlots : storedFiles[inodeOf(s).fileName] = stored(s)
  BY <1>4, <1>5
<1> QED
  BY <1>2, <1>6

LEMMA FilesSeenAfter ==
  Habits = {} /\ Inv' /\ CarefulInv({}, TRUE)' =>
    /\ DOMAIN storedFiles' = {inodeOf(s)'.fileName : s \in usedSlots'}
    /\ \A s \in usedSlots' : storedFiles'[inodeOf(s)'.fileName] = stored(s)'
    /\ storedFiles' = [n \in DOMAIN storedFiles' |-> storedFiles'[n]]
<1>1. (Habits = {} /\ Inv /\ CarefulInv({}, TRUE) =>
    /\ DOMAIN storedFiles = {inodeOf(s).fileName : s \in usedSlots}
    /\ \A s \in usedSlots : storedFiles[inodeOf(s).fileName] = stored(s)
    /\ storedFiles = [n \in DOMAIN storedFiles |-> storedFiles[n]])'
  BY FilesSeen, PTL
<1> QED
  BY <1>1

\* A step that changes no file but those of S, and makes no other file busy or idle,
\* changes nothing that FileStore sees of the others.
LEMMA OthersStored ==
  ASSUME Inv, Inv', CarefulInv({}, TRUE), CarefulInv({}, TRUE)', NEW S, OnlyChanges(S),
         \A s \in usedSlots \ S : s \in busySlots' <=> s \in busySlots
  PROVE  \A s \in Slots \ S :
           /\ s \in usedSlots' <=> s \in usedSlots
           /\ s \in usedSlots => /\ inodeOf(s)'.fileName = inodeOf(s).fileName
                                 /\ stored(s)' = stored(s)
<1> SUFFICES ASSUME NEW s \in Slots \ S
             PROVE  /\ s \in usedSlots' <=> s \in usedSlots
                    /\ s \in usedSlots => /\ inodeOf(s)'.fileName = inodeOf(s).fileName
                                          /\ stored(s)' = stored(s)
  OBVIOUS
<1>1. s \in Slots /\ fileIn(s)' = fileIn(s)
  BY DEF OnlyChanges
<1>2. /\ s \in usedSlots <=> fileIn(s) # noFile
      /\ s \in usedSlots =>
           /\ fileIn(s).fileName = inodeOf(s).fileName
           /\ stored(s) = IF s \in busySlots
                          THEN [readMode |-> fileIn(s).readMode, bytes |-> <<>>]
                          ELSE asStored(fileIn(s))
  BY <1>1, StoredFile
<1>3. /\ s \in usedSlots' <=> fileIn(s)' # noFile
      /\ s \in usedSlots' =>
           /\ fileIn(s)'.fileName = inodeOf(s)'.fileName
           /\ stored(s)' = IF s \in busySlots'
                           THEN [readMode |-> fileIn(s)'.readMode, bytes |-> <<>>]
                           ELSE asStored(fileIn(s)')
  BY <1>1, StoredFileAfter
<1> QED
  BY <1>1, <1>2, <1>3

\* No file changes.
LEMMA FilesSame ==
  ASSUME Habits = {}, Inv, Inv', CarefulInv({}, TRUE), CarefulInv({}, TRUE)', OnlyChanges({}),
         \A s \in usedSlots : s \in busySlots' <=> s \in busySlots
  PROVE  storedFiles' = storedFiles
<1>1. \A s \in Slots : /\ s \in usedSlots' <=> s \in usedSlots
                       /\ s \in usedSlots => /\ inodeOf(s)'.fileName = inodeOf(s).fileName
                                             /\ stored(s)' = stored(s)
  BY OthersStored
<1>2. usedSlots \subseteq Slots /\ usedSlots' \subseteq Slots
  BY DEF usedSlots
<1>3. usedSlots' = usedSlots
  BY <1>1, <1>2
<1>4. DOMAIN storedFiles' = DOMAIN storedFiles
  BY <1>1, <1>2, <1>3, FilesSeen, FilesSeenAfter
<1>5. \A s \in usedSlots : storedFiles'[inodeOf(s).fileName] = storedFiles[inodeOf(s).fileName]
  BY <1>1, <1>2, <1>3, FilesSeen, FilesSeenAfter
<1>6. \A n \in DOMAIN storedFiles : storedFiles'[n] = storedFiles[n]
  BY <1>5, FilesSeen
<1> QED
  BY <1>4, <1>6, FilesSeen, FilesSeenAfter

\* The file in one slot changes, and keeps its name.
LEMMA FileChanged ==
  ASSUME Habits = {}, Inv, Inv', CarefulInv({}, TRUE), CarefulInv({}, TRUE)', NEW t \in Slots, OnlyChanges({t}),
         \A s \in usedSlots \ {t} : s \in busySlots' <=> s \in busySlots,
         t \in usedSlots, t \in usedSlots', inodeOf(t)'.fileName = inodeOf(t).fileName
  PROVE  /\ inodeOf(t).fileName \in DOMAIN storedFiles
         /\ storedFiles[inodeOf(t).fileName] = stored(t)
         /\ storedFiles' = [storedFiles EXCEPT ![inodeOf(t).fileName] = stored(t)']
<1>1. \A s \in Slots \ {t} : /\ s \in usedSlots' <=> s \in usedSlots
                             /\ s \in usedSlots => /\ inodeOf(s)'.fileName = inodeOf(s).fileName
                                                   /\ stored(s)' = stored(s)
  BY OthersStored
<1>2. usedSlots \subseteq Slots /\ usedSlots' \subseteq Slots
  BY DEF usedSlots
<1>3. usedSlots' = usedSlots
  BY <1>1, <1>2
<1>4. \A s \in usedSlots : inodeOf(s)'.fileName = inodeOf(s).fileName
  BY <1>1, <1>2
<1>5. DOMAIN storedFiles' = DOMAIN storedFiles
  BY <1>3, <1>4, FilesSeen, FilesSeenAfter
<1>6. \A s \in usedSlots : storedFiles'[inodeOf(s).fileName] = stored(s)'
  BY <1>3, <1>4, FilesSeenAfter
<1>7. \A s \in usedSlots : s # t =>
        /\ inodeOf(s).fileName # inodeOf(t).fileName
        /\ storedFiles'[inodeOf(s).fileName] = storedFiles[inodeOf(s).fileName]
  BY <1>1, <1>2, <1>6, FilesSeen DEF CarefulInv, NamesOK
<1>8. storedFiles'[inodeOf(t).fileName] = stored(t)'
  BY <1>6
<1>9. inodeOf(t).fileName \in DOMAIN storedFiles /\ storedFiles[inodeOf(t).fileName] = stored(t)
  BY FilesSeen
<1>10. \A n \in DOMAIN storedFiles : n # inodeOf(t).fileName => storedFiles'[n] = storedFiles[n]
  BY <1>7, FilesSeen
<1>11. DOMAIN storedFiles' = DOMAIN storedFiles /\ storedFiles' = [n \in DOMAIN storedFiles' |-> storedFiles'[n]]
  BY <1>5, FilesSeenAfter
<1> QED
  BY <1>8, <1>9, <1>10, <1>11

\* A slot gets a file.
LEMMA FileAdded ==
  ASSUME Habits = {}, Inv, Inv', CarefulInv({}, TRUE), CarefulInv({}, TRUE)', NEW t \in Slots, OnlyChanges({t}),
         \A s \in usedSlots \ {t} : s \in busySlots' <=> s \in busySlots,
         t \notin usedSlots, t \in usedSlots', NEW new, new = inodeOf(t)'.fileName
  PROVE  storedFiles' = [n \in DOMAIN storedFiles \cup {new} |->
                           IF n = new THEN stored(t)' ELSE storedFiles[n]]
<1>1. \A s \in Slots \ {t} : /\ s \in usedSlots' <=> s \in usedSlots
                             /\ s \in usedSlots => /\ inodeOf(s)'.fileName = inodeOf(s).fileName
                                                   /\ stored(s)' = stored(s)
  BY OthersStored
<1>2. usedSlots \subseteq Slots /\ usedSlots' \subseteq Slots
  BY DEF usedSlots
<1>3. usedSlots' = usedSlots \cup {t}
  BY <1>1, <1>2
<1>4. \A s \in usedSlots : s # t /\ inodeOf(s)'.fileName = inodeOf(s).fileName /\ stored(s)' = stored(s)
  BY <1>1, <1>2
<1>5. \A s \in usedSlots : inodeOf(s).fileName # new
  <2>1. \A s \in usedSlots' : inodeOf(s)'.fileName = new => s = t
    BY DEF CarefulInv, NamesOK
  <2> QED
    BY <1>3, <1>4, <2>1
<1>6. DOMAIN storedFiles' = DOMAIN storedFiles \cup {new}
  BY <1>3, <1>4, FilesSeen, FilesSeenAfter
<1>7. storedFiles'[new] = stored(t)'
  BY <1>3, FilesSeenAfter
<1>8. \A s \in usedSlots : storedFiles'[inodeOf(s).fileName] = storedFiles[inodeOf(s).fileName]
  BY <1>3, <1>4, FilesSeen, FilesSeenAfter
<1>9. \A n \in DOMAIN storedFiles : n # new /\ storedFiles'[n] = storedFiles[n]
  BY <1>5, <1>8, FilesSeen
<1>10. storedFiles' = [n \in DOMAIN storedFiles' |-> storedFiles'[n]]
  BY FilesSeenAfter
<1> QED
  BY <1>6, <1>7, <1>9, <1>10

\* A slot loses its file.
LEMMA FileRemoved ==
  ASSUME Habits = {}, Inv, Inv', CarefulInv({}, TRUE), CarefulInv({}, TRUE)', NEW t \in Slots, OnlyChanges({t}),
         \A s \in usedSlots \ {t} : s \in busySlots' <=> s \in busySlots,
         t \in usedSlots, t \notin usedSlots', NEW old, old = inodeOf(t).fileName
  PROVE  storedFiles' = Store!without(storedFiles, old)
<1>1. \A s \in Slots \ {t} : /\ s \in usedSlots' <=> s \in usedSlots
                             /\ s \in usedSlots => /\ inodeOf(s)'.fileName = inodeOf(s).fileName
                                                   /\ stored(s)' = stored(s)
  BY OthersStored
<1>2. usedSlots \subseteq Slots /\ usedSlots' \subseteq Slots
  BY DEF usedSlots
<1>3. usedSlots' = usedSlots \ {t}
  BY <1>1, <1>2
<1>4. \A s \in usedSlots' : s \in usedSlots /\ inodeOf(s)'.fileName = inodeOf(s).fileName /\ stored(s)' = stored(s)
  BY <1>1, <1>2, <1>3
<1>5. \A s \in usedSlots : inodeOf(s).fileName = old => s = t
  BY DEF CarefulInv, NamesOK
<1>6. DOMAIN storedFiles' = DOMAIN storedFiles \ {old}
  <2>1. \A n \in DOMAIN storedFiles' : n \in DOMAIN storedFiles /\ n # old
    BY <1>3, <1>4, <1>5, FilesSeen, FilesSeenAfter
  <2>2. \A s \in usedSlots : inodeOf(s).fileName # old => inodeOf(s).fileName \in DOMAIN storedFiles'
    BY <1>3, <1>4, FilesSeenAfter
  <2>3. \A n \in DOMAIN storedFiles : n # old => n \in DOMAIN storedFiles'
    BY <2>2, FilesSeen
  <2> QED
    BY <2>1, <2>3
<1>7. \A s \in usedSlots' : storedFiles'[inodeOf(s).fileName] = storedFiles[inodeOf(s).fileName]
  BY <1>4, FilesSeen, FilesSeenAfter
<1>8. \A n \in DOMAIN storedFiles' : storedFiles'[n] = storedFiles[n]
  BY <1>4, <1>7, FilesSeenAfter
<1>9. storedFiles' = [n \in DOMAIN storedFiles' |-> storedFiles'[n]]
  BY FilesSeenAfter
<1> QED
  BY <1>6, <1>8, <1>9 DEF Store!without, Store!Restrict

\* A file gets a new name.
LEMMA FileRenamed ==
  ASSUME Habits = {}, Inv, Inv', CarefulInv({}, TRUE), CarefulInv({}, TRUE)', NEW t \in Slots, OnlyChanges({t}),
         \A s \in usedSlots \ {t} : s \in busySlots' <=> s \in busySlots,
         t \in usedSlots, t \in usedSlots',
         NEW old, old = inodeOf(t).fileName, NEW new, new = inodeOf(t)'.fileName
  PROVE  storedFiles' = [n \in (DOMAIN storedFiles \ {old}) \cup {new} |->
                           IF n = new THEN stored(t)' ELSE storedFiles[n]]
<1>1. \A s \in Slots \ {t} : /\ s \in usedSlots' <=> s \in usedSlots
                             /\ s \in usedSlots => /\ inodeOf(s)'.fileName = inodeOf(s).fileName
                                                   /\ stored(s)' = stored(s)
  BY OthersStored
<1>2. usedSlots \subseteq Slots /\ usedSlots' \subseteq Slots
  BY DEF usedSlots
<1>3. usedSlots' = usedSlots
  BY <1>1, <1>2
<1>4. \A s \in usedSlots : s # t => inodeOf(s)'.fileName = inodeOf(s).fileName /\ stored(s)' = stored(s)
  BY <1>1, <1>2
<1>5. /\ \A s \in usedSlots : inodeOf(s).fileName = old => s = t
      /\ \A s \in usedSlots : s # t => inodeOf(s).fileName # new
  <2>1. \A s \in usedSlots' : inodeOf(s)'.fileName = new => s = t
    BY DEF CarefulInv, NamesOK
  <2>2. \A s \in usedSlots : inodeOf(s).fileName = old => s = t
    BY DEF CarefulInv, NamesOK
  <2> QED
    BY <1>3, <1>4, <2>1, <2>2
<1>6. \A s \in usedSlots : s # t =>
        /\ inodeOf(s).fileName \in DOMAIN storedFiles'
        /\ storedFiles'[inodeOf(s).fileName] = storedFiles[inodeOf(s).fileName]
  BY <1>3, <1>4, FilesSeen, FilesSeenAfter
<1>7. new \in DOMAIN storedFiles' /\ storedFiles'[new] = stored(t)'
  BY <1>3, FilesSeenAfter
<1>8. \A n \in DOMAIN storedFiles : n # old =>
        n # new /\ n \in DOMAIN storedFiles' /\ storedFiles'[n] = storedFiles[n]
  BY <1>5, <1>6, FilesSeen
<1>9. \A n \in DOMAIN storedFiles' : n = new \/ (n \in DOMAIN storedFiles /\ n # old)
  BY <1>3, <1>4, <1>5, FilesSeen, FilesSeenAfter
<1>10. DOMAIN storedFiles' = (DOMAIN storedFiles \ {old}) \cup {new}
  BY <1>7, <1>8, <1>9
<1>11. storedFiles' = [n \in DOMAIN storedFiles' |-> storedFiles'[n]]
  BY FilesSeenAfter
<1> QED
  BY <1>7, <1>8, <1>10, <1>11

-----------------------------------------------------------------------------
(* The blocks in use are those of FileStore's files                        *)

\* A set of blocks that has one block for every number up to K.
LEMMA BlocksNumbered ==
  ASSUME NEW B, NEW K \in Nat, NEW pos,
         \A b \in B : pos[b] \in 0..K,
         \A n \in 0..K : \E b \in B : pos[b] = n,
         \A b, c \in B : pos[b] = pos[c] => b = c
  PROVE  IsFiniteSet(B) /\ Cardinality(B) = K + 1
<1> DEFINE num == [b \in B |-> pos[b]]
<1>1. num \in [B -> 0..K]
  OBVIOUS
<1>2. num \in Injection(B, 0..K) /\ num \in Surjection(B, 0..K)
  BY <1>1 DEF Injection, Surjection, IsInjective
<1>3. IsFiniteSet(0..K) /\ Cardinality(0..K) = K + 1
  BY FS_Interval
<1> QED
  BY <1>2, <1>3, FS_Injection

\* What is read of a file is as long as asked for.
LEMMA BytesRead ==
  ASSUME NEW s, NEW n \in Nat
  PROVE  bytesIn(s, n) \in Seq({bytesIn(s, n)[i] : i \in 1..n}) /\ Len(bytesIn(s, n)) = n
<1> DEFINE f == bytesIn(s, n)
<1>1. f = [i \in 1..n |-> f[i]]
  BY DEF bytesIn
<1> HIDE DEF f
<1> QED
  BY <1>1 DEF f

\* FileStore counts exactly the blocks in use, if the file that is being erased has
\* only its inode left.
LEMMA UsedSeen ==
  ASSUME Habits = {}, Inv, CarefulInv({}, TRUE),
         NEW own \in [Blocks -> Slots], NEW pos \in [Blocks -> Nat], NEW tail,
         IsLayout(disk, inodeIndices, own, pos, {}, tail),
         \A s \in Slots \ busySlots : Complete(disk, own, {}, tail, s),
         \A s \in busySlots : \A b \in placed(disk, {}) : own[b] = s => pos[b] = 0
  PROVE  Store!used(storedFiles) = Cardinality(Blocks \ freeBlocks)
<1> DEFINE all    == placed(disk, {})
           B      == [n \in DOMAIN storedFiles |-> {b \in all : inodeOf(own[b]).fileName = n}]
           of(s)  == {b \in all : own[b] = s}
           size(s) == Len(stored(s).bytes)
<1>1. disk \in [Blocks -> Block] /\ inodeIndices \in [Slots -> BlockLink]
  BY Types
<1>2. \A b \in all : own[b] \in usedSlots
  BY DEF IsLayout, Placed, usedSlots
<1>3. DOMAIN storedFiles = {inodeOf(s).fileName : s \in usedSlots}
  BY FilesSeen
<1>4. \A s \in usedSlots : storedFiles[inodeOf(s).fileName] = stored(s)
  BY FilesSeen
<1>5. \A s, t \in usedSlots : inodeOf(s).fileName = inodeOf(t).fileName => s = t
  BY DEF CarefulInv, NamesOK
<1>6. all \subseteq Blocks /\ all = Blocks \ freeBlocks
  BY DEF placed, freeBlocks
<1>7. ASSUME NEW s \in usedSlots
      PROVE  Cardinality(of(s)) = 1 + blocksFor(size(s))
  <2> DEFINE K == IF s \in busySlots THEN 0 ELSE extents(disk, inodeIndices, s)
  <2>1. s \in Slots /\ inodeIndices[s] # noBlockLink
    BY DEF usedSlots
  <2>2. K \in Nat
    BY <1>1, <2>1, ExtentsNat
  <2>3. \A b \in of(s) : pos[b] \in 0..K
    BY DEF IsLayout, Placed
  <2>4. \A b, c \in of(s) : pos[b] = pos[c] => b = c
    BY DEF IsLayout, Apart
  <2>5. \A n \in 0..K : \E b \in of(s) : pos[b] = n
    <3>1. CASE s \in busySlots
      <4>1. inodeIndices[s] \in all /\ own[inodeIndices[s]] = s /\ pos[inodeIndices[s]] = 0
        BY <2>1, InodesPlaced
      <4>2. K = 0
        BY <3>1
      <4>3. \A n \in 0..K : n = 0
        BY <4>2
      <4> QED
        BY <4>1, <4>3
    <3>2. CASE s \notin busySlots
      <4>1. \A b \in all : own[b] = s => b # tail
        BY <2>1, <3>2 DEF Complete
      <4>2. \A n \in 0..extents(disk, inodeIndices, s) : \E b \in all : own[b] = s /\ pos[b] = n
        BY <1>1, <2>1, <4>1, PlacesFilled
      <4>3. K = extents(disk, inodeIndices, s)
        BY <3>2
      <4> HIDE DEF K, all
      <4> QED
        BY <4>2, <4>3
    <3> QED
      BY <3>1, <3>2
  <2>6. K = blocksFor(size(s))
    <3>1. CASE s \in busySlots
      <4>1. size(s) = 0
        BY <3>1 DEF stored
      <4> QED
        BY <3>1, <4>1, BlocksFor
    <3>2. CASE s \notin busySlots
      <4>1. inodeOf(s).fileSize \in Nat
        BY <1>1, <2>1, ExtentsNat DEF inodeOf
      <4>2. size(s) = inodeOf(s).fileSize
        BY <3>2, <4>1, BytesRead DEF stored
      <4> QED
        BY <3>2, <4>2 DEF extents, inodeOf
    <3> QED
      BY <3>1, <3>2
  <2> HIDE DEF K, of
  <2>7. Cardinality(of(s)) = K + 1
    BY <2>2, <2>3, <2>4, <2>5, BlocksNumbered
  <2> QED
    BY <2>2, <2>6, <2>7
<1>8. \A s \in usedSlots : B[inodeOf(s).fileName] = of(s)
  BY <1>2, <1>3, <1>5
<1>9. \A n \in DOMAIN storedFiles :
        /\ B[n] \subseteq Blocks
        /\ Cardinality(B[n]) = 1 + blocksFor(Len(storedFiles[n].bytes))
  <2> SUFFICES ASSUME NEW n \in DOMAIN storedFiles
               PROVE  /\ B[n] \subseteq Blocks
                      /\ Cardinality(B[n]) = 1 + blocksFor(Len(storedFiles[n].bytes))
    OBVIOUS
  <2>1. PICK s \in usedSlots : n = inodeOf(s).fileName
    BY <1>3
  <2>2. B[n] = of(s) /\ storedFiles[n] = stored(s)
    BY <1>4, <1>8, <2>1
  <2>3. of(s) \subseteq Blocks
    BY <1>6
  <2> HIDE DEF B, of
  <2> QED
    BY <1>7, <2>2, <2>3
<1>10. \A m, n \in DOMAIN storedFiles : m # n => B[m] \cap B[n] = {}
  OBVIOUS
<1>11. UNION {B[n] : n \in DOMAIN storedFiles} = Blocks \ freeBlocks
  <2>1. \A b \in all : b \in B[inodeOf(own[b]).fileName] /\ inodeOf(own[b]).fileName \in DOMAIN storedFiles
    BY <1>2, <1>3
  <2>2. \A n \in DOMAIN storedFiles : B[n] \subseteq all
    OBVIOUS
  <2> HIDE DEF B, all
  <2>3. UNION {B[n] : n \in DOMAIN storedFiles} = all
    BY <2>1, <2>2
  <2> QED
    BY <1>6, <2>3
<1>12. IsFiniteSet(DOMAIN storedFiles)
  <2> DEFINE f == [s \in usedSlots |-> inodeOf(s).fileName]
  <2>1. IsFiniteSet(usedSlots)
    <3>1. usedSlots \subseteq Slots
      BY DEF usedSlots
    <3>2. IsFiniteSet(Slots)
      BY DiskAssumption, FS_Interval DEF Slots
    <3> QED
      BY <3>1, <3>2, FS_Subset
  <2>2. f \in Surjection(usedSlots, DOMAIN storedFiles)
    BY <1>3 DEF Surjection
  <2> QED
    BY <2>1, <2>2, FS_Surjection
<1> HIDE DEF B
<1> QED
  BY <1>9, <1>10, <1>11, <1>12, UsedBlocks

\* What FileStore says of its capacity is what freeBlocks says.
LEMMA RoomSeen ==
  LET n == Cardinality(Blocks \ freeBlocks)
  IN n <= Store!Capacity /\ (n = Store!Capacity <=> freeBlocks = {})
     /\ (n < Store!Capacity <=> freeBlocks # {})
<1> DEFINE n == Cardinality(Blocks \ freeBlocks)
           m == Cardinality(freeBlocks)
           c == Cardinality(Blocks)
<1>1. IsFiniteSet(Blocks) /\ c = NumBlocks - 1
  BY DiskAssumption, FS_Interval DEF Blocks
<1>2. freeBlocks \subseteq Blocks
  BY DEF freeBlocks
<1>3. IsFiniteSet(freeBlocks) /\ IsFiniteSet(Blocks \ freeBlocks)
  BY <1>1, <1>2, FS_Subset
<1>4. m \in Nat /\ n \in Nat /\ (m = 0 <=> freeBlocks = {})
  BY <1>3, FS_CardinalityType, FS_EmptySet
<1>5. n = c - Cardinality(Blocks \cap freeBlocks)
  BY <1>1, FS_Difference
<1>6. Blocks \cap freeBlocks = freeBlocks
  BY <1>2
<1>7. n = c - m
  BY <1>5, <1>6
<1> HIDE DEF n, m, c
<1>8. c = Store!Capacity
  BY <1>1 DEF Store!Capacity
<1>9. c \in Int
  BY <1>1, DiskAssumption
<1>10. n <= c /\ (n = c <=> m = 0) /\ (n < c <=> m # 0)
  BY <1>4, <1>7, <1>9
<1> QED
  BY <1>4, <1>8, <1>10 DEF n

LEMMA UsedIdle ==
  Habits = {} /\ Inv /\ CarefulInv({}, TRUE) /\ idle =>
    /\ Store!used(storedFiles) <= Store!Capacity
    /\ Store!used(storedFiles) = Store!Capacity <=> freeBlocks = {}
    /\ Store!used(storedFiles) < Store!Capacity <=> freeBlocks # {}
<1> SUFFICES ASSUME Habits = {}, Inv, CarefulInv({}, TRUE), idle
             PROVE  /\ Store!used(storedFiles) <= Store!Capacity
                    /\ Store!used(storedFiles) = Store!Capacity <=> freeBlocks = {}
                    /\ Store!used(storedFiles) < Store!Capacity <=> freeBlocks # {}
  OBVIOUS
<1>1. PICK own \in [Blocks -> Slots], pos \in [Blocks -> Nat] :
        IsLayout(disk, inodeIndices, own, pos, {}, 0)
  BY Settled DEF idle
<1>2. busySlots = {}
  BY DEF CarefulInv, PhaseOK, NoCall, busySlots
<1>3. \A s : Complete(disk, own, {}, 0, s)
  BY DiskAssumption DEF Complete, placed, Blocks
<1>4. Store!used(storedFiles) = Cardinality(Blocks \ freeBlocks)
  BY <1>1, <1>2, <1>3, UsedSeen
<1> QED
  BY <1>4, RoomSeen

\* The same when the busy file has been erased.
LEMMA UsedErased ==
  ASSUME Habits = {}, Inv, CarefulInv({}, TRUE), call.pc = "eraseFileData", call.cur = noBlockLink
  PROVE  /\ Store!used(storedFiles) = Store!Capacity <=> freeBlocks = {}
         /\ Store!used(storedFiles) < Store!Capacity <=> freeBlocks # {}
<1>1. PICK own \in [Blocks -> Slots], pos \in [Blocks -> Nat], tail \in BlockLink :
        /\ IsLayout(disk, inodeIndices, own, pos, {}, tail)
        /\ Erasing({}, own, pos, tail)
  BY BusyFile, NothingLost DEF CarefulInv, LayoutOK
<1>2. /\ call.op \in {"writeFile", "deleteFile"} /\ busySlots = {busySlot}
      /\ busySlot \in usedSlots
  BY OpOfPhase, BusyFile DEF CarefulInv, busySlots, busySlot
<1>3. \A b \in placed(disk, {}) : own[b] = busySlot => pos[b] = 0
  BY <1>1 DEF Erasing
<1>4. own[tail] = busySlot
  BY <1>1, <1>2, InodesPlaced DEF Erasing, usedSlots
<1>5. \A s \in Slots \ busySlots : Complete(disk, own, {}, tail, s)
  BY <1>2, <1>4 DEF Complete
<1>6. Store!used(storedFiles) = Cardinality(Blocks \ freeBlocks)
  BY <1>1, <1>2, <1>3, <1>5, UsedSeen
<1> QED
  BY <1>6, RoomSeen

-----------------------------------------------------------------------------
(* The open files and the call FileStore sees                              *)

\* A call that goes on has returned nothing yet.
Quiet == ~idle => ret = NoResult

LEMMA SeenDescriptors ==
  /\ \A fd : Store!isOpen(fd) <=> isOpen(fd)
  /\ \A fd : isOpen(fd) => /\ descriptors[fd].name = openFiles[fd].fileName
                           /\ descriptors[fd].location = openFiles[fd].location
  /\ \A name : Store!openUnder(name) = openUnder(name)
<1>1. DOMAIN descriptors = DOMAIN openFiles
  BY DEF descriptors
<1>2. \A fd \in DOMAIN openFiles : /\ descriptors[fd].name = openFiles[fd].fileName
                                   /\ descriptors[fd].location = openFiles[fd].location
  BY DEF descriptors
<1> QED
  BY <1>1, <1>2 DEF Store!isOpen, isOpen, Store!openUnder, openUnder

LEMMA SameDescriptors == ASSUME UNCHANGED openFiles PROVE UNCHANGED descriptors
BY DEF descriptors

LEMMA NoCallSeen == /\ call = NoCall => callInProgress = Store!NoCall
                    /\ call' = NoCall => callInProgress' = Store!NoCall
<1>1. call = NoCall => callInProgress = Store!NoCall
  BY DEF callInProgress, wholeBuffer, stageOf, NoCall, Store!NoCall
<1>2. call' = NoCall => callInProgress' = Store!NoCall
  BY DEF callInProgress, wholeBuffer, stageOf, NoCall, Store!NoCall
<1> QED
  BY <1>1, <1>2

\* Between calls there is none in progress, and no file is busy.
LEMMA IdleSeen ==
  ASSUME CarefulInv({}, TRUE), idle
  PROVE  callInProgress = Store!NoCall /\ busySlots = {} /\ (mounted => Store!Ready)
<1>1. call = NoCall
  BY DEF CarefulInv, PhaseOK
<1> QED
  BY <1>1, NoCallSeen DEF busySlots, NoCall, Store!Ready

LEMMA IdleAfter == ASSUME call' = NoCall PROVE busySlots' = {}
BY DEF busySlots, NoCall

\* A call that returns.
LEMMA Returning ==
  ASSUME NEW code, Return(code)
  PROVE  Store!Return(code) /\ call' = NoCall /\ busySlots' = {}
BY NoCallSeen, IdleAfter DEF Return, Store!Return

\* A call that changes nothing.
LEMMA Answering ==
  ASSUME Habits = {}, Inv, Inv', CarefulInv({}, TRUE), CarefulInv({}, TRUE)', idle, NEW code, Return(code),
         UNCHANGED <<disk, inodeIndices, mounted, openFiles, currentFD>>
  PROVE  Store!Answer(code)
<1>1. Store!Return(code) /\ busySlots' = busySlots
  BY Returning, IdleSeen
<1>2. storedFiles' = storedFiles
  BY <1>1, NoFileChanged, FilesSame DEF diskVars
<1>3. descriptors' = descriptors
  BY SameDescriptors
<1> QED
  BY <1>1, <1>2, <1>3 DEF Store!Answer

\* What FileStore sees of an open file between calls.
LEMMA OpenFileSeen ==
  ASSUME Habits = {}, Inv, CarefulInv({}, TRUE), idle, NEW fd, isOpen(fd)
  PROVE  LET file == openFiles[fd]
             slot == file.inodeLinkIndex
         IN /\ slot \in Slots /\ slot \in usedSlots
            /\ descriptors[fd].name = file.fileName /\ descriptors[fd].location = file.location
            /\ inodeOf(slot).fileName = file.fileName /\ inodeOf(slot).fileSize = file.fileSize
            /\ file.fileSize \in Nat /\ file.location \in Nat
            /\ file.fileName \in DOMAIN storedFiles
            /\ Store!fileOf(fd) = stored(slot)
            /\ stored(slot) = [readMode |-> inodeOf(slot).readMode, bytes |-> bytesIn(slot, file.fileSize)]
            /\ Len(stored(slot).bytes) = file.fileSize
            /\ (checkPermission(file) # 0) <=> (inodeOf(slot).readMode = readOnly)
<1> DEFINE file == openFiles[fd]
           slot == file.inodeLinkIndex
<1>1. fd \in DOMAIN openFiles
  BY DEF isOpen
<1>2. /\ slot \in Slots /\ slot \in usedSlots
      /\ inodeOf(slot).fileName = file.fileName /\ inodeOf(slot).fileSize = file.fileSize
      /\ inodeIndices[slot] # noBlockLink /\ disk[inodeIndices[slot]].blockID = INODE_ID
  BY <1>1, OpenFilesLinked DEF idle, inodeOf
<1>3. file.fileSize \in Nat /\ file.location \in Nat
  BY <1>1, OpenFileFields
<1>4. busySlots = {}
  BY IdleSeen
<1>5. stored(slot) = [readMode |-> inodeOf(slot).readMode, bytes |-> bytesIn(slot, file.fileSize)]
  BY <1>2, <1>4 DEF stored
<1>6. Len(stored(slot).bytes) = file.fileSize
  <2>1. stored(slot).bytes = bytesIn(slot, file.fileSize)
    BY <1>5
  <2>2. Len(bytesIn(slot, file.fileSize)) = file.fileSize
    BY <1>3, BytesRead
  <2> QED
    BY <2>1, <2>2
<1>7. descriptors[fd].name = file.fileName /\ descriptors[fd].location = file.location
  BY SeenDescriptors
<1>8. inodeOf(slot).fileName \in DOMAIN storedFiles /\ storedFiles[inodeOf(slot).fileName] = stored(slot)
  BY <1>2, FilesSeen
<1>9. Store!fileOf(fd) = storedFiles[descriptors[fd].name]
  BY DEF Store!fileOf
<1>10. (checkPermission(file) # 0) <=> (inodeOf(slot).readMode = readOnly)
  BY <1>2 DEF checkPermission, inodeLink, inodeOf, EPERM, INODE_ID, FILE_EXTENT_ID
<1> QED
  BY <1>2, <1>3, <1>5, <1>6, <1>7, <1>8, <1>9, <1>10

-----------------------------------------------------------------------------
(* Step by step                                                            *)

LEMMA RInit == ASSUME Init PROVE Store!Init
<1>1. usedSlots = {}
  BY DEF Init, Format, usedSlots
<1>2. fileSlots = {}
  BY <1>1 DEF fileSlots
<1>3. storedFiles = [n \in {} |-> Store!NoCall]
  BY <1>2 DEF storedFiles
<1>4. descriptors = [fd \in {} |-> Store!NoCall]
  BY DEF Init, descriptors
<1> QED
  BY <1>3, <1>4, NoCallSeen DEF Init, Store!Init, NoResult

LEMMA RMount ==
  ASSUME Habits = {}, Inv, Inv', CarefulInv({}, TRUE), CarefulInv({}, TRUE)', Mount
  PROVE  Store!Mount
<1>1. idle /\ callInProgress = Store!NoCall /\ busySlots = {}
  BY IdleSeen DEF Mount
<1>2. CASE mounted /\ Fail(EALREADY)
  BY <1>1, <1>2, Answering, SameNotions DEF Fail, Store!Mount
<1>4. CASE ~mounted /\ Fail(ENOENT)
  BY <1>1, <1>4, Answering, SameNotions DEF Fail, Store!Mount
<1>3. CASE ~mounted /\ mounted' = TRUE /\ Return(0) /\ UNCHANGED <<diskVars, openList>>
  <2>1. storedFiles' = storedFiles
    BY <1>1, <1>3, Returning, NoFileChanged, FilesSame
  <2> QED
    BY <1>1, <1>3, <2>1, Returning, SameDescriptors DEF Store!Mount, Store!fileVars, openList
<1> QED
  BY <1>2, <1>3, <1>4 DEF Mount

LEMMA RUnmount ==
  ASSUME Habits = {}, Inv, Inv', CarefulInv({}, TRUE), CarefulInv({}, TRUE)', Unmount
  PROVE  Store!Unmount
<1>1. idle /\ callInProgress = Store!NoCall /\ busySlots = {}
  BY IdleSeen DEF Unmount
<1>2. storedFiles' = storedFiles
  BY <1>1, Returning, NoFileChanged, FilesSame DEF Unmount
<1>3. CASE mounted
  <2>1. descriptors' = [fd \in {} |-> Store!NoCall]
    BY <1>3 DEF Unmount, openFDs_Reset, descriptors
  <2> QED
    BY <1>1, <1>2, <1>3, <2>1, Returning DEF Unmount, Store!Unmount, openFDs_Reset
<1>4. CASE ~mounted
  BY <1>1, <1>2, <1>4, Returning, SameDescriptors DEF Unmount, Store!Unmount, openList
<1> QED
  BY <1>3, <1>4

\* The calls that only ask, and the calls without a disk or a name.
LEMMA RQueries ==
  ASSUME Habits = {}, Inv, Inv', CarefulInv({}, TRUE), CarefulInv({}, TRUE)', CallUnmounted \/ NullName \/ Readdir
  PROVE  Store!Unmounted \/ Store!Query
<1>1. idle /\ callInProgress = Store!NoCall /\ (mounted => Store!Ready)
  BY IdleSeen DEF CallUnmounted, NullName, Readdir, Ready
<1>2. CASE CallUnmounted
  BY <1>1, <1>2, Answering, SameNotions DEF CallUnmounted, Fail, Store!Unmounted
<1>3. CASE NullName
  BY <1>1, <1>3, Answering, SameNotions DEF NullName, Ready, Fail, Store!Query
<1>4. CASE Readdir
  <2>1. \A s \in usedSlots : safeReadBlock(inodeIndices[s], {INODE_ID}) = 0
    BY SlotsLinked DEF safeReadBlock
  <2>2. Fail(0) /\ mounted
    BY <1>4, <2>1 DEF Readdir, Ready
  <2> QED
    BY <1>1, <2>2, Answering DEF Fail, Store!Query
<1> QED
  BY <1>2, <1>3, <1>4

LEMMA RReadFileInfo ==
  ASSUME Habits = {}, Inv, Inv', CarefulInv({}, TRUE), CarefulInv({}, TRUE)', NEW fd \in FDs, ReadFileInfo(fd)
  PROVE  Store!ReadFileInfo(fd)
<1>1. idle /\ Store!Ready
  BY IdleSeen DEF ReadFileInfo, Ready
<1>2. isOpen(fd) => safeReadBlock(inodeLink(openFiles[fd]), {INODE_ID}) = 0
  BY <1>1, OpenFilesLinked DEF idle, isOpen, inodeLink, safeReadBlock
<1>3. (~isOpen(fd) /\ Fail(ENOENT)) \/ (isOpen(fd) /\ Fail(0))
  BY <1>2 DEF ReadFileInfo
<1> QED
  BY <1>1, <1>3, Answering, SeenDescriptors, SameNotions DEF Fail, Store!ReadFileInfo

LEMMA RCloseFile ==
  ASSUME Habits = {}, Inv, Inv', CarefulInv({}, TRUE), CarefulInv({}, TRUE)', NEW fd \in FDs, CloseFile(fd)
  PROVE  Store!CloseFile(fd)
<1>1. idle /\ Store!Ready /\ busySlots = {}
  BY IdleSeen DEF CloseFile, Ready
<1>2. CASE ~isOpen(fd) /\ Fail(ENOENT)
  BY <1>1, <1>2, Answering, SeenDescriptors, SameNotions DEF Fail, Store!CloseFile
<1>3. CASE isOpen(fd) /\ openFDs_removeByFD(fd) /\ Return(0) /\ UNCHANGED <<diskVars, mounted>>
  <2>1. storedFiles' = storedFiles
    BY <1>1, <1>3, Returning, NoFileChanged, FilesSame
  <2>2. descriptors' = Store!without(descriptors, fd)
    BY <1>3 DEF openFDs_removeByFD, Restrict, Store!without, Store!Restrict, descriptors
  <2> QED
    BY <1>1, <1>3, <2>1, <2>2, Returning, SeenDescriptors DEF Store!CloseFile, openFDs_removeByFD
<1> QED
  BY <1>2, <1>3 DEF CloseFile

\* A new position of an open file.
LEMMA PositionSeen ==
  ASSUME NEW fd, isOpen(fd), NEW x,
         \A f \in DOMAIN openFiles : openFiles[f] \in TinyOpenFile,
         openFiles' = [openFiles EXCEPT ![fd].location = x]
  PROVE  descriptors' = [descriptors EXCEPT ![fd].location = x]
<1>1. DOMAIN openFiles' = DOMAIN openFiles
  OBVIOUS
<1>2. \A f \in DOMAIN openFiles :
        /\ openFiles'[f].fileName = openFiles[f].fileName
        /\ openFiles'[f].location = IF f = fd THEN x ELSE openFiles[f].location
  BY DEF TinyOpenFile
<1>3. descriptors' = [f \in DOMAIN openFiles |->
                        [name |-> openFiles[f].fileName,
                         location |-> IF f = fd THEN x ELSE openFiles[f].location]]
  BY <1>1, <1>2 DEF descriptors
<1> QED
  BY <1>3 DEF descriptors, isOpen

LEMMA RSeek ==
  ASSUME Habits = {}, Inv, Inv', CarefulInv({}, TRUE), CarefulInv({}, TRUE)', NEW fd \in FDs, NEW offset \in SeekOffsets,
         Seek(fd, offset)
  PROVE  Store!Seek(fd, offset)
<1> DEFINE file == openFiles[fd]
<1>1. idle /\ Store!Ready /\ busySlots = {}
  BY IdleSeen DEF Seek, Ready
<1>2. isOpen(fd) => Len(Store!fileOf(fd).bytes) = file.fileSize /\ file.fileSize \in Nat
  BY <1>1, OpenFileSeen
<1>3. CASE ~isOpen(fd) /\ Fail(ENOENT)
  BY <1>1, <1>3, Answering, SeenDescriptors, SameNotions DEF Fail, Store!Seek
<1>4. CASE isOpen(fd) /\ (offset < 0 \/ offset > file.fileSize) /\ Fail(ERANGE)
  <2>1. offset \notin 0..Len(Store!fileOf(fd).bytes)
    BY <1>2, <1>4
  <2> QED
    BY <1>1, <1>4, <2>1, Answering, SeenDescriptors, SameNotions DEF Fail, Store!Seek
<1>5. CASE /\ isOpen(fd) /\ offset \in 0..file.fileSize
           /\ openFiles' = [openFiles EXCEPT ![fd].location = offset]
           /\ Return(0)
           /\ UNCHANGED <<diskVars, mounted, currentFD>>
  <2>1. storedFiles' = storedFiles
    BY <1>1, <1>5, Returning, NoFileChanged, FilesSame
  <2>2. descriptors' = [descriptors EXCEPT ![fd].location = offset]
    BY <1>5, Types, PositionSeen
  <2> QED
    BY <1>1, <1>2, <1>5, <2>1, <2>2, Returning, SeenDescriptors DEF Store!Seek
<1> QED
  BY <1>3, <1>4, <1>5 DEF Seek

-----------------------------------------------------------------------------
(* tfs_openFile                                                            *)

\* What searchSB finds between calls on a disk that is not of the full size.
LEMMA NameSought ==
  ASSUME Habits = {}, Inv, CarefulInv({}, TRUE), NumBlocks # MaxBlockCount, NEW name
  PROVE  LET found == searchSB(name)
         IN /\ found.code \in {0, 1}
            /\ found.code = 1 => /\ found.slot \in usedSlots /\ inodeOf(found.slot).fileName = name
                                 /\ name \in DOMAIN storedFiles
            /\ found.code = 0 => name \notin DOMAIN storedFiles
<1> DEFINE found == searchSB(name)
<1>1. /\ found.code = 1 => found.slot \in usedSlots /\ inodeOf(found.slot).fileName = name
      /\ found.code = 0 => \A s \in usedSlots : inodeOf(s).fileName # name
      /\ found.code = ENOSPC => NumBlocks = MaxBlockCount \/ unusedSlots = {}
      /\ found.code \in {0, 1, ENOSPC}
  BY SearchSBFound
<1> HIDE DEF found
<1>2. found.code \in {0, 1}
  BY <1>1, SlotLeft
<1>3. DOMAIN storedFiles = {inodeOf(s).fileName : s \in usedSlots}
  BY FilesSeen
<1> QED
  BY <1>1, <1>2, <1>3 DEF found

\* A new descriptor.
LEMMA AddSeen ==
  ASSUME NEW size, NEW name, NEW slot, NEW next, openFDs_add(size, name, slot, next)
  PROVE  Store!addOpen(name)
<1>1. DOMAIN openFiles' = DOMAIN openFiles \cup {currentFD}
  BY DEF openFDs_add
<1>2. \A fd \in DOMAIN openFiles' :
        [name |-> openFiles'[fd].fileName, location |-> openFiles'[fd].location] =
        IF fd = currentFD THEN [name |-> name, location |-> 0]
        ELSE [name |-> openFiles[fd].fileName, location |-> openFiles[fd].location]
  BY DEF openFDs_add
<1>3. descriptors' = [fd \in DOMAIN openFiles \cup {currentFD} |->
                        IF fd = currentFD THEN [name |-> name, location |-> 0]
                        ELSE [name |-> openFiles[fd].fileName, location |-> openFiles[fd].location]]
  BY <1>1, <1>2 DEF descriptors
<1>4. descriptors' = [fd \in DOMAIN descriptors \cup {currentFD} |->
                        IF fd = currentFD THEN [name |-> name, location |-> 0] ELSE descriptors[fd]]
  BY <1>3 DEF descriptors
<1> QED
  BY <1>4 DEF Store!addOpen, openFDs_add

LEMMA ROpenFile ==
  ASSUME Habits = {}, Inv, Inv', CarefulInv({}, TRUE), CarefulInv({}, TRUE)', NumBlocks # MaxBlockCount,
         NEW CONSTANT name \in UserNames, OpenFile(name)
  PROVE  Store!OpenFile(formatName(name))
<1> DEFINE fname  == formatName(name)
           isNew  == openUnder(fname) = {}
           found  == searchSB(fname)
           target == findFreeBlock(disk, 0)
<1>1. idle /\ Store!Ready /\ busySlots = {}
  BY IdleSeen DEF OpenFile, Ready
<1>2. OnlyChanges({})
  BY COpenFile
<1>3. /\ found.code \in {0, 1}
      /\ found.code = 1 => Store!isFile(fname)
      /\ found.code = 0 => ~Store!isFile(fname)
  <2> HIDE DEF fname
  <2> QED
    BY NameSought DEF Store!isFile
<1>4. /\ target < 0 => target = ENOSPC /\ freeBlocks = {}
      /\ target > 0 => freeBlocks # {}
  <2>1. \A b \in Blocks : b > 0 /\ b \in Nat
    BY DiskAssumption DEF Blocks
  <2>2. \/ /\ target = ENOSPC
           /\ \A b \in Blocks : b > 0 => disk[b].blockID # FREE_ID
        \/ /\ target \in Blocks /\ disk[target].blockID = FREE_ID
    BY FindFreeBlock
  <2> QED
    BY <2>1, <2>2 DEF freeBlocks, ENOSPC
<1>5. /\ Store!used(storedFiles) = Store!Capacity <=> freeBlocks = {}
      /\ Store!used(storedFiles) < Store!Capacity <=> freeBlocks # {}
  BY <1>1, UsedIdle
<1> HIDE DEF found, target
<1>6. CASE ~isNew /\ Fail(openFDs_searchByName(fname))
  <2>1. currentFD \in Nat /\ openUnder(fname) \in SUBSET (0..currentFD)
    BY DiskAssumption DEF Inv, TypeOK, OpenListOK, openUnder
  <2>2. openFDs_searchByName(fname) \in openUnder(fname)
    BY <1>6, <2>1, MaxOfBoundedNats DEF openFDs_searchByName
  <2>3. openFDs_searchByName(fname) \in Store!openUnder(fname)
    BY <2>2, SeenDescriptors
  <2>4. Store!Answer(openFDs_searchByName(fname))
    BY <1>1, <1>6, Answering DEF Fail
  <2> QED
    BY <1>1, <2>3, <2>4 DEF Store!OpenFile
<1>7. CASE /\ isNew /\ found.code = 1
           /\ LET in == disk[inodeIndices[found.slot]]
              IN openFDs_add(in.fileSize, fname, found.slot, in.nextBlock)
           /\ Return(currentFD)
           /\ UNCHANGED <<diskVars, mounted>>
  <2>1. storedFiles' = storedFiles
    BY <1>1, <1>2, <1>7, Returning, FilesSame
  <2>2. Store!addOpen(fname) /\ Store!Return(currentFD)
    BY <1>7, AddSeen, Returning
  <2>3. Store!openUnder(fname) = {}
    BY <1>7, SeenDescriptors
  <2> QED
    BY <1>1, <1>3, <1>7, <2>1, <2>2, <2>3 DEF Store!OpenFile
<1>8. CASE isNew /\ found.code = 0 /\ target < 0 /\ Fail(target)
  <2>1. Store!Answer(Store!ENOSPC)
    BY <1>1, <1>4, <1>8, Answering, SameNotions DEF Fail
  <2> QED
    BY <1>1, <1>3, <1>4, <1>5, <1>8, <2>1 DEF Store!OpenFile
<1>9. CASE /\ isNew /\ found.code = 0 /\ target > 0
           /\ Begin([NoCall EXCEPT !.op = "openFile", !.pc = "linkInode", !.cur = target,
                                   !.slot = found.slot, !.name = fname])
           /\ UNCHANGED <<inodeIndices, mounted, openList>>
  <2>1. call' = [NoCall EXCEPT !.op = "openFile", !.pc = "linkInode", !.cur = target,
                               !.slot = found.slot, !.name = fname]
        /\ ret' = NoResult
    BY <1>9 DEF Begin
  <2>2. /\ call'.op = "openFile" /\ call'.pc = "linkInode" /\ call'.fd = 0
        /\ call'.name = fname /\ call'.buf = <<>>
    BY <2>1 DEF NoCall
  <2>3. busySlots' = {}
    BY <2>2 DEF busySlots
  <2>4. storedFiles' = storedFiles
    BY <1>1, <1>2, <2>3, FilesSame
  <2>5. descriptors' = descriptors
    BY <1>9, SameDescriptors DEF openList
  <2>6. callInProgress' = [op |-> "openFile", stage |-> "create", fd |-> 0, name |-> fname,
                           buffer |-> <<>>]
    BY <2>2 DEF callInProgress, wholeBuffer, stageOf
  <2>7. Store!Start("openFile", "create", 0, fname, <<>>)
    BY <1>9, <2>1, <2>6 DEF Store!Start, NoResult
  <2> QED
    BY <1>1, <1>3, <1>4, <1>5, <1>9, <2>4, <2>5, <2>7 DEF Store!OpenFile, Store!fileVars, openList
<1> QED
  BY <1>3, <1>6, <1>7, <1>8, <1>9 DEF OpenFile, found, target

LEMMA RLinkInode ==
  ASSUME Habits = {}, Inv, Inv', CarefulInv({}, TRUE), CarefulInv({}, TRUE)', LinkInode
  PROVE  Store!Create
<1> DEFINE new == [readMode |-> Store!readAndWrite, bytes |-> <<>>]
<1>1. PICK t \in Slots : t = call.slot /\ OnlyChanges({t})
  BY CLinkInode
<1>2. /\ call.pc = "linkInode" /\ call.cur \in Blocks /\ call.op = "openFile"
      /\ disk[call.cur].fileSize = 0 /\ disk[call.cur].fileName = call.name
      /\ disk[call.cur].readMode = readAndWrite
      /\ inodeIndices[t] = noBlockLink
  <2>1. call.pc = "linkInode" /\ call.pc \in phases[call.op] /\ call \in Locals
    BY Types DEF LinkInode, CarefulInv, PhaseOK
  <2>2. call.op = "openFile"
    BY <2>1 DEF phases, Locals
  <2> QED
    BY <1>1, <2>1, <2>2 DEF CarefulInv, Linking, Inv, TypeOK, LocalsOK
<1>3. inodeIndices' = [inodeIndices EXCEPT ![t] = call.cur] /\ disk' = disk
  BY <1>1 DEF LinkInode
<1>4. inodeIndices'[t] = call.cur /\ call.cur # noBlockLink
  BY <1>2, <1>3, Types, DiskAssumption DEF Blocks, noBlockLink
<1>5. t \notin usedSlots /\ t \in usedSlots'
  BY <1>2, <1>4 DEF usedSlots
<1>6. /\ inodeOf(t)'.fileName = call.name /\ inodeOf(t)'.fileSize = 0
      /\ inodeOf(t)'.readMode = readAndWrite
  BY <1>2, <1>3, <1>4 DEF inodeOf
<1>7. Store!Return(currentFD) /\ busySlots' = {} /\ busySlots = {}
  BY <1>2, Returning DEF LinkInode, busySlots
<1>8. stored(t)' = new
  <2>1. stored(t)' = [readMode |-> inodeOf(t)'.readMode, bytes |-> bytesIn(t, inodeOf(t).fileSize)']
    BY <1>7 DEF stored
  <2>2. bytesIn(t, inodeOf(t).fileSize)' = <<>>
    BY <1>6 DEF bytesIn
  <2> QED
    BY <1>6, <2>1, <2>2, SameNotions
<1>9. storedFiles' = [n \in DOMAIN storedFiles \cup {call.name} |->
                        IF n = call.name THEN new ELSE storedFiles[n]]
  <2> HIDE DEF new
  <2>1. storedFiles' = [n \in DOMAIN storedFiles \cup {call.name} |->
                          IF n = call.name THEN stored(t)' ELSE storedFiles[n]]
    BY <1>1, <1>5, <1>6, <1>7, FileAdded
  <2> QED
    BY <1>8, <2>1
<1>10. callInProgress.stage = "create" /\ callInProgress.name = call.name
  BY <1>2 DEF callInProgress, stageOf
<1>11. Store!addOpen(call.name)
  BY AddSeen DEF LinkInode
<1> QED
  BY <1>7, <1>9, <1>10, <1>11 DEF Store!Create, LinkInode

-----------------------------------------------------------------------------
(* tfs_writeFile and tfs_deleteFile up to the inode                        *)

\* The file behind the descriptor of a write or a deletion.
LEMMA BusySeen ==
  ASSUME Habits = {}, Inv, CarefulInv({}, TRUE), call.pc \in {"eraseFileData", "writeBlocks"}
  PROVE  /\ busySlots = {busySlot} /\ busySlot \in Slots /\ busySlot \in usedSlots
         /\ callInProgress.fd = call.fd /\ callInProgress.op = call.op
         /\ descriptors[call.fd].name = inodeOf(busySlot).fileName
         /\ openFiles[call.fd].fileSize = inodeOf(busySlot).fileSize
         /\ inodeOf(busySlot).fileName \in DOMAIN storedFiles
         /\ storedFiles[inodeOf(busySlot).fileName] = stored(busySlot)
         /\ stored(busySlot) = [readMode |-> inodeOf(busySlot).readMode, bytes |-> <<>>]
<1>1. /\ call.op \in {"writeFile", "deleteFile"} /\ busySlots = {busySlot}
      /\ busySlot \in usedSlots /\ busySlot \in Slots /\ call.fd \in DOMAIN openFiles
  BY OpOfPhase, BusyFile DEF CarefulInv, busySlots, busySlot
<1>2. /\ inodeOf(busySlot).fileName = openFiles[call.fd].fileName
      /\ inodeOf(busySlot).fileSize = openFiles[call.fd].fileSize
  BY <1>1 DEF CarefulInv, TableOK, busySlot
<1>3. descriptors[call.fd].name = openFiles[call.fd].fileName
  BY <1>1, SeenDescriptors DEF isOpen
<1>4. stored(busySlot) = [readMode |-> inodeOf(busySlot).readMode, bytes |-> <<>>]
  BY <1>1 DEF stored
<1>5. callInProgress.fd = call.fd /\ callInProgress.op = call.op
  BY DEF callInProgress
<1> QED
  BY <1>1, <1>2, <1>3, <1>4, <1>5, FilesSeen

\* A write or a deletion begins: from here on FileStore has lost the file's bytes.
LEMMA EraseSeen ==
  ASSUME Habits = {}, Inv, Inv', CarefulInv({}, TRUE), CarefulInv({}, TRUE)', idle, NEW CONSTANT fd, isOpen(fd),
         OnlyChanges({}), UNCHANGED <<diskVars, mounted, openList>>,
         NEW op, op \in {"writeFile", "deleteFile"}, NEW buffer,
         call'.op = op, call'.pc = "eraseFileData",
         call'.fd = fd, call'.buf = buffer, call'.name = <<>>, ret' = NoResult
  PROVE  /\ Store!Start(op, "erase", fd, <<>>, buffer)
         /\ storedFiles' = Store!erased(descriptors[fd].name)
         /\ UNCHANGED <<descriptors, currentFD>>
<1>1. PICK t \in Slots : t = openFiles[fd].inodeLinkIndex
  BY OpenFileSeen
<1>2. /\ t \in usedSlots /\ inodeOf(t).fileName = openFiles[fd].fileName
      /\ descriptors[fd].name = openFiles[fd].fileName
      /\ stored(t).readMode = inodeOf(t).readMode
      /\ stored(t) = [readMode |-> inodeOf(t).readMode, bytes |-> bytesIn(t, openFiles[fd].fileSize)]
  BY <1>1, OpenFileSeen
<1>3. busySlots = {} /\ busySlots' = {t}
  BY <1>1, IdleSeen DEF busySlots, openList
<1>4. t \in usedSlots' /\ inodeOf(t)' = inodeOf(t)
  BY <1>2 DEF diskVars, usedSlots, inodeOf
<1>5. stored(t)' = [readMode |-> inodeOf(t).readMode, bytes |-> <<>>]
  BY <1>3, <1>4 DEF stored
<1>6. OnlyChanges({t})
  BY DEF OnlyChanges
<1>7. /\ openFiles[fd].fileName \in DOMAIN storedFiles
      /\ storedFiles[openFiles[fd].fileName] = stored(t)
      /\ storedFiles' = [storedFiles EXCEPT ![openFiles[fd].fileName] = stored(t)']
  <2>1. /\ inodeOf(t).fileName \in DOMAIN storedFiles
        /\ storedFiles[inodeOf(t).fileName] = stored(t)
        /\ storedFiles' = [storedFiles EXCEPT ![inodeOf(t).fileName] = stored(t)']
    BY <1>2, <1>3, <1>4, <1>6, FileChanged
  <2> QED
    BY <1>2, <2>1
<1>8. [stored(t) EXCEPT !.bytes = <<>>] = stored(t)'
  BY <1>2, <1>5
<1>9. storedFiles' = Store!erased(descriptors[fd].name)
  BY <1>2, <1>7, <1>8 DEF Store!erased
<1>10. callInProgress' = [op |-> op, stage |-> "erase", fd |-> fd, name |-> <<>>, buffer |-> buffer]
  BY DEF callInProgress, wholeBuffer, stageOf
<1> QED
  BY <1>9, <1>10, SameDescriptors DEF openList, Store!Start, NoResult

LEMMA RWriteFile ==
  ASSUME Habits = {}, Inv, Inv', CarefulInv({}, TRUE), CarefulInv({}, TRUE)',
         NEW CONSTANT fd \in FDs, NEW CONSTANT buffer \in Buffers,
         WriteFile(fd, buffer), OnlyChanges({})
  PROVE  Store!WriteFile(fd, buffer)
<1>1. idle /\ Store!Ready
  BY IdleSeen DEF WriteFile, Ready
<1>2. CASE ~isOpen(fd) /\ Fail(ENOENT)
  BY <1>1, <1>2, Answering, SeenDescriptors, SameNotions DEF Fail, Store!WriteFile
<1>3. isOpen(fd) => ((checkPermission(openFiles[fd]) # 0) <=> (Store!fileOf(fd).readMode = Store!readOnly))
  <2> SUFFICES ASSUME isOpen(fd)
               PROVE  (checkPermission(openFiles[fd]) # 0) <=> (Store!fileOf(fd).readMode = Store!readOnly)
    OBVIOUS
  <2> DEFINE slot == openFiles[fd].inodeLinkIndex
  <2>1. /\ Store!fileOf(fd) = stored(slot)
        /\ stored(slot) = [readMode |-> inodeOf(slot).readMode,
                           bytes |-> bytesIn(slot, openFiles[fd].fileSize)]
        /\ (checkPermission(openFiles[fd]) # 0) <=> (inodeOf(slot).readMode = readOnly)
    BY <1>1, OpenFileSeen
  <2> QED
    BY <2>1, SameNotions
<1>4. CASE isOpen(fd) /\ checkPermission(openFiles[fd]) # 0 /\ Fail(EPERM)
  BY <1>1, <1>3, <1>4, Answering, SeenDescriptors, SameNotions DEF Fail, Store!WriteFile
<1>5. CASE /\ isOpen(fd) /\ checkPermission(openFiles[fd]) = 0
           /\ Begin([NoCall EXCEPT !.op = "writeFile", !.pc = "eraseFileData", !.fd = fd,
                                   !.buf = buffer, !.cur = openFiles[fd].nextBlockIndex])
           /\ UNCHANGED <<diskVars, mounted, openList>>
  <2>1. /\ call'.op = "writeFile" /\ call'.pc = "eraseFileData" /\ call'.fd = fd
        /\ call'.buf = buffer /\ call'.name = <<>> /\ ret' = NoResult
    BY <1>5 DEF Begin, NoCall
  <2>2. /\ Store!Start("writeFile", "erase", fd, <<>>, buffer)
        /\ storedFiles' = Store!erased(descriptors[fd].name)
        /\ UNCHANGED <<descriptors, currentFD>>
    BY <1>1, <1>5, <2>1, EraseSeen
  <2> QED
    BY <1>1, <1>3, <1>5, <2>2, SeenDescriptors DEF Store!WriteFile
<1> QED
  BY <1>2, <1>4, <1>5 DEF WriteFile

LEMMA RDeleteFile ==
  ASSUME Habits = {}, Inv, Inv', CarefulInv({}, TRUE), CarefulInv({}, TRUE)', NEW CONSTANT fd \in FDs, DeleteFile(fd)
  PROVE  Store!DeleteFile(fd)
<1>1. idle /\ Store!Ready
  BY IdleSeen DEF DeleteFile, Ready
<1>2. CASE ~isOpen(fd) /\ Fail(ENOENT)
  BY <1>1, <1>2, Answering, SeenDescriptors, SameNotions DEF Fail, Store!DeleteFile
<1>3. CASE /\ isOpen(fd)
           /\ Begin([NoCall EXCEPT !.op = "deleteFile", !.pc = "eraseFileData", !.fd = fd,
                                   !.cur = openFiles[fd].nextBlockIndex])
           /\ UNCHANGED <<diskVars, mounted, openList>>
  <2>1. /\ call'.op = "deleteFile" /\ call'.pc = "eraseFileData" /\ call'.fd = fd
        /\ call'.buf = <<>> /\ call'.name = <<>> /\ ret' = NoResult
    BY <1>3 DEF Begin, NoCall
  <2>2. /\ Store!Start("deleteFile", "erase", fd, <<>>, <<>>)
        /\ storedFiles' = Store!erased(descriptors[fd].name)
        /\ UNCHANGED <<descriptors, currentFD>>
    BY <1>1, <1>3, <2>1, CDeleteFile, EraseSeen
  <2> QED
    BY <1>1, <1>3, <2>2, SeenDescriptors DEF Store!DeleteFile
<1> QED
  BY <1>2, <1>3 DEF DeleteFile

\* Erasing one more block, or writing one that is not the last, FileStore sees nothing
\* of the busy file.
LEMMA BusyKept ==
  ASSUME Habits = {}, Inv, Inv', CarefulInv({}, TRUE), CarefulInv({}, TRUE)', call.pc \in {"eraseFileData", "writeBlocks"},
         OnlyChanges({busySlot}), UNCHANGED <<inodeIndices, openFiles>>,
         disk'[inodeIndices[busySlot]] = disk[inodeIndices[busySlot]],
         call'.op = call.op, call'.fd = call.fd
  PROVE  UNCHANGED <<storedFiles, descriptors>>
<1>1. /\ busySlots = {busySlot} /\ busySlot \in Slots /\ busySlot \in usedSlots
      /\ inodeOf(busySlot).fileName \in DOMAIN storedFiles
      /\ storedFiles[inodeOf(busySlot).fileName] = stored(busySlot)
      /\ stored(busySlot) = [readMode |-> inodeOf(busySlot).readMode, bytes |-> <<>>]
  BY BusySeen
<1>2. PICK t \in Slots : t = busySlot
  BY <1>1
<1>3. busySlots' = {t}
  BY <1>1, <1>2 DEF busySlots, busySlot
<1>4. t \in usedSlots /\ t \in usedSlots' /\ inodeOf(t)' = inodeOf(t)
  BY <1>1, <1>2 DEF usedSlots, inodeOf
<1>5. stored(t)' = stored(t)
  BY <1>1, <1>2, <1>3, <1>4 DEF stored
<1>6. OnlyChanges({t})
  BY <1>2
<1>7. storedFiles' = [storedFiles EXCEPT ![inodeOf(t).fileName] = stored(t)']
  BY <1>1, <1>2, <1>3, <1>4, <1>6, FileChanged
<1>8. storedFiles' = storedFiles
  BY <1>1, <1>2, <1>5, <1>7, FilesSeen
<1> QED
  BY <1>8, SameDescriptors

LEMMA REraseBlock ==
  ASSUME Habits = {}, Inv, Inv', CarefulInv({}, TRUE), CarefulInv({}, TRUE)', EraseBlock
  PROVE  UNCHANGED Store!vars
<1>1. /\ call.pc = "eraseFileData" /\ call.cur # noBlockLink /\ call \in Locals
      /\ disk' = [disk EXCEPT ![call.cur] = freeBlock]
      /\ call' = [call EXCEPT !.cur = disk[call.cur].nextBlock]
      /\ UNCHANGED <<inodeIndices, mounted, openList, ret>>
  BY Types DEF EraseBlock
<1>2. inodeIndices[busySlot] # call.cur /\ inodeIndices[busySlot] \in Blocks
  <2>1. PICK own \in [Blocks -> Slots], pos \in [Blocks -> Nat], tail \in BlockLink :
          /\ IsLayout(disk, inodeIndices, own, pos, {}, tail)
          /\ Erasing({}, own, pos, tail)
    BY <1>1, BusyFile, NothingLost DEF CarefulInv, LayoutOK
  <2>2. pos[call.cur] # 0
    BY <1>1, <2>1 DEF Erasing
  <2>3. /\ busySlot \in Slots /\ inodeIndices[busySlot] # noBlockLink
        /\ inodeIndices[busySlot] \in Blocks
    BY <1>1, BusyFile
  <2>4. pos[inodeIndices[busySlot]] = 0
    BY <2>1, <2>3, InodesPlaced
  <2> QED
    BY <2>2, <2>3, <2>4
<1>3. disk'[inodeIndices[busySlot]] = disk[inodeIndices[busySlot]]
  BY <1>1, <1>2, Types
<1>4. /\ call'.op = call.op /\ call'.fd = call.fd /\ call'.pc = call.pc
      /\ call'.name = call.name /\ call'.buf = call.buf
  BY <1>1 DEF Locals
<1>5. OnlyChanges({busySlot})
  BY CEraseBlock
<1>6. UNCHANGED <<storedFiles, descriptors>>
  BY <1>1, <1>3, <1>4, <1>5, BusyKept DEF openList
<1>7. callInProgress' = callInProgress
  BY <1>1, <1>4 DEF callInProgress, wholeBuffer, stageOf
<1> QED
  BY <1>1, <1>6, <1>7 DEF Store!vars, openList

LEMMA RUpdateInode ==
  ASSUME Habits = {}, Inv, Inv', CarefulInv({}, TRUE), CarefulInv({}, TRUE)', Quiet, UpdateInode
  PROVE  Store!Overwrite
<1> DEFINE file  == openFiles[call.fd]
           first == findFreeBlock(disk, 0)
<1>1. /\ call.pc = "eraseFileData" /\ call.op = "writeFile" /\ call.cur = noBlockLink
      /\ call \in Locals
  BY Types DEF UpdateInode
<1>2. PICK t \in Slots : t = busySlot
  BY <1>1, BusySeen
<1>3. /\ busySlots = {t} /\ t \in usedSlots
      /\ callInProgress.fd = call.fd /\ callInProgress.op = call.op
      /\ descriptors[call.fd].name = inodeOf(t).fileName
      /\ openFiles[call.fd].fileSize = inodeOf(t).fileSize
      /\ inodeOf(t).fileName \in DOMAIN storedFiles
      /\ storedFiles[inodeOf(t).fileName] = stored(t)
      /\ stored(t) = [readMode |-> inodeOf(t).readMode, bytes |-> <<>>]
  BY <1>1, <1>2, BusySeen
<1>4. /\ call.fd \in DOMAIN openFiles /\ openFiles[call.fd] \in TinyOpenFile
      /\ inodeIndices[t] \in Blocks /\ inodeIndices[t] # noBlockLink /\ inodeLink(file) = inodeIndices[t]
  BY <1>1, <1>2, BusyFile DEF inodeLink, busySlot
<1>5. call.buf # <<>> /\ call.buf \in Seq(Byte)
  BY <1>1, NothingLost DEF CarefulInv, LayoutOK, Erasing, Locals
<1>6. callInProgress.stage = "erase" /\ callInProgress.buffer = call.buf
  BY <1>1 DEF callInProgress, wholeBuffer, stageOf
<1>7. /\ Store!used(storedFiles) = Store!Capacity <=> freeBlocks = {}
      /\ Store!used(storedFiles) < Store!Capacity <=> freeBlocks # {}
  BY <1>1, UsedErased
<1>8. \/ first = ENOSPC /\ freeBlocks = {}
      \/ first \in Blocks /\ first > 0 /\ ~(first < 0) /\ freeBlocks # {}
  <2>1. \A b \in Blocks : b > 0 /\ b \in Nat
    BY DiskAssumption DEF Blocks
  <2>2. \/ /\ first = ENOSPC
           /\ \A b \in Blocks : b > 0 => disk[b].blockID # FREE_ID
        \/ /\ first \in Blocks /\ disk[first].blockID = FREE_ID
    BY FindFreeBlock
  <2> HIDE DEF first
  <2> QED
    BY <2>1, <2>2 DEF freeBlocks
<1>9. OnlyChanges({t})
  BY <1>2, CUpdateInode
<1> HIDE DEF first
<1>10. CASE first < 0 /\ Fail(first)
  <2>1. first = ENOSPC /\ freeBlocks = {}
    BY <1>8, <1>10
  <2>2. inodeOf(t).fileSize = 0
    <3>1. PICK own \in [Blocks -> Slots], pos \in [Blocks -> Nat], tail \in BlockLink :
            Erasing({}, own, pos, tail)
      BY NothingLost DEF CarefulInv, LayoutOK
    <3>2. \/ toWrite <= Cardinality(freeBlocks) + toErase(pos)
          \/ inodeOf(t).fileSize = 0
      BY <1>1, <1>2, <3>1 DEF Erasing
    <3>3. toErase(pos) = 0 /\ Cardinality(freeBlocks) = 0
      BY <1>1, <2>1, FS_EmptySet DEF toErase
    <3>4. toWrite \in Nat /\ toWrite # 0
      <4>1. Len(call.buf) \in Nat /\ Len(call.buf) # 0
        BY <1>5
      <4> QED
        BY <4>1, BlocksFor DEF toWrite
    <3> HIDE DEF toWrite
    <3> QED
      BY <3>2, <3>3, <3>4
  <2>3. Store!Return(Store!ENOSPC) /\ busySlots' = {}
    BY <1>10, <2>1, Returning, SameNotions DEF Fail
  <2>4. t \in usedSlots' /\ inodeOf(t)' = inodeOf(t)
    BY <1>3, <1>10 DEF Fail, usedSlots, inodeOf
  <2>5. stored(t)' = stored(t)
    <3>1. stored(t)' = [readMode |-> inodeOf(t).readMode, bytes |-> bytesIn(t, inodeOf(t).fileSize)']
      BY <2>3, <2>4 DEF stored
    <3>2. bytesIn(t, inodeOf(t).fileSize)' = <<>>
      BY <2>2, <2>4 DEF bytesIn
    <3> QED
      BY <1>3, <3>1, <3>2
  <2>6. storedFiles' = [storedFiles EXCEPT ![inodeOf(t).fileName] = stored(t)']
    BY <1>3, <1>9, <2>3, <2>4, FileChanged
  <2>7. storedFiles' = storedFiles
    BY <1>3, <2>5, <2>6, FilesSeen
  <2>8. Store!Answer(Store!ENOSPC)
    BY <1>10, <2>3, <2>7, SameDescriptors DEF Fail, Store!Answer
  <2> QED
    BY <1>1, <1>3, <1>6, <1>7, <2>1, <2>8 DEF Store!Overwrite
<1>11. ASSUME first > 0, NEW mode \in readFlag,
              disk' = [disk EXCEPT ![inodeLink(file)] =
                         inodeBlock(file.fileName, Len(call.buf), first, mode)],
              openFiles' = [openFiles EXCEPT
                              ![call.fd] = [file EXCEPT !.nextBlockIndex = first,
                                                        !.fileSize = Len(call.buf),
                                                        !.location = 0]],
              IF call.buf = <<>> THEN Return(0) ELSE Begin([call EXCEPT !.pc = "writeBlocks", !.cur = first]),
              UNCHANGED <<inodeIndices, mounted, currentFD>>
       PROVE  Store!Overwrite
  <2>1. freeBlocks # {}
    BY <1>8, <1>11 DEF ENOSPC
  <2>2. /\ call' = [call EXCEPT !.pc = "writeBlocks", !.cur = first] /\ ret' = NoResult
    BY <1>5, <1>11 DEF Begin
  <2>3. /\ call'.op = call.op /\ call'.fd = call.fd /\ call'.name = call.name
        /\ call'.buf = call.buf /\ call'.pc = "writeBlocks"
    BY <1>1, <2>2 DEF Locals
  <2>4. /\ inodeOf(t)'.fileName = file.fileName /\ inodeOf(t)'.readMode = mode
    BY <1>4, <1>11, Types DEF inodeOf, inodeBlock
  <2>5. /\ DOMAIN openFiles' = DOMAIN openFiles
        /\ \A fd \in DOMAIN openFiles :
             /\ openFiles'[fd].fileName = openFiles[fd].fileName
             /\ openFiles'[fd].inodeLinkIndex = openFiles[fd].inodeLinkIndex
             /\ openFiles'[fd].location = IF fd = call.fd THEN 0 ELSE openFiles[fd].location
        /\ openFiles'[call.fd].fileSize = Len(call.buf)
    BY <1>4, <1>11 DEF TinyOpenFile
  <2>6. busySlots' = {t}
    BY <1>1, <1>2, <1>4, <2>3, <2>5 DEF busySlots, busySlot
  <2>7. t \in usedSlots'
    BY <1>3, <1>11 DEF usedSlots
  <2>8. file.fileName = inodeOf(t).fileName
    BY <1>3, <1>4, SeenDescriptors DEF isOpen
  <2>9. stored(t)' = [readMode |-> mode, bytes |-> <<>>]
    BY <2>4, <2>6 DEF stored
  <2>10. storedFiles' = [storedFiles EXCEPT ![inodeOf(t).fileName] = stored(t)']
    BY <1>3, <1>9, <2>4, <2>6, <2>7, <2>8, FileChanged
  <2>11. [stored(t) EXCEPT !.readMode = mode] = stored(t)'
    BY <1>3, <2>9
  <2>12. storedFiles' = [storedFiles EXCEPT ![descriptors[call.fd].name].readMode = mode]
    BY <1>3, <2>10, <2>11
  <2>13. descriptors' = [descriptors EXCEPT ![call.fd].location = 0]
    <3>1. descriptors' = [fd \in DOMAIN openFiles |->
                            [name |-> openFiles[fd].fileName,
                             location |-> IF fd = call.fd THEN 0 ELSE openFiles[fd].location]]
      BY <2>5 DEF descriptors
    <3> QED
      BY <1>4, <3>1 DEF descriptors
  <2>14. callInProgress' = [callInProgress EXCEPT !.stage = "store"]
    <3> DEFINE none == bytesIn(openFiles[call.fd].inodeLinkIndex, openFiles[call.fd].fileSize - Len(call.buf))
    <3>1. none' = <<>>
      <4>1. openFiles'[call'.fd].fileSize - Len(call'.buf) = 0
        BY <1>5, <2>3, <2>5
      <4> QED
        BY <4>1 DEF bytesIn
    <3>2. <<>> \o call.buf = call.buf
      BY <1>5
    <3>3. wholeBuffer' = call.buf
      BY <2>3, <3>1, <3>2 DEF wholeBuffer
    <3>4. callInProgress' = [op |-> call.op, stage |-> "store", fd |-> call.fd, name |-> call.name,
                             buffer |-> call.buf]
      BY <2>3, <3>3 DEF callInProgress, stageOf
    <3>5. callInProgress = [op |-> call.op, stage |-> "erase", fd |-> call.fd, name |-> call.name,
                            buffer |-> call.buf]
      BY <1>1 DEF callInProgress, wholeBuffer, stageOf
    <3> QED
      BY <3>4, <3>5
  <2>15. ret' = ret
    BY <1>1, <2>2 DEF Quiet, idle
  <2> QED
    BY <1>1, <1>3, <1>6, <1>7, <1>11, <2>1, <2>12, <2>13, <2>14, <2>15, SameNotions DEF Store!Overwrite
<1> QED
  BY <1>4, <1>10, <1>11 DEF UpdateInode, first

LEMMA RRemoveInode ==
  ASSUME Habits = {}, Inv, Inv', CarefulInv({}, TRUE), CarefulInv({}, TRUE)', Quiet, RemoveInode
  PROVE  Store!Unlink
<1>1. /\ call.pc = "eraseFileData" /\ call.op = "deleteFile" /\ call \in Locals
  BY Types DEF RemoveInode
<1>2. PICK t \in Slots : t = busySlot
  BY <1>1, BusySeen
<1>3. /\ busySlots = {t} /\ t \in usedSlots /\ callInProgress.fd = call.fd /\ callInProgress.op = call.op
      /\ descriptors[call.fd].name = inodeOf(t).fileName
  BY <1>1, <1>2, BusySeen
<1>4. /\ inodeIndices' = [inodeIndices EXCEPT ![t] = noBlockLink]
      /\ call' = [call EXCEPT !.pc = "freeInode", !.cur = inodeLink(openFiles[call.fd])]
      /\ ret' = NoResult /\ UNCHANGED <<disk, mounted, openList>>
  BY <1>2 DEF RemoveInode, Begin, busySlot
<1>5. t \notin usedSlots'
  BY <1>4, Types DEF usedSlots
<1>6. /\ call'.op = call.op /\ call'.fd = call.fd /\ call'.name = call.name
      /\ call'.buf = call.buf /\ call'.pc = "freeInode"
  BY <1>1, <1>4 DEF Locals
<1>7. busySlots' = {t}
  BY <1>1, <1>2, <1>4, <1>6 DEF busySlots, busySlot, openList
<1>8. OnlyChanges({t})
  BY <1>2, CRemoveInode
<1>9. storedFiles' = Store!without(storedFiles, inodeOf(t).fileName)
  BY <1>3, <1>5, <1>7, <1>8, FileRemoved
<1>10. callInProgress' = [callInProgress EXCEPT !.stage = "unlinked"]
  <2>1. callInProgress' = [op |-> call.op, stage |-> "unlinked", fd |-> call.fd, name |-> call.name,
                           buffer |-> call.buf]
    BY <1>6 DEF callInProgress, wholeBuffer, stageOf
  <2>2. callInProgress = [op |-> call.op, stage |-> "erase", fd |-> call.fd, name |-> call.name,
                          buffer |-> call.buf]
    BY <1>1 DEF callInProgress, wholeBuffer, stageOf
  <2> QED
    BY <2>1, <2>2
<1>11. callInProgress.stage = "erase"
  BY <1>1 DEF callInProgress, stageOf
<1>12. ret' = ret
  BY <1>1, <1>4 DEF Quiet, idle
<1> QED
  BY <1>1, <1>3, <1>4, <1>9, <1>10, <1>11, <1>12, SameDescriptors DEF Store!Unlink, openList

LEMMA RFreeInode ==
  ASSUME Habits = {}, Inv, Inv', CarefulInv({}, TRUE), CarefulInv({}, TRUE)', FreeInode
  PROVE  Store!Delete
<1>1. /\ call.pc = "freeInode" /\ call.cur # noBlockLink /\ call.op = "deleteFile"
      /\ busySlot \notin usedSlots
  <2>1. call.pc = "freeInode"
    BY DEF FreeInode
  <2> QED
    BY <2>1, OpOfPhase, DiskAssumption DEF CarefulInv, PhaseOK, Blocks, noBlockLink, unusedSlots
<1>2. /\ openFDs_removeByFD(call.fd) /\ Return(0) /\ UNCHANGED <<inodeIndices, mounted>>
  BY <1>1 DEF FreeInode
<1>3. Store!Return(0) /\ busySlots' = {} /\ busySlots = {busySlot}
  BY <1>1, <1>2, Returning DEF busySlots, busySlot
<1>4. OnlyChanges({})
  BY CFreeInode
<1>5. storedFiles' = storedFiles
  BY <1>1, <1>3, <1>4, FilesSame
<1>6. descriptors' = Store!without(descriptors, call.fd)
  BY <1>2 DEF openFDs_removeByFD, Restrict, Store!without, Store!Restrict, descriptors
<1>7. callInProgress.stage = "unlinked" /\ callInProgress.fd = call.fd
  BY <1>1 DEF callInProgress, stageOf
<1> QED
  BY <1>2, <1>3, <1>5, <1>6, <1>7 DEF Store!Delete, openFDs_removeByFD

-----------------------------------------------------------------------------
(* tfs_displayFragments and tfs_defrag                                     *)

busyPhases == {"display", "defragInode", "swapInodeLink", "freeOldInode", "iterateFEs",
               "swapExtentLink", "freeOldExtent"}

\* A call of the two begins.
LEMMA ReorganisationBegins ==
  ASSUME Habits = {}, Inv, Inv', CarefulInv({}, TRUE), CarefulInv({}, TRUE)', idle, Store!Ready, OnlyChanges({}),
         UNCHANGED <<mounted, openList>>,
         NEW op, op \in {"defrag", "displayFragments"},
         call'.op = op, call'.pc \in busyPhases, call'.fd = 0, call'.buf = <<>>, call'.name = <<>>,
         ret' = NoResult
  PROVE  Store!Reorganise
<1>1. busySlots = {} /\ busySlots' = {}
  BY IdleSeen DEF busySlots
<1>2. storedFiles' = storedFiles
  BY <1>1, FilesSame
<1>3. callInProgress' = [op |-> op, stage |-> "busy", fd |-> 0, name |-> <<>>, buffer |-> <<>>]
  BY DEF callInProgress, wholeBuffer, stageOf, busyPhases
<1> QED
  BY <1>2, <1>3, SameDescriptors DEF openList, Store!Reorganise, Store!Start, Store!fileVars, NoResult

\* It goes on: FileStore sees nothing.
LEMMA ReorganisationGoesOn ==
  ASSUME Habits = {}, Inv, Inv', CarefulInv({}, TRUE), CarefulInv({}, TRUE)', call.pc \in busyPhases, call'.pc \in busyPhases,
         OnlyChanges({}), UNCHANGED <<mounted, openList, ret>>,
         call'.op = call.op, call'.fd = call.fd, call'.buf = call.buf, call'.name = call.name
  PROVE  UNCHANGED Store!vars
<1>1. call.op \in {"defrag", "displayFragments"}
  <2>1. call.pc \in phases[call.op] /\ call \in Locals
    BY Types DEF CarefulInv, PhaseOK
  <2> QED
    BY <2>1 DEF phases, Locals, busyPhases
<1>2. busySlots = {} /\ busySlots' = {}
  BY <1>1 DEF busySlots
<1>3. storedFiles' = storedFiles
  BY <1>2, FilesSame
<1>4. callInProgress' = callInProgress
  <2>1. stageOf(call.pc) = "busy" /\ stageOf(call'.pc) = "busy"
    BY DEF stageOf, busyPhases
  <2>2. wholeBuffer = call.buf /\ wholeBuffer' = call'.buf
    BY DEF wholeBuffer, busyPhases
  <2> QED
    BY <2>1, <2>2 DEF callInProgress
<1> QED
  BY <1>3, <1>4, SameDescriptors DEF Store!vars, openList

\* It ends.
LEMMA ReorganisationEnds ==
  ASSUME Habits = {}, Inv, Inv', CarefulInv({}, TRUE), CarefulInv({}, TRUE)', call.pc \in busyPhases, Fail(0)
  PROVE  Store!Finish
<1>1. call.op \in {"defrag", "displayFragments"}
  <2>1. call.pc \in phases[call.op] /\ call \in Locals
    BY Types DEF CarefulInv, PhaseOK
  <2> QED
    BY <2>1 DEF phases, Locals, busyPhases
<1>2. busySlots = {} /\ busySlots' = {} /\ Store!Return(0)
  BY <1>1, Returning DEF busySlots, Fail
<1>3. storedFiles' = storedFiles
  BY <1>2, NoFileChanged, FilesSame DEF Fail, diskVars
<1>4. callInProgress.stage = "busy"
  BY DEF callInProgress, stageOf, busyPhases
<1> QED
  BY <1>2, <1>3, <1>4, SameDescriptors DEF Store!Finish, Store!Answer, Fail

LEMMA RDisplay ==
  ASSUME Habits = {}, Inv, Inv', CarefulInv({}, TRUE), CarefulInv({}, TRUE)', DisplayFragments \/ DisplayBlock
  PROVE  Store!Reorganise \/ Store!Finish \/ UNCHANGED Store!vars
<1>1. CASE DisplayFragments
  <2>1. idle /\ Store!Ready /\ OnlyChanges({})
    BY <1>1, IdleSeen, CDisplayFragments DEF DisplayFragments, Ready
  <2>2. /\ call'.op = "displayFragments" /\ call'.pc \in busyPhases /\ call'.fd = 0
        /\ call'.buf = <<>> /\ call'.name = <<>> /\ ret' = NoResult
    BY <1>1 DEF DisplayFragments, Begin, NoCall, busyPhases
  <2>3. Store!Reorganise
    BY <1>1, <2>1, <2>2, ReorganisationBegins DEF DisplayFragments
  <2> QED
    BY <2>3
<1>2. CASE DisplayBlock
  <2>1. call.pc = "display" /\ call.pc \in busyPhases /\ OnlyChanges({}) /\ call \in Locals
    BY <1>2, CDisplayBlock, Types DEF DisplayBlock, busyPhases
  <2>2. CASE Fail(0)
    BY <2>1, <2>2, ReorganisationEnds
  <2>3. CASE /\ \E c : call' = [call EXCEPT !.cur = c]
             /\ UNCHANGED <<diskVars, mounted, openList, ret>>
    <3>1. /\ call'.op = call.op /\ call'.fd = call.fd /\ call'.buf = call.buf
          /\ call'.name = call.name /\ call'.pc = call.pc
      BY <2>1, <2>3 DEF Locals
    <3> QED
      BY <2>1, <2>3, <3>1, ReorganisationGoesOn
  <2>4. CASE /\ \E s, c : call' = [call EXCEPT !.slot = s, !.cur = c]
             /\ UNCHANGED <<diskVars, mounted, openList, ret>>
    <3>1. /\ call'.op = call.op /\ call'.fd = call.fd /\ call'.buf = call.buf
          /\ call'.name = call.name /\ call'.pc = call.pc
      BY <2>1, <2>4 DEF Locals
    <3> QED
      BY <2>1, <2>4, <3>1, ReorganisationGoesOn
  <2> QED
    BY <1>2, <2>2, <2>3, <2>4 DEF DisplayBlock
<1> QED
  BY <1>1, <1>2

LEMMA RDefrag ==
  ASSUME Habits = {}, Inv, Inv', CarefulInv({}, TRUE), CarefulInv({}, TRUE)', Defrag, DOMAIN openFiles = {}
  PROVE  Store!Reorganise \/ Store!Query
<1>1. idle /\ Store!Ready /\ OnlyChanges({})
  BY IdleSeen, CDefrag DEF Defrag, Ready
<1>2. CASE Fail(0)
  BY <1>1, <1>2, Answering DEF Fail, Store!Query
<1>3. CASE /\ \E f : Begin([NoCall EXCEPT !.op = "defrag", !.pc = "defragInode", !.free = f])
           /\ UNCHANGED <<diskVars, mounted, openList>>
  <2>1. /\ call'.op = "defrag" /\ call'.pc \in busyPhases /\ call'.fd = 0
        /\ call'.buf = <<>> /\ call'.name = <<>> /\ ret' = NoResult
    BY <1>3 DEF Begin, NoCall, busyPhases
  <2> QED
    BY <1>1, <1>3, <2>1, ReorganisationBegins
<1> QED
  BY <1>2, <1>3 DEF Defrag

\* The locals FileStore sees stay as they are while tfs_defrag goes on.
LEMMA DefragLocals ==
  ASSUME Inv, CarefulInv({}, TRUE),
         DefragInode \/ SwapInodeLink \/ FreeOldInode \/ IterateFEs \/ SwapExtentLink \/ FreeOldExtent
  PROVE  \/ Fail(0)
         \/ /\ call'.op = call.op /\ call'.fd = call.fd /\ call'.buf = call.buf
            /\ call'.name = call.name /\ call'.pc \in busyPhases
            /\ UNCHANGED <<mounted, openList, ret>>
<1>1. call \in Locals
  BY Types
<1>2. CASE DefragInode
  <2>1. call.pc = "defragInode" /\ ~(call.free < 0)
    <3>1. call.pc = "defragInode"
      BY <1>2 DEF DefragInode
    <3>2. call.free \in Blocks
      BY <3>1 DEF Inv, DefragCursor, freeBlocks
    <3> QED
      BY <3>1, <3>2, DiskAssumption DEF Blocks
  <2>2. slotsFrom(call.slot) # {} => safeReadBlock(inodeIndices[Min(slotsFrom(call.slot))], {INODE_ID}) = 0
    <3>1. slotsFrom(call.slot) \in SUBSET Nat
      BY DiskAssumption DEF slotsFrom, usedSlots, Slots
    <3>2. slotsFrom(call.slot) # {} => Min(slotsFrom(call.slot)) \in usedSlots
      BY <3>1, MinOfNats DEF slotsFrom
    <3> QED
      BY <3>2, SlotsLinked DEF safeReadBlock
  <2> DEFINE s    == Min(slotsFrom(call.slot))
             link == inodeIndices[s]
             err  == safeReadBlock(link, {INODE_ID})
             next == disk[link].nextBlock
  <2>3. \/ Fail(0)
        \/ slotsFrom(call.slot) # {} /\ err # 0
        \/ call.free < 0
        \/ /\ call' = [call EXCEPT !.pc = "swapInodeLink", !.slot = s, !.cur = link]
           /\ UNCHANGED <<mounted, openList, ret>>
        \/ /\ call' = [call EXCEPT !.pc = "iterateFEs", !.slot = s, !.prev = link, !.cur = next]
           /\ UNCHANGED <<mounted, openList, ret>>
    BY <1>2 DEF DefragInode
  <2>4. slotsFrom(call.slot) # {} => err = 0
    BY <2>2
  <2> HIDE DEF s, link, err, next
  <2> QED
    BY <1>1, <2>1, <2>3, <2>4 DEF Locals, busyPhases
<1>3. CASE SwapInodeLink
  BY <1>1, <1>3 DEF SwapInodeLink, Locals, busyPhases
<1>4. CASE FreeOldInode
  <2>1. call.pc = "freeOldInode" /\ disk' = [disk EXCEPT ![call.cur] = freeBlock]
    BY <1>4 DEF FreeOldInode
  <2>2. ~(findFreeBlock(disk', call.free) < 0)
    BY <2>1, NextCursor
  <2> DEFINE free == findFreeBlock(disk', call.free)
  <2>3. /\ call' = [call EXCEPT !.pc = "iterateFEs", !.free = free, !.prev = call.free,
                                !.cur = disk[call.cur].nextBlock]
        /\ UNCHANGED <<mounted, openList, ret>>
    BY <1>4, <2>2 DEF FreeOldInode
  <2> HIDE DEF free
  <2> QED
    BY <1>1, <2>3 DEF Locals, busyPhases
<1>5. CASE IterateFEs
  BY <1>1, <1>5 DEF IterateFEs, nextSlot, Locals, busyPhases
<1>6. CASE SwapExtentLink
  BY <1>1, <1>6 DEF SwapExtentLink, Locals, busyPhases
<1>7. CASE FreeOldExtent
  BY <1>1, <1>7 DEF FreeOldExtent, nextSlot, Locals, busyPhases
<1> QED
  BY <1>2, <1>3, <1>4, <1>5, <1>6, <1>7

LEMMA RDefragSteps ==
  ASSUME Habits = {}, Inv, Inv', CarefulInv({}, TRUE), CarefulInv({}, TRUE)',
         DefragInode \/ SwapInodeLink \/ FreeOldInode \/ IterateFEs \/ SwapExtentLink \/ FreeOldExtent
  PROVE  Store!Finish \/ UNCHANGED Store!vars
<1>1. OnlyChanges({})
  BY CDefragInode, CSwapInodeLink, CFreeOldInode, CIterateFEs, CSwapExtentLink, CFreeOldExtent
<1>2. call.pc \in busyPhases
  BY DEF DefragInode, SwapInodeLink, FreeOldInode, IterateFEs, SwapExtentLink, FreeOldExtent, busyPhases
<1>3. CASE Fail(0)
  BY <1>2, <1>3, ReorganisationEnds
<1>4. CASE /\ call'.op = call.op /\ call'.fd = call.fd /\ call'.buf = call.buf
           /\ call'.name = call.name /\ call'.pc \in busyPhases
           /\ UNCHANGED <<mounted, openList, ret>>
  BY <1>1, <1>2, <1>4, ReorganisationGoesOn
<1> QED
  BY <1>3, <1>4, DefragLocals

-----------------------------------------------------------------------------
(* The bytes of a file and its blocks                                      *)

\* The block that holds byte j of the file in slot s, by a layout.
Holds(d, own, pos, F, s, j, b) ==
  b \in placed(d, F) /\ own[b] = s /\ pos[b] = (j - 1) \div DataPerBlock + 1

\* Each byte of a file without a tail is in the block the layout says.
LEMMA ByteStored ==
  ASSUME NEW CONSTANT own \in [Blocks -> Slots], NEW CONSTANT pos \in [Blocks -> Nat],
         NEW CONSTANT F, NEW CONSTANT tail, NEW CONSTANT s \in Slots, NEW CONSTANT size \in Nat,
         NEW CONSTANT j \in 1..size
  PROVE  (/\ disk \in [Blocks -> Block] /\ inodeIndices \in [Slots -> BlockLink]
          /\ IsLayout(disk, inodeIndices, own, pos, F, tail) /\ Complete(disk, own, F, tail, s)
          /\ inodeIndices[s] # noBlockLink /\ disk[inodeIndices[s]].fileSize = size) =>
           \E b \in Blocks :
              /\ Holds(disk, own, pos, F, s, j, b) /\ disk[b].blockID = FILE_EXTENT_ID
              /\ bytesIn(s, size)[j] = disk[b].data[(j - 1) % DataPerBlock]
<1> SUFFICES ASSUME disk \in [Blocks -> Block], inodeIndices \in [Slots -> BlockLink],
                    IsLayout(disk, inodeIndices, own, pos, F, tail), Complete(disk, own, F, tail, s),
                    inodeIndices[s] # noBlockLink, disk[inodeIndices[s]].fileSize = size
             PROVE  \E b \in Blocks :
                      /\ Holds(disk, own, pos, F, s, j, b) /\ disk[b].blockID = FILE_EXTENT_ID
                      /\ bytesIn(s, size)[j] = disk[b].data[(j - 1) % DataPerBlock]
  OBVIOUS
<1> DEFINE link == chainOn(disk, inodeIndices[s])
           K == extents(disk, inodeIndices, s)
           n == (j - 1) \div DataPerBlock + 1
<1>1. /\ K < NumBlocks
      /\ \A m \in 0..NumBlocks : IF m <= K
                                 THEN link[m] \in placed(disk, F) /\ own[link[m]] = s /\ pos[link[m]] = m
                                 ELSE link[m] = noBlockLink
  BY ChainOfFile DEF Complete
<1>2. K \in Nat /\ K = blocksFor(size)
  BY ExtentsNat DEF extents
<1>3. n \in Nat /\ n # 0 /\ n <= K
  <2>1. j - 1 \in Nat /\ j - 1 < size
    OBVIOUS
  <2>2. (j - 1) \div DataPerBlock \in Nat /\ (j - 1) \div DataPerBlock < blocksFor(size)
    BY <2>1, ByteBlock
  <2> HIDE DEF K
  <2> QED
    BY <1>2, <2>2
<1>4. bytesIn(s, size)[j] = byteAt(link[n], j - 1)
  BY DEF bytesIn, chain
<1> HIDE DEF n, K, link
<1>5. n \in 0..NumBlocks
  BY <1>1, <1>2, <1>3, DiskAssumption
<1>6. link[n] \in placed(disk, F) /\ own[link[n]] = s /\ pos[link[n]] = n
  BY <1>1, <1>3, <1>5
<1>7. /\ link[n] \in Blocks /\ link[n] # noBlockLink
      /\ disk[link[n]].blockID = FILE_EXTENT_ID
  <2>1. /\ link[n] \in Blocks /\ disk[link[n]].blockID # FREE_ID
        /\ disk[link[n]].blockID # INODE_ID
    BY <1>3, <1>6 DEF IsLayout, Placed, placed
  <2> QED
    BY <2>1, BlockFields, DiskAssumption DEF Blocks, noBlockLink
<1>8. Holds(disk, own, pos, F, s, j, link[n])
  BY <1>6 DEF Holds, n
<1> QED
  BY <1>4, <1>7, <1>8 DEF byteAt

LEMMA ByteStoredAfter ==
  ASSUME NEW CONSTANT own \in [Blocks -> Slots], NEW CONSTANT pos \in [Blocks -> Nat],
         NEW CONSTANT F, NEW CONSTANT tail, NEW CONSTANT s \in Slots, NEW CONSTANT size \in Nat,
         NEW CONSTANT j \in 1..size,
         disk' \in [Blocks -> Block], inodeIndices' \in [Slots -> BlockLink],
         IsLayout(disk', inodeIndices', own, pos, F, tail), Complete(disk', own, F, tail, s),
         inodeIndices'[s] # noBlockLink, disk'[inodeIndices'[s]].fileSize = size
  PROVE  \E b \in Blocks :
           /\ Holds(disk', own, pos, F, s, j, b) /\ disk'[b].blockID = FILE_EXTENT_ID
           /\ bytesIn(s, size)'[j] = disk'[b].data[(j - 1) % DataPerBlock]
<1>1. ((/\ disk \in [Blocks -> Block] /\ inodeIndices \in [Slots -> BlockLink]
        /\ IsLayout(disk, inodeIndices, own, pos, F, tail) /\ Complete(disk, own, F, tail, s)
        /\ inodeIndices[s] # noBlockLink /\ disk[inodeIndices[s]].fileSize = size) =>
           \E b \in Blocks :
              /\ Holds(disk, own, pos, F, s, j, b) /\ disk[b].blockID = FILE_EXTENT_ID
              /\ bytesIn(s, size)[j] = disk[b].data[(j - 1) % DataPerBlock])'
  BY ByteStored, PTL
<1> QED
  BY <1>1

\* Before and after a step between calls that writes to one block in use, the bytes
\* of a file are in the same blocks.
LEMMA BlockTouched ==
  ASSUME Inv, Inv', CarefulInv({}, TRUE), idle,
         NEW CONSTANT b \in Blocks, disk[b].blockID # FREE_ID,
         \A c \in Blocks : c # b => disk'[c] = disk[c],
         disk'[b].blockID = disk[b].blockID, disk'[b].nextBlock = disk[b].nextBlock,
         disk[b].blockID = INODE_ID => disk'[b].fileSize = disk[b].fileSize,
         UNCHANGED inodeIndices,
         NEW CONSTANT own \in [Blocks -> Slots], NEW CONSTANT pos \in [Blocks -> Nat],
         IsLayout(disk, inodeIndices, own, pos, {}, 0),
         NEW CONSTANT t \in Slots, t \in usedSlots, NEW CONSTANT size, size = inodeOf(t).fileSize
  PROVE  /\ inodeOf(t)'.fileSize = size /\ size \in Nat
         /\ \A j \in 1..size : \E c \in Blocks :
              /\ Holds(disk, own, pos, {}, t, j, c) /\ disk[c].blockID = FILE_EXTENT_ID
              /\ bytesIn(t, size)[j] = disk[c].data[(j - 1) % DataPerBlock]
              /\ bytesIn(t, size)'[j] = disk'[c].data[(j - 1) % DataPerBlock]
<1>1. /\ disk \in [Blocks -> Block] /\ inodeIndices \in [Slots -> BlockLink]
      /\ disk' \in [Blocks -> Block] /\ inodeIndices' \in [Slots -> BlockLink]
  BY Types, TypesAfter
<1>2. placed(disk', {}) = placed(disk, {}) /\ placed(disk, {}) \subseteq Blocks
  BY DEF placed
<1>3. IsLayout(disk', inodeIndices', own, pos, {}, 0)
  BY <1>2, SameLayout
<1>4. \A s : Complete(disk, own, {}, 0, s) /\ Complete(disk', own, {}, 0, s)
  BY DiskAssumption DEF Complete, placed, Blocks
<1>5. inodeIndices[t] # noBlockLink /\ inodeIndices[t] \in Blocks /\ disk[inodeIndices[t]].blockID = INODE_ID
  BY SlotsLinked
<1>6. inodeIndices'[t] # noBlockLink /\ disk'[inodeIndices'[t]].fileSize = size /\ size \in Nat
  BY <1>1, <1>5, BlockFields DEF inodeOf
<1>8. disk[inodeIndices[t]].fileSize = size /\ size \in Nat /\ Complete(disk, own, {}, 0, t)
      /\ Complete(disk', own, {}, 0, t)
  BY <1>4, <1>6 DEF inodeOf
<1>7. ASSUME NEW CONSTANT j \in 1..size
      PROVE  \E c \in Blocks :
               /\ Holds(disk, own, pos, {}, t, j, c) /\ disk[c].blockID = FILE_EXTENT_ID
               /\ bytesIn(t, size)[j] = disk[c].data[(j - 1) % DataPerBlock]
               /\ bytesIn(t, size)'[j] = disk'[c].data[(j - 1) % DataPerBlock]
  <2>1. PICK c \in Blocks : /\ Holds(disk, own, pos, {}, t, j, c) /\ disk[c].blockID = FILE_EXTENT_ID
                            /\ bytesIn(t, size)[j] = disk[c].data[(j - 1) % DataPerBlock]
    BY <1>1, <1>5, <1>8, ByteStored
  <2>2. PICK e \in Blocks : /\ Holds(disk', own, pos, {}, t, j, e)
                            /\ bytesIn(t, size)'[j] = disk'[e].data[(j - 1) % DataPerBlock]
    <3>1. /\ disk' \in [Blocks -> Block] /\ inodeIndices' \in [Slots -> BlockLink]
          /\ IsLayout(disk', inodeIndices', own, pos, {}, 0) /\ Complete(disk', own, {}, 0, t)
          /\ inodeIndices'[t] # noBlockLink /\ disk'[inodeIndices'[t]].fileSize = size
          /\ size \in Nat
      BY <1>1, <1>3, <1>6, <1>8
    <3> QED
      BY ONLY <3>1, ByteStoredAfter, t \in Slots, j \in 1..size,
         own \in [Blocks -> Slots], pos \in [Blocks -> Nat]
  <2>3. c = e
    BY <1>2, <2>1, <2>2 DEF Holds, IsLayout, Apart
  <2> QED
    BY <2>1, <2>2, <2>3
<1> QED
  BY <1>6, <1>7 DEF inodeOf

\* A write to an inode changes no byte of any file.
LEMMA InodeWritten ==
  ASSUME Inv, Inv', CarefulInv({}, TRUE), idle,
         NEW CONSTANT b \in Blocks, disk[b].blockID = INODE_ID,
         \A c \in Blocks : c # b => disk'[c] = disk[c],
         disk'[b].blockID = disk[b].blockID, disk'[b].nextBlock = disk[b].nextBlock,
         disk'[b].fileSize = disk[b].fileSize,
         UNCHANGED inodeIndices,
         NEW CONSTANT t \in Slots, t \in usedSlots
  PROVE  /\ inodeOf(t)'.fileSize = inodeOf(t).fileSize
         /\ bytesIn(t, inodeOf(t).fileSize)' = bytesIn(t, inodeOf(t).fileSize)
<1>1. PICK own \in [Blocks -> Slots], pos \in [Blocks -> Nat] :
        IsLayout(disk, inodeIndices, own, pos, {}, 0)
  BY Settled DEF idle
<1>2. disk \in [Blocks -> Block] /\ inodeIndices[t] \in Blocks /\ disk[inodeIndices[t]].blockID = INODE_ID
  BY SlotsLinked, Types
<1>3. PICK size \in Nat : size = inodeOf(t).fileSize
  BY <1>2, BlockFields DEF inodeOf
<1>4. /\ inodeOf(t)'.fileSize = size
      /\ \A j \in 1..size : \E c \in Blocks :
           /\ disk[c].blockID = FILE_EXTENT_ID
           /\ bytesIn(t, size)[j] = disk[c].data[(j - 1) % DataPerBlock]
           /\ bytesIn(t, size)'[j] = disk'[c].data[(j - 1) % DataPerBlock]
  BY <1>1, <1>3, BlockTouched DEF INODE_ID, FREE_ID
<1>5. \A c \in Blocks : disk[c].blockID = FILE_EXTENT_ID => disk'[c] = disk[c]
  BY DEF INODE_ID, FILE_EXTENT_ID
<1>6. \A j \in 1..size : bytesIn(t, size)'[j] = bytesIn(t, size)[j]
  BY <1>4, <1>5
<1>7. bytesIn(t, size)' = bytesIn(t, size)
  <2>1. /\ bytesIn(t, size) = [j \in 1..size |-> bytesIn(t, size)[j]]
        /\ bytesIn(t, size)' = [j \in 1..size |-> bytesIn(t, size)'[j]]
    BY DEF bytesIn
  <2> QED
    BY <1>6, <2>1
<1> QED
  BY <1>3, <1>4, <1>7

-----------------------------------------------------------------------------
(* tfs_rename, tfs_makeRO and tfs_makeRW                                   *)

LEMMA RRename ==
  ASSUME Habits = {}, Inv, Inv', CarefulInv({}, TRUE), CarefulInv({}, TRUE)', NEW CONSTANT fd \in FDs,
         NEW CONSTANT newName \in UserNames, Rename(fd, newName),
         \A s \in usedSlots : ~(isFile(s) /\ inodeOf(s).fileName = formatName(newName))
  PROVE  Store!Rename(fd, formatName(newName))
<1> DEFINE b == inodeLink(openFiles[fd])
           n == formatName(newName)
<1>1. idle /\ Store!Ready /\ busySlots = {}
  BY IdleSeen DEF Rename, Ready
<1>2. CASE ~isOpen(fd) /\ Fail(ENOENT)
  BY <1>1, <1>2, Answering, SeenDescriptors, SameNotions DEF Fail, Store!Rename
<1>3. CASE /\ isOpen(fd)
           /\ disk' = [disk EXCEPT ![b].fileName = n]
           /\ openFiles' = [openFiles EXCEPT ![fd].fileName = n]
           /\ Return(0) /\ UNCHANGED <<inodeIndices, mounted, currentFD>>
  <2>1. fd \in DOMAIN openFiles /\ call.pc # "freeInode"
    BY <1>1, <1>3 DEF isOpen, idle
  <2>2. PICK t \in Slots : t = openFiles[fd].inodeLinkIndex
    BY <2>1, OpenFilesLinked
  <2>3. PICK c \in Blocks : c = b
    BY <2>1, OpenFilesLinked DEF inodeLink
  <2>4. t \in usedSlots /\ c = inodeIndices[t] /\ disk[c].blockID = INODE_ID
    BY <2>1, <2>2, <2>3, OpenFilesLinked DEF inodeLink
  <2>5. disk \in [Blocks -> Block] /\ disk[c] \in Block
    BY Types
  <2>6. /\ disk'[c] = [disk[c] EXCEPT !.fileName = n]
        /\ \A e \in Blocks : e # c => disk'[e] = disk[e]
    BY <1>3, <2>3, <2>5
  <2>7. /\ disk'[c].blockID = disk[c].blockID /\ disk'[c].nextBlock = disk[c].nextBlock
        /\ disk'[c].fileSize = disk[c].fileSize /\ disk'[c].fileName = n
        /\ disk'[c].readMode = disk[c].readMode
    BY <2>4, <2>5, <2>6, InodeTouched
  <2>8. /\ inodeOf(t)'.fileSize = inodeOf(t).fileSize
        /\ bytesIn(t, inodeOf(t).fileSize)' = bytesIn(t, inodeOf(t).fileSize)
    BY <1>1, <1>3, <2>4, <2>6, <2>7, InodeWritten
  <2>9. Store!Return(0) /\ busySlots' = {}
    BY <1>3, Returning
  <2>10. stored(t)' = stored(t)
    <3>1. inodeOf(t)'.readMode = inodeOf(t).readMode
      BY <1>3, <2>4, <2>7 DEF inodeOf
    <3>2. stored(t)' = [readMode |-> inodeOf(t)'.readMode, bytes |-> bytesIn(t, inodeOf(t).fileSize)']
      BY <2>8, <2>9 DEF stored
    <3> QED
      BY <1>1, <2>8, <3>1, <3>2 DEF stored
  <2>11. OnlyChanges({t})
    <3>1. PICK s \in Slots : OnlyChanges({s}) /\ (isOpen(fd) => s = openFiles[fd].inodeLinkIndex)
      BY CRename
    <3> QED
      BY <1>3, <2>2, <3>1
  <2>12. usedSlots' = usedSlots
    BY <1>3 DEF usedSlots
  <2>13. PICK old : old = inodeOf(t).fileName
    OBVIOUS
  <2>14. n = inodeOf(t)'.fileName
    BY <1>3, <2>4, <2>7 DEF inodeOf
  <2>15. storedFiles' = [m \in (DOMAIN storedFiles \ {old}) \cup {n} |->
                           IF m = n THEN stored(t) ELSE storedFiles[m]]
    <3> HIDE DEF n
    <3>1. storedFiles' = [m \in (DOMAIN storedFiles \ {old}) \cup {n} |->
                            IF m = n THEN stored(t)' ELSE storedFiles[m]]
      BY <1>1, <2>4, <2>9, <2>11, <2>12, <2>13, <2>14, FileRenamed
    <3> QED
      BY <2>10, <3>1
  <2>16. descriptors[fd].name = old /\ storedFiles[old] = stored(t)
    BY <1>1, <1>3, <2>2, <2>4, <2>13, OpenFileSeen, FilesSeen
  <2>17. n \notin DOMAIN storedFiles
    BY <2>4, SlotsLinked, FilesSeen
  <2>18. descriptors' = [descriptors EXCEPT ![fd].name = n]
    <3> HIDE DEF n
    <3>1. DOMAIN openFiles' = DOMAIN openFiles
      BY <1>3
    <3>2. \A f \in DOMAIN openFiles :
            /\ openFiles'[f].location = openFiles[f].location
            /\ openFiles'[f].fileName = IF f = fd THEN n ELSE openFiles[f].fileName
      BY <1>3, <2>1, Types DEF TinyOpenFile
    <3>3. descriptors' = [f \in DOMAIN openFiles |->
                            [name |-> IF f = fd THEN n ELSE openFiles[f].fileName,
                             location |-> openFiles[f].location]]
      BY <3>1, <3>2 DEF descriptors
    <3> QED
      BY <2>1, <3>3 DEF descriptors
  <2> HIDE DEF n
  <2> QED
    BY <1>1, <1>3, <2>9, <2>15, <2>16, <2>17, <2>18, SeenDescriptors DEF Store!Rename, n
<1>4. isOpen(fd) => safeReadBlock(inodeLink(openFiles[fd]), {INODE_ID}) = 0
  BY <1>1, OpenFilesLinked DEF idle, isOpen, inodeLink, safeReadBlock
<1> QED
  BY <1>2, <1>3, <1>4 DEF Rename

\* The permission of the file in a slot is set.
LEMMA ReadModeSeen ==
  ASSUME Habits = {}, Inv, Inv', CarefulInv({}, TRUE), CarefulInv({}, TRUE)', idle, NEW CONSTANT t \in usedSlots, NEW CONSTANT mode,
         setReadMode(t, mode), Return(0), UNCHANGED openFiles,
         NEW name, name = inodeOf(t).fileName
  PROVE  /\ Store!isFile(name)
         /\ storedFiles' = [storedFiles EXCEPT ![name].readMode = mode]
<1>1. busySlots = {} /\ busySlots' = {} /\ call' = NoCall
  BY IdleSeen, Returning
<1>2. PICK c \in Blocks : c = inodeIndices[t]
  BY SlotsLinked
<1>3. t \in Slots /\ c # noBlockLink /\ disk[c].blockID = INODE_ID
  BY <1>2, SlotsLinked
<1>4. disk' = [disk EXCEPT ![c].readMode = mode] /\ UNCHANGED inodeIndices
  BY <1>2, <1>3 DEF setReadMode, INODE_ID, FILE_EXTENT_ID
<1>5. disk \in [Blocks -> Block] /\ disk[c] \in Block
  BY Types
<1>6. /\ disk'[c] = [disk[c] EXCEPT !.readMode = mode]
      /\ \A e \in Blocks : e # c => disk'[e] = disk[e]
  BY <1>4, <1>5
<1>7. /\ disk'[c].blockID = disk[c].blockID /\ disk'[c].nextBlock = disk[c].nextBlock
      /\ disk'[c].fileSize = disk[c].fileSize /\ disk'[c].fileName = disk[c].fileName
      /\ disk'[c].readMode = mode
  <2>1. disk'[c].readMode = mode
    BY <1>3, <1>5, <1>6 DEF Block, INODE_ID, FREE_ID, FILE_EXTENT_ID
  <2> QED
    BY <1>3, <1>5, <1>6, <2>1, InodeTouched
<1>8. /\ inodeOf(t)'.fileSize = inodeOf(t).fileSize
      /\ bytesIn(t, inodeOf(t).fileSize)' = bytesIn(t, inodeOf(t).fileSize)
  BY <1>3, <1>4, <1>6, <1>7, InodeWritten
<1>9. OnlyChanges({t})
  BY <1>1, CSetReadMode
<1>10. /\ t \in usedSlots' /\ inodeOf(t)'.fileName = inodeOf(t).fileName
       /\ inodeOf(t)'.readMode = mode
  BY <1>2, <1>4, <1>7 DEF usedSlots, inodeOf
<1>11. /\ name \in DOMAIN storedFiles /\ storedFiles[name] = stored(t)
       /\ storedFiles' = [storedFiles EXCEPT ![name] = stored(t)']
  BY <1>1, <1>3, <1>9, <1>10, FileChanged
<1>12. stored(t)' = [stored(t) EXCEPT !.readMode = mode]
  <2>1. stored(t)' = [readMode |-> mode, bytes |-> bytesIn(t, inodeOf(t).fileSize)']
    BY <1>1, <1>8, <1>10 DEF stored
  <2> QED
    BY <1>1, <1>8, <2>1 DEF stored
<1> QED
  BY <1>11, <1>12 DEF Store!isFile

LEMMA RChangePermissions ==
  ASSUME Habits = {}, Inv, Inv', CarefulInv({}, TRUE), CarefulInv({}, TRUE)', NumBlocks # MaxBlockCount,
         NEW CONSTANT name \in UserNames, NEW CONSTANT mode \in readFlag,
         ChangePermissions(name, mode)
  PROVE  Store!ChangePermissions(formatName(name), mode)
<1> DEFINE fname  == formatName(name)
           found  == searchSB(fname)
           openFD == openFDs_searchByName(fname)
<1>1. idle /\ Store!Ready /\ busySlots = {}
  BY IdleSeen DEF ChangePermissions, Ready
<1>2. /\ found.code \in {0, 1}
      /\ found.code = 1 => /\ found.slot \in usedSlots /\ inodeOf(found.slot).fileName = fname
      /\ found.code = 0 => ~Store!isFile(fname)
  <2> HIDE DEF fname
  <2> QED
    BY NameSought DEF Store!isFile
<1>3. openUnder(fname) = Store!openUnder(fname)
  BY SeenDescriptors
<1>4. CASE /\ openUnder(fname) # {}
           /\ setReadMode(openFiles[openFD].inodeLinkIndex, mode)
           /\ Return(0)
           /\ UNCHANGED <<mounted, openList>>
  <2>1. /\ currentFD \in Nat /\ openUnder(fname) \in SUBSET (0..currentFD)
        /\ openUnder(fname) \subseteq DOMAIN openFiles
    BY DiskAssumption DEF Inv, TypeOK, OpenListOK, openUnder
  <2>2. openFD \in openUnder(fname)
    BY <1>4, <2>1, MaxOfBoundedNats DEF openFDs_searchByName
  <2>3. openFD \in DOMAIN openFiles /\ openFiles[openFD].fileName = fname
    BY <2>2 DEF openUnder
  <2> HIDE DEF openFD, fname
  <2>4. PICK t \in usedSlots : t = openFiles[openFD].inodeLinkIndex
    BY <1>1, <2>3, OpenFilesLinked DEF idle
  <2>5. inodeOf(t).fileName = fname
    BY <1>1, <2>3, <2>4, OpenFilesLinked DEF idle, inodeOf
  <2>6. Store!isFile(fname) /\ storedFiles' = [storedFiles EXCEPT ![fname].readMode = mode]
    BY <1>1, <1>4, <2>4, <2>5, ReadModeSeen DEF openList
  <2>7. Store!Return(0)
    BY <1>4, Returning
  <2>8. Store!openUnder(fname) # {} /\ UNCHANGED <<mounted, descriptors, currentFD>>
    BY <1>3, <1>4, SameDescriptors DEF openList
  <2> QED
    BY <1>1, <2>6, <2>7, <2>8 DEF Store!ChangePermissions, fname
<1>5. CASE /\ openUnder(fname) = {} /\ found.code = 1
           /\ setReadMode(found.slot, mode)
           /\ currentFD' = currentFD + 1
           /\ Return(0)
           /\ UNCHANGED <<mounted, openFiles>>
  <2>1. PICK t \in usedSlots : t = found.slot
    BY <1>2, <1>5
  <2> HIDE DEF fname
  <2>2. Store!isFile(fname) /\ storedFiles' = [storedFiles EXCEPT ![fname].readMode = mode]
    BY <1>1, <1>2, <1>5, <2>1, ReadModeSeen
  <2>3. Store!Return(0)
    BY <1>5, Returning
  <2>4. Store!openUnder(fname) = {} /\ UNCHANGED <<mounted, descriptors>>
    BY <1>3, <1>5, SameDescriptors
  <2> HIDE DEF found
  <2> QED
    BY <1>1, <1>5, <2>2, <2>3, <2>4 DEF Store!ChangePermissions, fname
<1>6. CASE openUnder(fname) = {} /\ found.code = 0 /\ Fail(ENOENT)
  <2>1. Store!Answer(ENOENT)
    BY <1>1, <1>6, Answering DEF Fail
  <2> QED
    BY <1>1, <1>2, <1>6, <2>1, SameNotions DEF Store!ChangePermissions
<1> QED
  <2>1. ~(found.code < 0)
    BY <1>2
  <2> HIDE DEF found, openFD
  <2> QED
    BY <1>4, <1>5, <1>6, <2>1 DEF ChangePermissions, found, openFD

-----------------------------------------------------------------------------
(* tfs_readByte and tfs_writeByte                                          *)

IsWalk(start, k, f) ==
  f = [n \in 0..k |->
         IF n = 0 THEN start
         ELSE IF safeReadBlock(f[n - 1], {FILE_EXTENT_ID}) = 0 THEN disk[f[n - 1]].nextBlock
         ELSE -1]

\* extentAt walks as the one function that follows the links of extents does.
LEMMA WalkIs ==
  ASSUME NEW start, NEW k \in Nat, NEW f, IsWalk(start, k, f)
  PROVE  extentAt(start, k) = f[k]
<1> DEFINE c == CHOOSE g : IsWalk(start, k, g)
<1>1. IsWalk(start, k, c)
  BY Zenon
<1>2. extentAt(start, k) = c[k]
  BY DEF extentAt, IsWalk
<1> HIDE DEF c
<1> DEFINE after(b) == IF safeReadBlock(b, {FILE_EXTENT_ID}) = 0 THEN disk[b].nextBlock ELSE -1
<1>3. \A n \in 0..k : /\ c[n] = IF n = 0 THEN start ELSE after(c[n - 1])
                      /\ f[n] = IF n = 0 THEN start ELSE after(f[n - 1])
  BY <1>1 DEF IsWalk
<1> HIDE DEF after
<1>4. \A n \in 0..k : c[n] = f[n]
  <2> DEFINE bad == {n \in 0..k : c[n] # f[n]}
  <2> SUFFICES ASSUME bad # {} PROVE FALSE
    OBVIOUS
  <2>1. bad \in SUBSET Nat
    OBVIOUS
  <2>2. PICK m \in bad : \A y \in bad : m <= y
    BY <2>1, MinOfNats
  <2>3. m \in 0..k /\ c[m] # f[m] /\ m # 0
    BY <1>3, <2>2
  <2>4. m - 1 \in 0..k /\ ~(m <= m - 1)
    BY <2>3
  <2>5. c[m - 1] = f[m - 1]
    BY <2>2, <2>4
  <2> QED
    BY <1>3, <2>3, <2>5
<1> QED
  BY <1>2, <1>4

\* The k-th extent is the block of place k + 1, and there is none behind the last.
LEMMA ExtentAt ==
  ASSUME Inv, CarefulInv({}, TRUE), NEW own \in [Blocks -> Slots], NEW pos \in [Blocks -> Nat],
         IsLayout(disk, inodeIndices, own, pos, {}, 0), NEW t \in usedSlots,
         NEW k \in 0..extents(disk, inodeIndices, t)
  PROVE  LET b == extentAt(inodeOf(t).nextBlock, k)
         IN IF k = extents(disk, inodeIndices, t)
            THEN b = noBlockLink
            ELSE /\ b \in placed(disk, {}) /\ own[b] = t /\ pos[b] = k + 1
                 /\ b \in Blocks /\ disk[b].blockID = FILE_EXTENT_ID
<1> DEFINE K == extents(disk, inodeIndices, t)
           link == chainOn(disk, inodeIndices[t])
           w == [n \in 0..k |-> link[n + 1]]
           start == inodeOf(t).nextBlock
<1>1. /\ disk \in [Blocks -> Block] /\ inodeIndices \in [Slots -> BlockLink]
      /\ t \in Slots /\ inodeIndices[t] # noBlockLink
  BY Types, SlotsLinked
<1>2. \A b \in placed(disk, {}) : b # 0 /\ b \in Blocks
  BY DiskAssumption DEF placed, Blocks
<1>3. /\ K < NumBlocks
      /\ \A n \in 0..NumBlocks : IF n <= K
                                 THEN link[n] \in placed(disk, {}) /\ own[link[n]] = t /\ pos[link[n]] = n
                                 ELSE link[n] = noBlockLink
  BY <1>1, <1>2, ChainOfFile
<1>4. K \in Nat
  BY <1>1, ExtentsNat
<1> HIDE DEF K, link
<1>5. k \in Nat /\ k <= K
  BY <1>4 DEF K
<1>6. ASSUME NEW n \in Nat, n <= K
      PROVE  disk[link[n]].nextBlock = link[n + 1]
  <2>1. n \in 0..NumBlocks /\ n + 1 \in 0..NumBlocks
    BY <1>3, <1>4, <1>6, DiskAssumption
  <2>2. link[n] \in placed(disk, {}) \ {0} /\ own[link[n]] = t /\ pos[link[n]] = n
    BY <1>2, <1>3, <1>6, <2>1
  <2>3. CASE n = K
    <3>1. ~(n + 1 <= K)
      BY <1>4, <2>3
    <3>2. disk[link[n]].nextBlock = noBlockLink
      BY <2>2, <2>3 DEF IsLayout, Linked, K
    <3> QED
      BY <1>3, <2>1, <3>1, <3>2
  <2>4. CASE n # K
    <3>1. n + 1 <= K
      BY <1>4, <1>6, <2>4
    <3>2. LET next == disk[link[n]].nextBlock
          IN next \in placed(disk, {}) /\ own[next] = t /\ pos[next] = n + 1
      BY <2>2, <2>4 DEF IsLayout, Linked, K
    <3>3. link[n + 1] \in placed(disk, {}) /\ own[link[n + 1]] = t /\ pos[link[n + 1]] = n + 1
      BY <1>3, <2>1, <3>1
    <3> QED
      BY <3>2, <3>3 DEF IsLayout, Apart
  <2> QED
    BY <2>3, <2>4
<1>7. ASSUME NEW n \in Nat, n <= K, n # 0
      PROVE  disk[link[n]].blockID = FILE_EXTENT_ID /\ safeReadBlock(link[n], {FILE_EXTENT_ID}) = 0
  <2>1. n \in 0..NumBlocks
    BY <1>3, <1>4, <1>7, DiskAssumption
  <2>2. link[n] \in placed(disk, {}) /\ pos[link[n]] = n
    BY <1>3, <1>7, <2>1
  <2>3. link[n] \in Blocks /\ disk[link[n]].blockID # FREE_ID /\ disk[link[n]].blockID # INODE_ID
    BY <1>7, <2>2 DEF IsLayout, Placed, placed
  <2> QED
    BY <1>1, <2>3, BlockFields DEF safeReadBlock
<1>8. link[1] = start
  <2>1. link[0] \in placed(disk, {}) /\ own[link[0]] = t /\ pos[link[0]] = 0
    BY <1>3, <1>4, DiskAssumption
  <2>2. link[0] = inodeIndices[t]
    BY <1>1, <2>1, InodesPlaced DEF IsLayout, Apart
  <2>3. disk[link[0]].nextBlock = link[0 + 1]
    BY <1>4, <1>6
  <2> QED
    BY <2>2, <2>3 DEF inodeOf
<1>9. IsWalk(start, k, w)
  <2> SUFFICES ASSUME NEW n \in 0..k
               PROVE  w[n] = IF n = 0 THEN start
                             ELSE IF safeReadBlock(w[n - 1], {FILE_EXTENT_ID}) = 0
                                  THEN disk[w[n - 1]].nextBlock ELSE -1
    BY DEF IsWalk
  <2> HIDE DEF start
  <2>1. CASE n = 0
    BY <1>5, <1>8, <2>1
  <2>2. CASE n # 0
    <3>1. n - 1 \in 0..k /\ n \in Nat /\ n <= K /\ (n - 1) + 1 = n
      BY <1>4, <1>5, <2>2
    <3>2. w[n - 1] = link[n] /\ w[n] = link[n + 1]
      BY <3>1
    <3> QED
      BY <1>6, <1>7, <2>2, <3>1, <3>2
  <2> QED
    BY <2>1, <2>2
<1>10. extentAt(start, k) = link[k + 1]
  <2> HIDE DEF start
  <2>1. extentAt(start, k) = w[k]
    <3> HIDE DEF w
    <3> QED
      BY <1>5, <1>9, WalkIs
  <2> QED
    BY <1>5, <2>1
<1>11. k + 1 \in 0..NumBlocks
  BY <1>3, <1>4, <1>5, DiskAssumption
<1>12. CASE k = K
  <2>1. ~(k + 1 <= K)
    BY <1>4, <1>12
  <2> QED
    BY <1>3, <1>10, <1>11, <1>12, <2>1 DEF K
<1>13. CASE k # K
  <2>1. k + 1 <= K /\ k + 1 \in Nat /\ k + 1 # 0
    BY <1>4, <1>5, <1>13
  <2>2. /\ link[k + 1] \in placed(disk, {}) /\ own[link[k + 1]] = t /\ pos[link[k + 1]] = k + 1
        /\ disk[link[k + 1]].blockID = FILE_EXTENT_ID
    BY <1>3, <1>7, <1>11, <2>1
  <2> QED
    BY <1>2, <1>10, <1>13, <2>2 DEF K
<1> QED
  BY <1>12, <1>13

\* Where the byte at the position of an open file is, and what it costs.
LEMMA PositionLocated ==
  ASSUME Habits = {}, Inv, CarefulInv({}, TRUE), idle, NEW own \in [Blocks -> Slots], NEW pos \in [Blocks -> Nat],
         IsLayout(disk, inodeIndices, own, pos, {}, 0), NEW fd, isOpen(fd)
  PROVE  LET file == openFiles[fd]
             b == extentAt(file.nextBlockIndex, file.location \div DataPerBlock)
         IN /\ locateByte(file) = Store!atPosition(fd)
            /\ locateByte(file) = 0 =>
                 /\ Holds(disk, own, pos, {}, file.inodeLinkIndex, file.location + 1, b)
                 /\ b \in Blocks /\ disk[b].blockID = FILE_EXTENT_ID
<1> DEFINE file == openFiles[fd]
           slot == file.inodeLinkIndex
           loc == file.location
           size == file.fileSize
           k == loc \div DataPerBlock
           b == extentAt(file.nextBlockIndex, k)
           K == extents(disk, inodeIndices, slot)
<1>1. /\ slot \in Slots /\ slot \in usedSlots
      /\ descriptors[fd].location = loc /\ Len(Store!fileOf(fd).bytes) = size
      /\ size \in Nat /\ loc \in Nat /\ inodeOf(slot).fileSize = size
  BY OpenFileSeen
<1>2. inodeOf(slot).nextBlock = file.nextBlockIndex
  BY OpenFilesLinked DEF idle, isOpen, inodeOf
<1>3. /\ k \in Nat
      /\ \A n \in Nat : loc < n => k < blocksFor(n)
      /\ IF loc % DataPerBlock = 0 THEN k = blocksFor(loc) ELSE k < blocksFor(loc)
  BY <1>1, ByteBlock
<1>4. K = blocksFor(size) /\ K \in Nat
  BY <1>1, BlocksFor DEF extents, inodeOf
<1>5. Store!atPosition(fd) = IF loc > size THEN ERANGE
                             ELSE IF loc = size /\ size % DataPerBlock = 0 THEN EIO ELSE 0
  BY <1>1, SameNotions DEF Store!atPosition
<1>6. locateByte(file) = IF loc > size THEN ERANGE
                         ELSE IF b = -1 THEN ECORRUPT ELSE safeReadBlock(b, {FILE_EXTENT_ID})
  BY DEF locateByte
<1>7. ASSUME k \in 0..K
      PROVE  IF k = K THEN b = noBlockLink
             ELSE /\ b \in placed(disk, {}) /\ own[b] = slot /\ pos[b] = k + 1
                  /\ b \in Blocks /\ disk[b].blockID = FILE_EXTENT_ID
  <2> HIDE DEF k, slot
  <2> QED
    BY <1>1, <1>2, <1>7, ExtentAt
<1>8. CASE loc > size
  BY <1>5, <1>6, <1>8 DEF ERANGE
<1>9. CASE loc = size /\ size % DataPerBlock = 0
  <2>1. k = K
    BY <1>3, <1>4, <1>9
  <2>2. k \in 0..K
    <3> HIDE DEF k, K
    <3> QED
      BY <1>4, <2>1
  <2>3. b = noBlockLink
    BY <1>7, <2>1, <2>2
  <2> HIDE DEF b
  <2>4. locateByte(file) = EIO
    BY <1>1, <1>6, <1>9, <2>3, DiskAssumption DEF safeReadBlock, noBlockLink, Blocks
  <2> QED
    BY <1>1, <1>5, <1>9, <2>4 DEF EIO
<1>10. CASE loc <= size /\ ~(loc = size /\ size % DataPerBlock = 0)
  <2>1. k < K
    <3> HIDE DEF k
    <3>1. CASE loc < size
      BY <1>1, <1>3, <1>4, <3>1
    <3>2. CASE loc = size
      BY <1>3, <1>4, <1>10, <3>2
    <3> QED
      BY <1>1, <1>10, <3>1, <3>2
  <2>2. k \in 0..K /\ k # K
    <3> HIDE DEF k, K
    <3> QED
      BY <1>3, <1>4, <2>1
  <2>3. /\ b \in placed(disk, {}) /\ own[b] = slot /\ pos[b] = k + 1
        /\ b \in Blocks /\ disk[b].blockID = FILE_EXTENT_ID
    BY <1>7, <2>2
  <2> HIDE DEF b
  <2>4. safeReadBlock(b, {FILE_EXTENT_ID}) = 0 /\ b # -1
    BY <2>3, DiskAssumption DEF safeReadBlock, Blocks
  <2>5. locateByte(file) = 0
    <3>1. ~(loc > size)
      BY <1>1, <1>10
    <3> QED
      BY <1>6, <2>4, <3>1
  <2>6. Store!atPosition(fd) = 0
    BY <1>1, <1>5, <1>10
  <2>7. Holds(disk, own, pos, {}, slot, loc + 1, b)
    <3>1. (loc + 1) - 1 = loc
      BY <1>1
    <3> HIDE DEF slot, loc
    <3> QED
      BY <2>3, <3>1 DEF Holds
  <2> QED
    BY <2>3, <2>5, <2>6, <2>7 DEF b
<1> QED
  BY <1>1, <1>8, <1>9, <1>10

\* The byte at the position of an open file.
LEMMA ByteAtPosition ==
  ASSUME Habits = {}, Inv, CarefulInv({}, TRUE), idle,
         NEW CONSTANT own \in [Blocks -> Slots], NEW CONSTANT pos \in [Blocks -> Nat],
         IsLayout(disk, inodeIndices, own, pos, {}, 0), NEW fd, isOpen(fd),
         NEW CONSTANT t \in Slots, t = openFiles[fd].inodeLinkIndex,
         NEW CONSTANT loc, loc = openFiles[fd].location,
         NEW CONSTANT size, size = openFiles[fd].fileSize, loc < size,
         NEW b \in Blocks, Holds(disk, own, pos, {}, t, loc + 1, b)
  PROVE  Store!fileOf(fd).bytes[loc + 1] = disk[b].data[loc % DataPerBlock]
<1>1. /\ t \in usedSlots /\ loc \in Nat /\ size \in Nat /\ inodeOf(t).fileSize = size
      /\ Store!fileOf(fd).bytes = bytesIn(t, size)
  <2>1. /\ t \in usedSlots /\ loc \in Nat /\ size \in Nat /\ inodeOf(t).fileSize = size
        /\ Store!fileOf(fd) = stored(t)
        /\ stored(t) = [readMode |-> inodeOf(t).readMode, bytes |-> bytesIn(t, size)]
    BY OpenFileSeen
  <2> QED
    BY <2>1
<1>2. /\ disk \in [Blocks -> Block] /\ inodeIndices \in [Slots -> BlockLink]
      /\ inodeIndices[t] # noBlockLink /\ disk[inodeIndices[t]].fileSize = size
  BY <1>1, Types, SlotsLinked DEF inodeOf
<1>3. Complete(disk, own, {}, 0, t)
  BY DiskAssumption DEF Complete, placed, Blocks
<1>4. PICK j \in 1..size : j = loc + 1
  BY <1>1
<1>5. PICK c \in Blocks : /\ Holds(disk, own, pos, {}, t, j, c)
                          /\ bytesIn(t, size)[j] = disk[c].data[(j - 1) % DataPerBlock]
  <2>1. /\ disk \in [Blocks -> Block] /\ inodeIndices \in [Slots -> BlockLink]
        /\ IsLayout(disk, inodeIndices, own, pos, {}, 0) /\ Complete(disk, own, {}, 0, t)
        /\ inodeIndices[t] # noBlockLink /\ disk[inodeIndices[t]].fileSize = size
    BY <1>2, <1>3
  <2>2. size \in Nat
    BY <1>1
  <2>3. \E c \in Blocks :
          /\ Holds(disk, own, pos, {}, t, j, c) /\ disk[c].blockID = FILE_EXTENT_ID
          /\ bytesIn(t, size)[j] = disk[c].data[(j - 1) % DataPerBlock]
    BY ONLY <2>1, <2>2, ByteStored, t \in Slots, j \in 1..size,
       own \in [Blocks -> Slots], pos \in [Blocks -> Nat], SMTT(60)
  <2> QED
    BY ONLY <2>3
<1>6. c = b
  BY <1>4, <1>5 DEF Holds, IsLayout, Apart
<1>7. j - 1 = loc
  BY <1>1, <1>4
<1> QED
  BY <1>1, <1>4, <1>5, <1>6, <1>7

LEMMA RReadByte ==
  ASSUME Habits = {}, Inv, Inv', CarefulInv({}, TRUE), CarefulInv({}, TRUE)', NEW CONSTANT fd \in FDs, ReadByte(fd)
  PROVE  Store!ReadByte(fd)
<1> DEFINE file == openFiles[fd]
           block == extentAt(file.nextBlockIndex, file.location \div DataPerBlock)
           err == locateByte(file)
<1>1. idle /\ Store!Ready /\ busySlots = {}
  BY IdleSeen DEF ReadByte, Ready
<1>2. PICK own \in [Blocks -> Slots], pos \in [Blocks -> Nat] :
        IsLayout(disk, inodeIndices, own, pos, {}, 0)
  BY <1>1, Settled DEF idle
<1>3. isOpen(fd) =>
        /\ safeReadBlock(inodeLink(file), {INODE_ID}) = 0
        /\ err = Store!atPosition(fd) /\ Store!atPosition(fd) \in {0, ERANGE, EIO}
  BY <1>1, <1>2, OpenFilesLinked, PositionLocated, SameNotions
     DEF idle, isOpen, inodeLink, safeReadBlock, Store!atPosition
<1> HIDE DEF err, block
<1>4. CASE ~isOpen(fd) /\ Fail(ENOENT)
  BY <1>1, <1>4, Answering, SeenDescriptors, SameNotions DEF Fail, Store!ReadByte
<1>5. CASE isOpen(fd) /\ err # 0 /\ Fail(err)
  <2>1. Store!Answer(err) /\ err \in {ERANGE, EIO}
    BY <1>1, <1>3, <1>5, Answering DEF Fail
  <2> QED
    BY <1>1, <1>3, <1>5, <2>1, SeenDescriptors, SameNotions DEF Store!ReadByte
<1>6. CASE /\ isOpen(fd) /\ err = 0
           /\ openFiles' = [openFiles EXCEPT ![fd].location = @ + 1]
           /\ ret' = [code |-> 0, byte |-> disk[block].data[file.location % DataPerBlock]]
           /\ UNCHANGED <<diskVars, mounted, currentFD, call>>
  <2>1. PICK t \in Slots : t = file.inodeLinkIndex
    BY <1>1, <1>6, OpenFileSeen
  <2>2. PICK loc \in Nat : loc = file.location
    BY <1>1, <1>6, OpenFileSeen
  <2>3. PICK size \in Nat : size = file.fileSize
    BY <1>1, <1>6, OpenFileSeen
  <2>4. Holds(disk, own, pos, {}, t, loc + 1, block) /\ block \in Blocks /\ disk[block].blockID = FILE_EXTENT_ID
    BY <1>1, <1>2, <1>6, <2>1, <2>2, PositionLocated DEF err, block
  <2>5. descriptors[fd].location = loc /\ Len(Store!fileOf(fd).bytes) = size
    BY <1>1, <1>6, <2>2, <2>3, OpenFileSeen
  <2>6. loc < size => Store!fileOf(fd).bytes[loc + 1] = disk[block].data[loc % DataPerBlock]
    BY <1>1, <1>2, <1>6, <2>1, <2>2, <2>3, <2>4, ByteAtPosition
  <2>7. disk[block].data[loc % DataPerBlock] \in Byte
    <3>1. disk[block].data \in BlockData
      BY <2>4, Types, BlockFields
    <3>2. loc % DataPerBlock \in 0..(DataPerBlock - 1)
      BY Modulo
    <3> QED
      BY <3>1, <3>2 DEF BlockData
  <2>8. ret' = [code |-> 0, byte |-> disk[block].data[loc % DataPerBlock]]
    BY <1>6, <2>2
  <2>9. storedFiles' = storedFiles
    <3>1. busySlots' = {}
      BY <1>1, <1>6, IdleAfter DEF CarefulInv, PhaseOK
    <3> QED
      BY <1>1, <1>6, <3>1, NoFileChanged, FilesSame
  <2>10. descriptors' = [descriptors EXCEPT ![fd].location = loc + 1]
    <3>1. openFiles' = [openFiles EXCEPT ![fd].location = loc + 1]
      BY <1>6, <2>2 DEF isOpen
    <3> QED
      BY <1>6, <3>1, Types, PositionSeen
  <2>11. descriptors' = [descriptors EXCEPT ![fd].location = @ + 1]
    BY <2>5, <2>10
  <2>12. callInProgress' = callInProgress
    <3>1. call = NoCall /\ call' = NoCall
      BY <1>1, <1>6 DEF CarefulInv, PhaseOK
    <3> QED
      BY <3>1, NoCallSeen
  <2>13. Store!atPosition(fd) = 0
    BY <1>3, <1>6
  <2>14. /\ ret' \in [code : {0}, byte : Store!Byte]
         /\ loc < size => ret'.byte = Store!fileOf(fd).bytes[loc + 1]
    BY <2>6, <2>7, <2>8, SameNotions
  <2> QED
    BY <1>1, <1>6, <2>5, <2>9, <2>11, <2>12, <2>13, <2>14, SeenDescriptors DEF Store!ReadByte
<1> QED
  BY <1>3, <1>4, <1>5, <1>6 DEF ReadByte, err, block

withByte(file, at, byte) == [file EXCEPT !.bytes[at + 1] = byte]

\* A byte written into an extent is a byte of the file, if it is not behind the end.
LEMMA ByteSeen ==
  ASSUME Inv, Inv', CarefulInv({}, TRUE), CarefulInv({}, TRUE)', idle,
         NEW CONSTANT own \in [Blocks -> Slots], NEW CONSTANT pos \in [Blocks -> Nat],
         IsLayout(disk, inodeIndices, own, pos, {}, 0),
         NEW CONSTANT t \in Slots, t \in usedSlots,
         NEW CONSTANT loc \in Nat, NEW CONSTANT size, size = inodeOf(t).fileSize,
         NEW CONSTANT b \in Blocks, Holds(disk, own, pos, {}, t, loc + 1, b),
         disk[b].blockID = FILE_EXTENT_ID, NEW byte \in Byte,
         NEW i \in 0..(DataPerBlock - 1), i = loc % DataPerBlock,
         disk' = [disk EXCEPT ![b].data[i] = byte],
         call' = NoCall, UNCHANGED <<inodeIndices, openFiles>>
  PROVE  stored(t)' = IF loc < size THEN withByte(stored(t), loc, byte) ELSE stored(t)
<1> DEFINE old == bytesIn(t, size)
           new == [disk[b] EXCEPT !.data[i] = byte]
<1>1. disk \in [Blocks -> Block] /\ disk[b] \in Block
  BY Types
<1>2. new.blockID = FILE_EXTENT_ID /\ new.nextBlock = disk[b].nextBlock
  BY <1>1, ChangedBlocks
<1>3. new.data = [disk[b].data EXCEPT ![i] = byte]
  BY <1>1 DEF Block, INODE_ID, FREE_ID, FILE_EXTENT_ID
<1>4. disk' = [disk EXCEPT ![b] = new]
  OBVIOUS
<1> HIDE DEF new
<1>5. disk'[b] = new /\ \A c \in Blocks : c # b => disk'[c] = disk[c]
  BY <1>1, <1>4
<1>6. /\ inodeOf(t)'.fileSize = size /\ size \in Nat
      /\ \A j \in 1..size : \E c \in Blocks :
           /\ Holds(disk, own, pos, {}, t, j, c) /\ disk[c].blockID = FILE_EXTENT_ID
           /\ old[j] = disk[c].data[(j - 1) % DataPerBlock]
           /\ bytesIn(t, size)'[j] = disk'[c].data[(j - 1) % DataPerBlock]
  BY <1>2, <1>5, BlockTouched DEF FILE_EXTENT_ID, FREE_ID, INODE_ID
<1>7. ASSUME NEW j \in 1..size
      PROVE  bytesIn(t, size)'[j] = IF j = loc + 1 THEN byte ELSE old[j]
  <2>1. PICK c \in Blocks :
          /\ Holds(disk, own, pos, {}, t, j, c) /\ disk[c].blockID = FILE_EXTENT_ID
          /\ old[j] = disk[c].data[(j - 1) % DataPerBlock]
          /\ bytesIn(t, size)'[j] = disk'[c].data[(j - 1) % DataPerBlock]
    BY <1>6
  <2> HIDE DEF old
  <2>2. j - 1 \in Nat /\ (j = loc + 1 <=> j - 1 = loc)
    BY <1>6
  <2>3. (j - 1) % DataPerBlock \in 0..(DataPerBlock - 1)
    BY <2>2, Modulo
  <2>7. PICK m \in 0..(DataPerBlock - 1) : m = (j - 1) % DataPerBlock
    BY <2>3
  <2>8. old[j] = disk[c].data[m] /\ bytesIn(t, size)'[j] = disk'[c].data[m]
    BY <2>1, <2>7
  <2>4. CASE j = loc + 1
    <3>1. c = b
      BY <2>1, <2>4 DEF Holds, IsLayout, Apart
    <3>2. disk[b].data \in [0..(DataPerBlock - 1) -> Byte]
      BY <1>1, BlockFields DEF BlockData
    <3>3. m = i
      BY <2>2, <2>4, <2>7
    <3>4. new.data[i] = byte
      BY <1>1, <1>3, <3>2
    <3> QED
      BY <1>5, <2>4, <2>8, <3>1, <3>3, <3>4
  <2>5. CASE j # loc + 1 /\ c = b
    <3>1. (j - 1) \div DataPerBlock + 1 = (loc + 1 - 1) \div DataPerBlock + 1 /\ loc + 1 - 1 = loc
      BY <2>1, <2>5 DEF Holds
    <3>2. (j - 1) \div DataPerBlock \in Nat /\ loc \div DataPerBlock \in Nat
      BY <2>2, ByteBlock
    <3>3. (j - 1) \div DataPerBlock = loc \div DataPerBlock
      <4> DEFINE p == (j - 1) \div DataPerBlock
                 q == loc \div DataPerBlock
      <4>1. p + 1 = q + 1 /\ p \in Nat /\ q \in Nat
        BY <3>1, <3>2
      <4> HIDE DEF p, q
      <4>2. p = q
        BY <4>1
      <4> QED
        BY <4>2 DEF p, q
    <3>4. m # i
      <4>1. /\ j - 1 = DataPerBlock * ((j - 1) \div DataPerBlock) + ((j - 1) % DataPerBlock)
            /\ loc = DataPerBlock * (loc \div DataPerBlock) + (loc % DataPerBlock)
        BY <2>2, ByteBlock
      <4> QED
        BY <2>2, <2>5, <2>7, <3>3, <4>1
    <3>5. disk[b].data \in [0..(DataPerBlock - 1) -> Byte]
      BY <1>1, BlockFields DEF BlockData
    <3>6. new.data[m] = disk[b].data[m]
      BY <1>3, <3>4, <3>5
    <3> QED
      BY <1>5, <2>5, <2>8, <3>6
  <2>6. CASE j # loc + 1 /\ c # b
    BY <1>5, <2>1, <2>6
  <2> QED
    BY <2>4, <2>5, <2>6
<1>8. /\ old = [j \in 1..size |-> old[j]]
      /\ bytesIn(t, size)' = [j \in 1..size |-> bytesIn(t, size)'[j]]
  BY DEF bytesIn
<1>9. bytesIn(t, size)' = IF loc < size THEN [old EXCEPT ![loc + 1] = byte] ELSE old
  <2> HIDE DEF old
  <2>1. CASE loc < size
    <3>1. loc + 1 \in 1..size
      BY <1>6, <2>1
    <3>2. [old EXCEPT ![loc + 1] = byte] = [j \in 1..size |-> IF j = loc + 1 THEN byte ELSE old[j]]
      BY <1>8, <3>1
    <3> QED
      BY <1>7, <1>8, <2>1, <3>2
  <2>2. CASE ~(loc < size)
    <3>1. \A j \in 1..size : j # loc + 1
      BY <1>6, <2>2
    <3> QED
      BY <1>7, <1>8, <2>2, <3>1
  <2> QED
    BY <2>1, <2>2
<1>10. busySlots = {} /\ busySlots' = {}
  BY IdleSeen, IdleAfter
<1>11. stored(t) = [readMode |-> inodeOf(t).readMode, bytes |-> old]
  BY <1>10 DEF stored
<1>12. stored(t)' = [readMode |-> inodeOf(t).readMode, bytes |-> bytesIn(t, size)']
  <2>1. inodeOf(t)' = inodeOf(t)
    <3>1. inodeIndices[t] \in Blocks /\ disk[inodeIndices[t]].blockID = INODE_ID
      BY SlotsLinked
    <3>2. inodeIndices[t] # b
      BY <3>1 DEF INODE_ID, FILE_EXTENT_ID
    <3> QED
      BY <1>5, <3>1, <3>2 DEF inodeOf
  <2> QED
    BY <1>6, <1>10, <2>1 DEF stored
<1> HIDE DEF old
<1> QED
  BY <1>9, <1>11, <1>12 DEF withByte

LEMMA RWriteByte ==
  ASSUME Habits = {}, Inv, Inv', CarefulInv({}, TRUE), CarefulInv({}, TRUE)', NEW CONSTANT fd \in FDs, NEW CONSTANT byte \in WriteBytes,
         WriteByte(fd, byte)
  PROVE  Store!WriteByte(fd, byte)
<1> DEFINE file == openFiles[fd]
           block == extentAt(file.nextBlockIndex, file.location \div DataPerBlock)
           err == locateByte(file)
<1>1. idle /\ Store!Ready /\ busySlots = {}
  BY IdleSeen DEF WriteByte, Ready
<1>2. PICK own \in [Blocks -> Slots], pos \in [Blocks -> Nat] :
        IsLayout(disk, inodeIndices, own, pos, {}, 0)
  BY <1>1, Settled DEF idle
<1>3. isOpen(fd) =>
        /\ err = Store!atPosition(fd) /\ Store!atPosition(fd) \in {0, ERANGE, EIO}
        /\ (checkPermission(file) # 0) <=> (Store!fileOf(fd).readMode = readOnly)
  <2>1. isOpen(fd) => /\ err = Store!atPosition(fd) /\ Store!atPosition(fd) \in {0, ERANGE, EIO}
    BY <1>1, <1>2, PositionLocated, SameNotions DEF Store!atPosition
  <2>2. ASSUME isOpen(fd)
        PROVE  (checkPermission(file) # 0) <=> (Store!fileOf(fd).readMode = readOnly)
    <3> DEFINE slot == file.inodeLinkIndex
    <3>1. /\ Store!fileOf(fd) = stored(slot)
          /\ stored(slot) = [readMode |-> inodeOf(slot).readMode, bytes |-> bytesIn(slot, file.fileSize)]
          /\ (checkPermission(file) # 0) <=> (inodeOf(slot).readMode = readOnly)
      BY <1>1, <2>2, OpenFileSeen
    <3> HIDE DEF slot, file
    <3>2. Store!fileOf(fd).readMode = inodeOf(slot).readMode
      BY <3>1
    <3> QED
      BY <3>1, <3>2
  <2> QED
    BY <2>1, <2>2
<1> HIDE DEF err, block
<1>4. CASE ~isOpen(fd) /\ Fail(ENOENT)
  BY <1>1, <1>4, Answering, SeenDescriptors, SameNotions DEF Fail, Store!WriteByte
<1>5. CASE isOpen(fd) /\ checkPermission(file) # 0 /\ Fail(EPERM)
  BY <1>1, <1>3, <1>5, Answering, SeenDescriptors, SameNotions DEF Fail, Store!WriteByte
<1>6. CASE isOpen(fd) /\ checkPermission(file) = 0 /\ err # 0 /\ Fail(err)
  <2>1. Store!Answer(err) /\ err \in {ERANGE, EIO}
    BY <1>1, <1>3, <1>6, Answering DEF Fail
  <2> QED
    BY <1>1, <1>3, <1>6, <2>1, SeenDescriptors, SameNotions DEF Store!WriteByte
<1>7. CASE /\ isOpen(fd) /\ checkPermission(file) = 0 /\ err = 0
           /\ disk' = [disk EXCEPT ![block].data[file.location % DataPerBlock] = byte]
           /\ Return(0)
           /\ UNCHANGED <<inodeIndices, mounted, openList>>
  <2>1. PICK t \in Slots : t = file.inodeLinkIndex
    BY <1>1, <1>7, OpenFileSeen
  <2>2. PICK loc \in Nat : loc = file.location
    BY <1>1, <1>7, OpenFileSeen
  <2>3. PICK size \in Nat : size = file.fileSize
    BY <1>1, <1>7, OpenFileSeen
  <2>4. Holds(disk, own, pos, {}, t, loc + 1, block) /\ block \in Blocks /\ disk[block].blockID = FILE_EXTENT_ID
    BY <1>1, <1>2, <1>7, <2>1, <2>2, PositionLocated DEF err, block
  <2>5. PICK b \in Blocks : b = block
    BY <2>4
  <2>6. /\ descriptors[fd].location = loc /\ Len(Store!fileOf(fd).bytes) = size
        /\ descriptors[fd].name = inodeOf(t).fileName /\ inodeOf(t).fileSize = size
        /\ Store!fileOf(fd) = stored(t) /\ t \in usedSlots
    BY <1>1, <1>7, <2>1, <2>2, <2>3, OpenFileSeen
  <2>7. byte \in Byte /\ call' = NoCall /\ UNCHANGED <<inodeIndices, openFiles>>
    BY <1>7, Inputs DEF Return, openList
  <2>17. PICK i \in 0..(DataPerBlock - 1) : i = loc % DataPerBlock
    BY Modulo
  <2>8. disk' = [disk EXCEPT ![b].data[i] = byte]
    BY <1>7, <2>2, <2>5, <2>17
  <2>9. stored(t)' = IF loc < size THEN withByte(stored(t), loc, byte) ELSE stored(t)
    <3>1. Holds(disk, own, pos, {}, t, loc + 1, b) /\ disk[b].blockID = FILE_EXTENT_ID
          /\ t \in usedSlots /\ size = inodeOf(t).fileSize
      BY <2>4, <2>5, <2>6
    <3> QED
      BY <1>1, <1>2, <2>7, <2>8, <2>17, <3>1, ByteSeen
  <2>10. OnlyChanges({t})
    <3>2. OnlyChanges({own[b]})
      BY <1>1, <1>2, <2>4, <2>5, <2>7, <2>8, ByteWritten
    <3> QED
      BY <2>4, <2>5, <3>2 DEF Holds
  <2>11. t \in usedSlots' /\ inodeOf(t)'.fileName = inodeOf(t).fileName
    <3>1. inodeIndices[t] \in Blocks /\ disk[inodeIndices[t]].blockID = INODE_ID
      BY <2>6, SlotsLinked
    <3>2. inodeIndices[t] # b /\ disk \in [Blocks -> Block]
      BY <2>4, <2>5, <3>1, Types DEF INODE_ID, FILE_EXTENT_ID
    <3>3. disk'[inodeIndices[t]] = disk[inodeIndices[t]]
      BY <2>8, <3>1, <3>2
    <3> QED
      BY <2>6, <2>7, <3>3 DEF inodeOf, usedSlots
  <2>12. Store!Return(0) /\ busySlots' = {}
    BY <1>7, Returning
  <2>13. PICK name : name = inodeOf(t).fileName
    OBVIOUS
  <2>14. /\ name \in DOMAIN storedFiles /\ storedFiles[name] = stored(t)
         /\ storedFiles' = [storedFiles EXCEPT ![name] = stored(t)']
    BY <1>1, <2>6, <2>10, <2>11, <2>12, <2>13, FileChanged
  <2>15. storedFiles' = IF loc < Len(Store!fileOf(fd).bytes)
                        THEN [storedFiles EXCEPT ![descriptors[fd].name].bytes[loc + 1] = byte]
                        ELSE storedFiles
    <3>1. storedFiles = [n \in DOMAIN storedFiles |-> storedFiles[n]]
      BY FilesSeen
    <3> QED
      BY <2>6, <2>9, <2>13, <2>14, <3>1 DEF withByte
  <2>16. Store!atPosition(fd) = 0 /\ Store!fileOf(fd).readMode # readOnly
    BY <1>3, <1>7
  <2> QED
    BY <1>1, <1>7, <2>6, <2>12, <2>15, <2>16, SeenDescriptors, SameDescriptors, SameNotions
       DEF Store!WriteByte, openList
<1> QED
  BY <1>3, <1>4, <1>5, <1>6, <1>7 DEF WriteByte, err, block


-----------------------------------------------------------------------------
(* tfs_writeFile's loop                                                    *)

\* Block c is written behind the tail of the file in slot s.
WrittenBehind(d, e, ix, own, pos, tail, s, c, next, K) ==
  /\ IsLayout(d, ix, own, pos, {}, tail) /\ ix[s] # noBlockLink
  /\ tail \in placed(d, {}) /\ own[tail] = s /\ pos[tail] = K /\ K < extents(d, ix, s)
  /\ \A b \in placed(d, {}) : own[b] = s => pos[b] <= K
  /\ c \in Blocks /\ c \notin placed(d, {}) /\ d[tail].nextBlock = c /\ K < c
  /\ e[c].nextBlock = next /\ \A b \in Blocks : b # c => e[b] = d[b]
  /\ next # noBlockLink => next # c /\ d[next].blockID = FREE_ID

\* Both disks lead from start through K + 1 blocks of a set, and the second on to c.
FollowedTo(d, e, start, all, c, K) ==
  LET before == chainOn(d, start)
      after  == chainOn(e, start)
  IN /\ \A n \in 0..K : before[n] \in all /\ after[n] = before[n]
     /\ after[K + 1] = c

\* The blocks up to the tail are followed in the order of their places, before the
\* block behind the tail is written and afterwards.
LEMMA ChainsToTail ==
  ASSUME NEW d \in [Blocks -> Block], NEW e \in [Blocks -> Block], NEW ix \in [Slots -> BlockLink],
         NEW own \in [Blocks -> Slots], NEW pos \in [Blocks -> Nat], NEW tail, NEW s \in Slots,
         NEW c, NEW next \in BlockLink, NEW K \in Nat,
         WrittenBehind(d, e, ix, own, pos, tail, s, c, next, K)
  PROVE  FollowedTo(d, e, ix[s], placed(d, {}), c, K)
<1> DEFINE at(n) == CHOOSE b \in placed(d, {}) : own[b] = s /\ pos[b] = n
           held(n) == \E b \in placed(d, {}) : own[b] = s /\ pos[b] = n
           f == [n \in 0..NumBlocks |-> IF n <= K THEN at(n) ELSE IF n = K + 1 THEN c ELSE noBlockLink]
           g == [n \in 0..NumBlocks |-> IF n <= K THEN at(n) ELSE IF n = K + 1 THEN c
                                        ELSE IF n = K + 2 THEN next ELSE noBlockLink]
           X == extents(d, ix, s)
<1>0. /\ IsLayout(d, ix, own, pos, {}, tail) /\ ix[s] # noBlockLink
      /\ tail \in placed(d, {}) /\ own[tail] = s /\ pos[tail] = K /\ K < extents(d, ix, s)
      /\ \A b \in placed(d, {}) : own[b] = s => pos[b] <= K
      /\ c \in Blocks /\ c \notin placed(d, {}) /\ d[tail].nextBlock = c /\ K < c
      /\ e[c].nextBlock = next /\ \A b \in Blocks : b # c => e[b] = d[b]
      /\ next # noBlockLink => next # c /\ d[next].blockID = FREE_ID
  BY DEF WrittenBehind
<1>1. /\ tail \in Blocks /\ K \in Nat /\ c # noBlockLink /\ d[c].blockID = FREE_ID
      /\ d[c].nextBlock = noBlockLink /\ X \in Nat /\ K < X
  <2>1. d[c].blockID = FREE_ID /\ d[c] \in Block /\ tail \in Blocks
    BY <1>0 DEF placed
  <2>2. d[c].nextBlock = noBlockLink
    BY <2>1, BlockFields
  <2>3. X \in Nat
    BY <1>0, ExtentsNat
  <2> QED
    BY <1>0, <2>1, <2>2, <2>3, DiskAssumption DEF Blocks, noBlockLink
<1> HIDE DEF X
<1>2. ASSUME NEW b \in placed(d, {}), own[b] = s, b # tail
      PROVE  /\ pos[b] < K /\ d[b].nextBlock \in placed(d, {})
             /\ own[d[b].nextBlock] = s /\ pos[d[b].nextBlock] = pos[b] + 1
  <2>1. b \in Blocks /\ pos[b] \in Nat /\ pos[b] <= K /\ pos[b] # K
    BY <1>0, <1>2 DEF placed, IsLayout, Apart
  <2>2. pos[b] # X /\ pos[b] < K
    BY <1>1, <2>1
  <2> QED
    BY <1>0, <1>2, <2>2 DEF IsLayout, Linked, X
<1>3. \A n \in 0..K : held(n)
  <2> DEFINE bad == {n \in Nat : n <= K /\ ~held(n)}
  <2> SUFFICES ASSUME bad # {} PROVE FALSE
    BY <1>1
  <2>1. PICK m \in bad : \A y \in bad : m <= y
    BY MinOfNats
  <2>2. m \in Nat /\ m <= K /\ ~held(m)
    BY <2>1
  <2>3. m # 0
    BY <1>0, <2>2, InodesPlaced
  <2>4. m - 1 \in Nat /\ m - 1 \notin bad
    BY <2>1, <2>2, <2>3
  <2>5. PICK b \in placed(d, {}) : own[b] = s /\ pos[b] = m - 1
    BY <1>1, <2>2, <2>4
  <2>6. b # tail
    BY <1>0, <1>1, <2>2, <2>5
  <2>7. d[b].nextBlock \in placed(d, {}) /\ own[d[b].nextBlock] = s /\ pos[d[b].nextBlock] = m
    BY <1>2, <2>2, <2>5, <2>6
  <2> QED
    BY <2>2, <2>7
<1>4. \A n \in 0..K : at(n) \in placed(d, {}) /\ own[at(n)] = s /\ pos[at(n)] = n
  BY <1>3
<1> HIDE DEF at
<1>5. \A n \in 0..K : at(n) \in Blocks /\ at(n) # noBlockLink /\ at(n) # c /\ e[at(n)] = d[at(n)]
  <2>1. \A n \in 0..K : at(n) \in Blocks /\ at(n) # c
    BY <1>0, <1>4 DEF placed
  <2> QED
    BY <1>0, <2>1, DiskAssumption DEF Blocks, noBlockLink
<1>6. at(0) = ix[s] /\ at(K) = tail
  <2>1. ix[s] \in placed(d, {}) /\ own[ix[s]] = s /\ pos[ix[s]] = 0
    BY <1>0, InodesPlaced
  <2>2. 0 \in 0..K /\ K \in 0..K
    BY <1>1
  <2> QED
    BY <1>0, <1>4, <2>1, <2>2 DEF IsLayout, Apart
<1>7. ASSUME NEW n \in 0..K
      PROVE  d[at(n)].nextBlock = IF n = K THEN c ELSE at(n + 1)
  <2>1. CASE n = K
    BY <1>0, <1>6, <2>1
  <2>2. CASE n # K
    <3>1. n \in Nat /\ n + 1 \in 0..K
      BY <1>1, <2>2
    <3>2. at(n) # tail
      BY <1>0, <1>4, <2>2
    <3>3. /\ d[at(n)].nextBlock \in placed(d, {}) /\ own[d[at(n)].nextBlock] = s
          /\ pos[d[at(n)].nextBlock] = n + 1
      BY <1>2, <1>4, <3>2
    <3> QED
      BY <1>0, <1>4, <2>2, <3>1, <3>3 DEF IsLayout, Apart
  <2> QED
    BY <2>1, <2>2
<1>8. K < NumBlocks - 1 /\ NumBlocks \in Nat
  BY <1>0, <1>1, DiskAssumption DEF Blocks
<1>9. IsChain(d, ix[s], f)
  <2> SUFFICES ASSUME NEW n \in 0..NumBlocks
               PROVE  f[n] = IF n = 0 THEN ix[s] ELSE follow(d, f[n - 1])
    BY DEF IsChain
  <2>1. CASE n = 0
    BY <1>1, <1>6, <2>1
  <2>2. CASE n # 0 /\ n <= K
    <3>1. n - 1 \in 0..K /\ n - 1 \in 0..NumBlocks /\ n - 1 # K /\ (n - 1) + 1 = n /\ n - 1 <= K
      BY <1>1, <1>8, <2>2
    <3>2. d[at(n - 1)].nextBlock = at(n)
      BY <1>7, <3>1
    <3> QED
      BY <1>5, <2>2, <3>1, <3>2 DEF follow
  <2>3. CASE n = K + 1
    <3>1. n - 1 = K /\ n - 1 \in 0..NumBlocks /\ K \in 0..K /\ n # 0 /\ ~(n <= K)
      BY <1>1, <1>8, <2>3
    <3> QED
      BY <1>5, <1>7, <2>3, <3>1 DEF follow
  <2>4. CASE n > K + 1
    <3>1. n - 1 \in 0..NumBlocks /\ n # 0 /\ ~(n <= K) /\ n # K + 1 /\ ~(n - 1 <= K)
      BY <1>1, <1>8, <2>4
    <3> QED
      BY <1>1, <3>1 DEF follow
  <2> QED
    BY <1>1, <2>1, <2>2, <2>3, <2>4
<1>10. IsChain(e, ix[s], g)
  <2> SUFFICES ASSUME NEW n \in 0..NumBlocks
               PROVE  g[n] = IF n = 0 THEN ix[s] ELSE follow(e, g[n - 1])
    BY DEF IsChain
  <2>1. CASE n = 0
    BY <1>1, <1>6, <2>1
  <2>2. CASE n # 0 /\ n <= K
    <3>1. n - 1 \in 0..K /\ n - 1 \in 0..NumBlocks /\ n - 1 # K /\ (n - 1) + 1 = n /\ n - 1 <= K
      BY <1>1, <1>8, <2>2
    <3>2. e[at(n - 1)].nextBlock = at(n)
      BY <1>5, <1>7, <3>1
    <3> QED
      BY <1>5, <2>2, <3>1, <3>2 DEF follow
  <2>3. CASE n = K + 1
    <3>1. n - 1 = K /\ n - 1 \in 0..NumBlocks /\ K \in 0..K /\ n # 0 /\ ~(n <= K)
      BY <1>1, <1>8, <2>3
    <3> QED
      BY <1>5, <1>7, <2>3, <3>1 DEF follow
  <2>4. CASE n = K + 2
    <3>1. n - 1 = K + 1 /\ n - 1 \in 0..NumBlocks /\ n # 0 /\ ~(n <= K) /\ n # K + 1 /\ ~(K + 1 <= K)
      BY <1>1, <1>8, <2>4
    <3> QED
      BY <1>0, <1>1, <2>4, <3>1 DEF follow
  <2>5. CASE n = K + 3
    <3>1. /\ n - 1 = K + 2 /\ n - 1 \in 0..NumBlocks /\ n # 0 /\ ~(n <= K) /\ n # K + 1 /\ n # K + 2
          /\ ~(K + 2 <= K) /\ K + 2 # K + 1
      BY <1>1, <1>8, <2>5
    <3>2. next # noBlockLink => e[next].nextBlock = noBlockLink
      <4>1. next # noBlockLink => next \in Blocks /\ e[next] = d[next] /\ d[next] \in Block
        BY <1>0, DiskAssumption DEF BlockLink, Blocks, noBlockLink
      <4> QED
        BY <1>0, <4>1, BlockFields
    <3> QED
      BY <3>1, <3>2 DEF follow
  <2>6. CASE n > K + 3
    <3>1. /\ n - 1 \in 0..NumBlocks /\ n # 0 /\ ~(n <= K) /\ n # K + 1 /\ n # K + 2
          /\ ~(n - 1 <= K) /\ n - 1 # K + 1 /\ n - 1 # K + 2
      BY <1>1, <1>8, <2>6
    <3> QED
      BY <1>1, <3>1 DEF follow
  <2> QED
    BY <1>1, <2>1, <2>2, <2>3, <2>4, <2>5, <2>6
<1>11. chainOn(d, ix[s]) = f /\ chainOn(e, ix[s]) = g
  <2> HIDE DEF f, g
  <2> QED
    BY <1>9, <1>10, ChainIs
<1>12. K + 1 \in 0..NumBlocks /\ ~(K + 1 <= K) /\ \A n \in 0..K : n \in 0..NumBlocks /\ n <= K
  BY <1>1, <1>8, DiskAssumption
<1>14. \A n \in 0..K : f[n] = at(n) /\ g[n] = at(n)
  BY <1>12
<1>15. g[K + 1] = c
  BY <1>12
<1> HIDE DEF f, g
<1> QED
  BY <1>4, <1>11, <1>14, <1>15 DEF FollowedTo

\* bytesIn on disk d, from the block of the inode.
byteOn(d, b, i) ==
  IF b # noBlockLink /\ d[b].blockID = FILE_EXTENT_ID THEN d[b].data[i % DataPerBlock] ELSE -1
bytesOn(d, start, n) ==
  [i \in 1..n |-> byteOn(d, chainOn(d, start)[(i - 1) \div DataPerBlock + 1], i - 1)]

LEMMA BytesOn == /\ \A s, n : bytesIn(s, n) = bytesOn(disk, inodeIndices[s], n)
                 /\ \A s, n : bytesIn(s, n)' = bytesOn(disk', inodeIndices'[s], n)
<1>1. \A s, n : bytesIn(s, n) = bytesOn(disk, inodeIndices[s], n)
  BY DEF bytesIn, bytesOn, byteAt, byteOn, chain
<1>2. \A s, n : bytesIn(s, n)' = bytesOn(disk', inodeIndices'[s], n)
  BY DEF bytesIn, bytesOn, byteAt, byteOn, chain
<1> QED
  BY <1>1, <1>2

withPart(bytes, buffer, m) == bytes \o SubSeq(buffer, 1, m)

\* Behind the K extents it had, which hold N bytes, the file at start has
\* block c with the buffer's bytes, and m of them count.
GrownBy(d, e, start, K, c, buffer, m, N) ==
  /\ N = DataPerBlock * K /\ m <= Len(buffer)
  /\ \A n \in 1..K : /\ chainOn(e, start)[n] = chainOn(d, start)[n]
                     /\ e[chainOn(d, start)[n]] = d[chainOn(d, start)[n]]
  /\ chainOn(e, start)[K + 1] = c /\ c # noBlockLink
  /\ e[c].blockID = FILE_EXTENT_ID /\ e[c].data = blockOf(buffer)

\* With a block behind K whole ones a file has the bytes of the buffer in that block
\* behind those it had.
LEMMA BytesGrown ==
  ASSUME NEW d, NEW e, NEW start, NEW K \in Nat, NEW c, NEW buffer \in Seq(Byte),
         NEW m \in 1..DataPerBlock, NEW N \in Nat, GrownBy(d, e, start, K, c, buffer, m, N)
  PROVE  bytesOn(e, start, N + m) = withPart(bytesOn(d, start, N), buffer, m)
<1> DEFINE D == DataPerBlock
           old == bytesOn(d, start, N)
           new == bytesOn(e, start, N + m)
           part == SubSeq(buffer, 1, m)
<1>0. /\ N = DataPerBlock * K /\ m <= Len(buffer)
      /\ \A n \in 1..K : /\ chainOn(e, start)[n] = chainOn(d, start)[n]
                         /\ e[chainOn(d, start)[n]] = d[chainOn(d, start)[n]]
      /\ chainOn(e, start)[K + 1] = c /\ c # noBlockLink
      /\ e[c].blockID = FILE_EXTENT_ID /\ e[c].data = blockOf(buffer)
  BY DEF GrownBy
<1>1. D \in Nat \ {0} /\ N \in Nat /\ N = D * K /\ m \in Nat /\ m <= D /\ m # 0
  BY <1>0, DiskAssumption
<1>2. old = [i \in 1..N |-> old[i]] /\ new = [i \in 1..(N + m) |-> new[i]]
  BY DEF bytesOn
<1>3. part = [i \in 1..m |-> buffer[i]]
  BY <1>1
<1>4. ASSUME NEW i \in 1..N PROVE new[i] = old[i]
  <2>1. PICK q \in Nat : q = (i - 1) \div D
    <3>1. i - 1 \in Nat
      BY <1>1
    <3> QED
      BY <3>1, ByteBlock
  <2>2. q + 1 \in 1..K
    <3>1. i - 1 \in Nat /\ i - 1 < N
      BY <1>1
    <3>2. D * q <= i - 1
      BY <1>1, <2>1, <3>1, Quotient
    <3> HIDE DEF D
    <3>3. D * q < D * K /\ D \in Nat \ {0} /\ q \in Nat /\ K \in Nat
      BY <1>1, <2>1, <3>1, <3>2
    <3>4. q < K
      <4> SUFFICES ASSUME K <= q PROVE FALSE
        BY <3>3
      <4>1. D * K <= D * q
        BY <3>3
      <4>2. D * K \in Nat /\ D * q \in Nat
        BY <3>3
      <4> QED
        BY <3>3, <4>1, <4>2
    <3> QED
      BY <2>1, <3>4
  <2>3. i \in 1..(N + m)
    BY <1>1
  <2>4. /\ old[i] = byteOn(d, chainOn(d, start)[q + 1], i - 1)
        /\ new[i] = byteOn(e, chainOn(e, start)[q + 1], i - 1)
    BY <2>1, <2>3 DEF bytesOn
  <2> HIDE DEF old, new
  <2> QED
    BY <1>0, <2>2, <2>4 DEF byteOn
<1>5. ASSUME NEW r \in 1..m PROVE new[N + r] = buffer[r]
  <2>1. PICK j \in Nat : j = N + r - 1
    BY <1>1
  <2>2. j \div D = K /\ j % D = r - 1
    <3>1. D * K <= j /\ j < D * K + D
      BY <1>1, <2>1
    <3>2. j \div D = K
      BY <1>1, <3>1, Quotient
    <3>3. j = D * (j \div D) + (j % D)
      BY <2>1, ByteBlock
    <3>4. PICK x \in Nat : x = j % D
      BY <2>1, ByteBlock
    <3>5. j = N + x
      BY <1>1, <3>2, <3>3, <3>4
    <3> HIDE DEF D
    <3>6. x = r - 1
      BY <1>1, <2>1, <3>5
    <3> QED
      BY <3>2, <3>4, <3>6
  <2>3. N + r \in 1..(N + m) /\ (N + r) - 1 = j
    BY <1>1, <2>1
  <2>4. new[N + r] = byteOn(e, chainOn(e, start)[j \div D + 1], j)
    BY <2>3 DEF bytesOn
  <2>5. new[N + r] = e[c].data[r - 1]
    <3> HIDE DEF new, D
    <3> QED
      BY <1>0, <2>2, <2>4 DEF byteOn, D
  <2>6. r - 1 \in 0..(D - 1) /\ r - 1 < Len(buffer) /\ (r - 1) + 1 = r
    BY <1>0, <1>1
  <2>7. e[c].data[r - 1] = buffer[r]
    BY <1>0, <2>6 DEF blockOf
  <2> HIDE DEF new
  <2> QED
    BY <2>5, <2>7
<1> HIDE DEF old, new, part, D
<1>6. new = old \o part
  <2>1. old \o part = [i \in 1..(N + m) |-> IF i <= N THEN old[i] ELSE buffer[i - N]]
    <3>1. m \in Nat
      BY <1>1
    <3> QED
      BY ONLY <1>2, <1>3, <3>1, N \in Nat
  <2>2. \A i \in 1..(N + m) : new[i] = IF i <= N THEN old[i] ELSE buffer[i - N]
    <3> TAKE i \in 1..(N + m)
    <3>1. CASE i <= N
      BY <1>1, <1>4, <3>1
    <3>2. CASE ~(i <= N)
      <4>1. i - N \in 1..m /\ N + (i - N) = i
        BY <1>1, <3>2
      <4> QED
        BY <1>5, <3>2, <4>1
    <3> QED
      BY <3>1, <3>2
  <2> QED
    BY <1>2, <2>1, <2>2
<1> QED
  BY <1>6 DEF old, new, part, withPart

\* What a turn of the loop adds to the bytes of the file.
LEMMA BlockSeen ==
  ASSUME Inv, Inv', CarefulInv({}, TRUE), CarefulInv({}, TRUE)', WriteBlock
  PROVE  LET isLast == Len(call.buf) <= DataPerBlock
             m      == IF isLast THEN Len(call.buf) ELSE DataPerBlock
             n      == inodeOf(busySlot).fileSize - Len(call.buf)
         IN /\ n \in Nat /\ m \in 1..DataPerBlock /\ m <= Len(call.buf)
            /\ call.buf \in Seq(Byte)
            /\ bytesOn(disk', inodeIndices[busySlot], n + m)
                 = withPart(bytesIn(busySlot, n), call.buf, m)
            /\ inodeIndices' = inodeIndices /\ inodeIndices[busySlot] \in Blocks
            /\ disk'[inodeIndices[busySlot]] = disk[inodeIndices[busySlot]]
            /\ UNCHANGED <<inodeIndices, mounted, openFiles, currentFD>>
            /\ IF isLast THEN Return(0)
               ELSE \E next : Begin([call EXCEPT !.cur = next, !.buf = restOf(call.buf)])
<1> DEFINE isLast == Len(call.buf) <= DataPerBlock
           next   == IF isLast THEN noBlockLink ELSE findFreeBlock(disk, call.cur)
           m      == IF isLast THEN Len(call.buf) ELSE DataPerBlock
<1>1. call.pc = "writeBlocks"
  BY DEF WriteBlock
<1>2. PICK s \in Slots : s = busySlot
  BY <1>1, BusyFile
<1>3. s \in usedSlots /\ inodeIndices[s] \in Blocks /\ inodeIndices[s] # noBlockLink /\ floating = {}
  BY <1>1, <1>2, BusyFile
<1>4. PICK own \in [Blocks -> Slots], pos \in [Blocks -> Nat], tail \in BlockLink :
        /\ IsLayout(disk, inodeIndices, own, pos, {}, tail)
        /\ Writing({}, own, pos, tail)
  BY <1>3, NothingLost DEF CarefulInv, LayoutOK
<1>5. PICK c : c = call.cur
  OBVIOUS
<1>6. /\ c \in Blocks /\ c # 0 /\ c \notin placed(disk, {}) /\ pos[tail] < c
      /\ isLast => toWrite = 1
      /\ ~isLast => /\ toWrite = blocksFor(Len(restOf(call.buf))) + 1
                    /\ blocksFor(Len(restOf(call.buf))) \in Nat
      /\ ~isLast => next \in Blocks /\ next > c /\ next \in freeBlocks
      /\ IF isLast THEN Return(0) ELSE Begin([call EXCEPT !.cur = next, !.buf = restOf(call.buf)])
      /\ inodeIndices' = inodeIndices /\ openFiles' = openFiles
      /\ mounted' = mounted /\ currentFD' = currentFD
      /\ disk'[c].blockID = FILE_EXTENT_ID /\ disk'[c].nextBlock = next
      /\ disk'[c].data = blockOf(call.buf)
      /\ \A b \in Blocks : b # c => disk'[b] = disk[b]
  BY <1>4, <1>5, BlockToWrite
<1>7. /\ disk \in [Blocks -> Block] /\ inodeIndices \in [Slots -> BlockLink] /\ call \in Locals
      /\ disk' \in [Blocks -> Block]
  BY Types, TypesAfter
<1>8. /\ call.buf \in Seq(Byte) /\ call.buf # <<>> /\ Len(call.buf) \in Nat \ {0}
      /\ m \in 1..DataPerBlock /\ m <= Len(call.buf)
  <2>1. call.buf \in Seq(Byte) /\ call.buf # <<>>
    BY <1>1, <1>4, <1>7 DEF Writing, Locals
  <2>2. Len(call.buf) \in Nat \ {0}
    BY <2>1
  <2> QED
    BY <2>1, <2>2, DiskAssumption
<1>9. /\ tail \in placed(disk, {}) /\ own[tail] = s /\ disk[tail].nextBlock = c
      /\ pos[tail] + toWrite = extents(disk, inodeIndices, s)
      /\ inodeOf(s).fileSize = DataPerBlock * pos[tail] + Len(call.buf)
      /\ \A b \in placed(disk, {}) : own[b] = s => pos[b] <= pos[tail]
  BY <1>1, <1>2, <1>4, <1>5 DEF Writing
<1>10. PICK K \in Nat : K = pos[tail] /\ K < extents(disk, inodeIndices, s)
  <2>1. pos[tail] \in Nat /\ extents(disk, inodeIndices, s) \in Nat
    BY <1>3, <1>4, <1>7, <1>9, ExtentsNat DEF placed
  <2>2. toWrite \in Nat /\ toWrite # 0
    <3> HIDE DEF isLast, toWrite
    <3> QED
      BY <1>6
  <2> HIDE DEF toWrite
  <2> QED
    BY <1>9, <2>1, <2>2
<1>11. PICK to \in BlockLink : to = next
  BY <1>6, DiskAssumption DEF Blocks, BlockLink, noBlockLink
<1>12. to # noBlockLink => to # c /\ disk[to].blockID = FREE_ID
  <2>1. CASE isLast
    BY <1>11, <2>1
  <2>2. CASE ~isLast
    <3> HIDE DEF next, isLast
    <3> QED
      BY <1>6, <1>11, <2>2, DiskAssumption DEF freeBlocks, Blocks
  <2> QED
    BY <2>1, <2>2
<1> HIDE DEF next, m, isLast
<1>13. PICK start : start = inodeIndices[s]
  OBVIOUS
<1>14. /\ \A n \in 0..K :
            /\ chainOn(disk, start)[n] \in placed(disk, {})
            /\ chainOn(disk', start)[n] = chainOn(disk, start)[n]
       /\ chainOn(disk', start)[K + 1] = c
  <2>1. disk'[c].nextBlock = to /\ (\A b \in Blocks : b # c => disk'[b] = disk[b])
    BY <1>6, <1>11
  <2>2. c \in Blocks /\ c \notin placed(disk, {}) /\ K < c /\ pos[tail] = K
    BY <1>6, <1>10
  <2>3. WrittenBehind(disk, disk', inodeIndices, own, pos, tail, s, c, to, K)
    BY <1>3, <1>4, <1>9, <1>10, <1>12, <2>1, <2>2 DEF WrittenBehind
  <2>4. FollowedTo(disk, disk', start, placed(disk, {}), c, K)
    <3>1. PICK d \in [Blocks -> Block], e \in [Blocks -> Block], ix \in [Slots -> BlockLink] :
            d = disk /\ e = disk' /\ ix = inodeIndices
      BY <1>7
    <3>2. WrittenBehind(d, e, ix, own, pos, tail, s, c, to, K)
      BY <2>3, <3>1
    <3>3. FollowedTo(d, e, ix[s], placed(d, {}), c, K)
      BY <3>2, ChainsToTail
    <3> QED
      BY <1>13, <3>1, <3>3
  <2> QED
    BY <2>4 DEF FollowedTo
<1>15. \A n \in 1..K : /\ chainOn(disk', start)[n] = chainOn(disk, start)[n]
                       /\ disk'[chainOn(disk, start)[n]] = disk[chainOn(disk, start)[n]]
  <2>1. \A n \in 1..K : n \in 0..K
    OBVIOUS
  <2>2. \A b \in placed(disk, {}) : b \in Blocks /\ b # c
    BY <1>6 DEF placed
  <2> QED
    BY <1>6, <1>14, <2>1, <2>2
<1>16. PICK N \in Nat : N = DataPerBlock * K
  BY DiskAssumption
<1>17. inodeOf(s).fileSize - Len(call.buf) = N
  BY <1>8, <1>9, <1>10, <1>16
<1>18. bytesOn(disk', start, N + m) = withPart(bytesOn(disk, start, N), call.buf, m)
  <2>1. GrownBy(disk, disk', start, K, c, call.buf, m, N)
    BY <1>6, <1>8, <1>14, <1>15, <1>16 DEF GrownBy, noBlockLink
  <2> QED
    BY <1>8, <2>1, BytesGrown
<1>19. bytesIn(s, N) = bytesOn(disk, start, N)
  BY <1>13, BytesOn
<1>20. disk'[start] = disk[start] /\ start \in Blocks
  <2>1. start \in placed(disk, {}) /\ start \in Blocks
    BY <1>3, <1>4, <1>13, InodesPlaced
  <2> QED
    BY <1>6, <2>1
<1>21. IF isLast THEN Return(0)
       ELSE \E to2 : Begin([call EXCEPT !.cur = to2, !.buf = restOf(call.buf)])
  BY <1>6
<1> QED
  BY <1>2, <1>6, <1>8, <1>13, <1>17, <1>18, <1>19, <1>20, <1>21 DEF m, isLast

\* A part of a buffer and the rest of it are the buffer.
LEMMA PartAndRest ==
  ASSUME NEW T, NEW bytes \in Seq(T), NEW buffer \in Seq(Byte)
  PROVE  /\ withPart(bytes, buffer, Len(buffer)) = bytes \o buffer
         /\ DataPerBlock <= Len(buffer) =>
              /\ withPart(bytes, buffer, DataPerBlock) \o restOf(buffer) = bytes \o buffer
              /\ Len(restOf(buffer)) = Len(buffer) - DataPerBlock
<1>1. PICK n \in Nat : n = Len(buffer)
  OBVIOUS
<1>2. SubSeq(buffer, 1, n) = buffer
  BY <1>1
<1>3. withPart(bytes, buffer, Len(buffer)) = bytes \o buffer
  BY <1>1, <1>2 DEF withPart
<1>4. PICK D \in Nat \ {0} : D = DataPerBlock
  BY DiskAssumption
<1>5. ASSUME D <= n
      PROVE  /\ withPart(bytes, buffer, D) \o SubSeq(buffer, D + 1, n) = bytes \o buffer
             /\ Len(SubSeq(buffer, D + 1, n)) = n - D
  <2>1. SubSeq(buffer, 1, D) \o SubSeq(buffer, D + 1, n) = buffer
    <3> DEFINE p == SubSeq(buffer, 1, D)
               q == SubSeq(buffer, D + 1, n)
    <3>1. p = [i \in 1..D |-> buffer[i]] /\ q = [i \in 1..(n - D) |-> buffer[i + D]]
      BY <1>1, <1>5
    <3>2. buffer = [i \in 1..n |-> buffer[i]]
      BY <1>1
    <3>3. n - D \in Nat /\ D \in Nat /\ n = D + (n - D)
      BY <1>5
    <3> HIDE DEF p, q
    <3>4. p \o q = [i \in 1..(D + (n - D)) |-> IF i <= D THEN p[i] ELSE q[i - D]]
      BY ONLY <3>1, <3>3
    <3>5. \A i \in 1..n : (IF i <= D THEN p[i] ELSE q[i - D]) = buffer[i]
      <4> TAKE i \in 1..n
      <4>1. CASE i <= D
        BY <3>1, <4>1
      <4>2. CASE ~(i <= D)
        <5>1. i - D \in 1..(n - D) /\ (i - D) + D = i
          BY <1>5, <4>2
        <5> QED
          BY <3>1, <4>2, <5>1
      <4> QED
        BY <4>1, <4>2
    <3>6. p \o q = [i \in 1..n |-> IF i <= D THEN p[i] ELSE q[i - D]]
      BY <3>3, <3>4
    <3>7. p \o q = buffer
      BY <3>2, <3>5, <3>6
    <3> QED
      BY <3>7 DEF p, q
  <2>2. SubSeq(buffer, 1, D) \in Seq(Byte) /\ SubSeq(buffer, D + 1, n) \in Seq(Byte)
    BY <1>1, <1>5

  <2>4. Len(SubSeq(buffer, D + 1, n)) = n - D
    BY <1>1, <1>5
  <2>3. (bytes \o SubSeq(buffer, 1, D)) \o SubSeq(buffer, D + 1, n)
          = bytes \o (SubSeq(buffer, 1, D) \o SubSeq(buffer, D + 1, n))
    <3> DEFINE p == SubSeq(buffer, 1, D)
               q == SubSeq(buffer, D + 1, n)
    <3>1. p \in Seq(Byte) /\ q \in Seq(Byte)
      BY <2>2
    <3> HIDE DEF p, q
    <3>2. (bytes \o p) \o q = bytes \o (p \o q)
      BY ONLY <3>1, bytes \in Seq(T)
    <3> QED
      BY <3>2 DEF p, q
  <2> QED
    BY <2>1, <2>3, <2>4, Zenon DEF withPart
<1> QED
  BY <1>1, <1>3, <1>4, <1>5 DEF restOf

\* FileStore sees only the last turn of the loop: it stores the whole buffer.
LEMMA RWriteBlock ==
  ASSUME Habits = {}, Inv, Inv', CarefulInv({}, TRUE), CarefulInv({}, TRUE)', Quiet, WriteBlock
  PROVE  Store!Store \/ UNCHANGED Store!vars
<1>1. call.pc = "writeBlocks" /\ call.op = "writeFile" /\ call \in Locals
  BY OpOfPhase, Types DEF WriteBlock, CarefulInv
<1>2. PICK t \in Slots : t = busySlot
  BY <1>1, BusySeen
<1>3. /\ busySlots = {t} /\ t \in usedSlots
      /\ callInProgress.fd = call.fd /\ callInProgress.op = call.op
      /\ descriptors[call.fd].name = inodeOf(t).fileName
      /\ openFiles[call.fd].fileSize = inodeOf(t).fileSize
      /\ inodeOf(t).fileName \in DOMAIN storedFiles
      /\ storedFiles[inodeOf(t).fileName] = stored(t)
      /\ stored(t) = [readMode |-> inodeOf(t).readMode, bytes |-> <<>>]
  BY <1>1, <1>2, BusySeen
<1>4. PICK buffer \in Seq(Byte), n \in Nat, m \in 1..DataPerBlock :
        /\ buffer = call.buf /\ n = inodeOf(t).fileSize - Len(call.buf) /\ m <= Len(buffer)
        /\ m = IF Len(buffer) <= DataPerBlock THEN Len(buffer) ELSE DataPerBlock
        /\ bytesOn(disk', inodeIndices[t], n + m) = withPart(bytesIn(t, n), buffer, m)
        /\ disk'[inodeIndices[t]] = disk[inodeIndices[t]]
        /\ UNCHANGED <<inodeIndices, mounted, openFiles, currentFD>>
        /\ IF Len(buffer) <= DataPerBlock THEN Return(0)
           ELSE \E next : Begin([call EXCEPT !.cur = next, !.buf = restOf(call.buf)])
  BY <1>2, BlockSeen
<1>5. PICK size : size = inodeOf(t).fileSize
  OBVIOUS
<1>6. size = n + Len(buffer) /\ Len(buffer) \in Nat
  <2>1. size \in Nat
    <3>1. disk[inodeIndices[t]] \in Block /\ disk[inodeIndices[t]].blockID = INODE_ID
      BY <1>3, Types, SlotsLinked
    <3> QED
      BY <1>5, <3>1, BlockFields DEF inodeOf
  <2>2. Len(buffer) \in Nat
    OBVIOUS
  <2>3. n = size - Len(buffer)
    BY <1>4, <1>5
  <2> QED
    BY ONLY <2>1, <2>2, <2>3
<1>7. bytesIn(t, n) \in Seq({bytesIn(t, n)[i] : i \in 1..n})
  BY BytesRead
<1>8. wholeBuffer = bytesIn(t, n) \o buffer
  BY <1>1, <1>2, <1>3, <1>4, <1>5 DEF wholeBuffer, busySlot
<1>9. callInProgress.stage = "store" /\ callInProgress.buffer = wholeBuffer
  BY <1>1 DEF callInProgress, stageOf
<1>10. OnlyChanges({t})
  BY <1>2, CWriteBlock
<1>11. inodeOf(t)' = inodeOf(t) /\ t \in usedSlots'
  BY <1>3, <1>4 DEF inodeOf, usedSlots
<1>12. \A k : bytesIn(t, k)' = bytesOn(disk', inodeIndices[t], k)
  BY <1>4, BytesOn
<1>13. CASE Len(buffer) <= DataPerBlock
  <2>1. Store!Return(0) /\ busySlots' = {} /\ call' = NoCall
    BY <1>4, <1>13, Returning
  <2>2. stored(t)' = [readMode |-> inodeOf(t).readMode, bytes |-> bytesIn(t, size)']
    BY <1>5, <1>11, <2>1 DEF stored
  <2>3. bytesIn(t, size)' = wholeBuffer
    <3>1. m = Len(buffer) /\ size = n + m
      BY <1>4, <1>6, <1>13
    <3>2. bytesIn(t, size)' = withPart(bytesIn(t, n), buffer, Len(buffer))
      BY <1>4, <1>12, <3>1
    <3> QED
      BY <1>7, <1>8, <3>2, PartAndRest
  <2>4. storedFiles' = [storedFiles EXCEPT ![inodeOf(t).fileName] = stored(t)']
    BY <1>3, <1>10, <1>11, <2>1, FileChanged
  <2>5. stored(t)' = [stored(t) EXCEPT !.bytes = wholeBuffer]
    BY <1>3, <2>2, <2>3
  <2>6. storedFiles' = [storedFiles EXCEPT ![descriptors[callInProgress.fd].name].bytes = callInProgress.buffer]
    BY <1>3, <1>9, <2>4, <2>5
  <2>7. Store!used(storedFiles') <= Store!Capacity
    <3>1. (Habits = {} /\ Inv /\ CarefulInv({}, TRUE) /\ idle => Store!used(storedFiles) <= Store!Capacity)'
      BY UsedIdle, PTL
    <3> QED
      BY <2>1, <3>1 DEF idle, NoCall
  <2>8. Store!Store
    BY <1>4, <1>9, <2>1, <2>6, <2>7, SameDescriptors DEF Store!Store
  <2> QED
    BY <2>8
<1>14. CASE ~(Len(buffer) <= DataPerBlock)
  <2>1. PICK next : call' = [call EXCEPT !.cur = next, !.buf = restOf(buffer)] /\ ret' = NoResult
    BY <1>4, <1>14 DEF Begin
  <2>2. /\ call'.op = call.op /\ call'.fd = call.fd /\ call'.pc = call.pc
        /\ call'.name = call.name /\ call'.buf = restOf(buffer)
    BY <1>1, <2>1 DEF Locals
  <2>3. UNCHANGED <<storedFiles, descriptors>>
    BY <1>1, <1>2, <1>4, <1>10, <2>2, BusyKept
  <2>4. m = DataPerBlock /\ DataPerBlock <= Len(buffer)
    BY <1>4, <1>6, <1>14, DiskAssumption
  <2>5. /\ withPart(bytesIn(t, n), buffer, m) \o restOf(buffer) = bytesIn(t, n) \o buffer
        /\ size - Len(restOf(buffer)) = n + m
    <3>1. /\ withPart(bytesIn(t, n), buffer, DataPerBlock) \o restOf(buffer) = bytesIn(t, n) \o buffer
          /\ Len(restOf(buffer)) = Len(buffer) - DataPerBlock
      BY <1>7, <2>4, PartAndRest
    <3> QED
      BY <1>6, <2>4, <3>1, DiskAssumption
  <2>6. wholeBuffer' = wholeBuffer
    <3>1. openFiles'[call'.fd].inodeLinkIndex = t /\ openFiles'[call'.fd].fileSize = size
      BY <1>2, <1>3, <1>4, <1>5, <2>2 DEF busySlot
    <3>2. wholeBuffer' = bytesOn(disk', inodeIndices[t], size - Len(restOf(buffer))) \o restOf(buffer)
      BY <1>1, <1>4, <2>2, <3>1, BytesOn DEF wholeBuffer
    <3> QED
      BY <1>4, <1>8, <2>5, <3>2
  <2>7. callInProgress' = callInProgress
    BY <1>1, <2>2, <2>6 DEF callInProgress, stageOf
  <2>8. ret' = ret
    BY <1>1, <2>1 DEF Quiet, idle
  <2> QED
    BY <1>4, <2>3, <2>7, <2>8 DEF Store!vars
<1> QED
  BY <1>13, <1>14

-----------------------------------------------------------------------------
(* Every step                                                              *)

\* A step that changes no variable of TinyFS changes none of FileStore.
LEMMA RStutter ==
  ASSUME Habits = {}, Inv, Inv', CarefulInv({}, TRUE), CarefulInv({}, TRUE)', UNCHANGED vars
  PROVE  UNCHANGED Store!vars
<1>1. /\ disk' = disk /\ inodeIndices' = inodeIndices /\ openFiles' = openFiles
      /\ call' = call /\ mounted' = mounted /\ currentFD' = currentFD /\ ret' = ret
  BY DEF vars
<1>2. storedFiles' = storedFiles
  <2>1. OnlyChanges({})
    BY <1>1, NoFileChanged DEF diskVars
  <2>2. busySlots' = busySlots
    BY <1>1 DEF busySlots, busySlot
  <2> QED
    BY <2>1, <2>2, FilesSame
<1>3. descriptors' = descriptors
  BY <1>1, SameDescriptors
<1>4. callInProgress' = callInProgress
  <2>1. \A s, n : bytesIn(s, n)' = bytesIn(s, n)
    BY <1>1, BytesOn
  <2>2. wholeBuffer' = wholeBuffer
    BY <1>1, <2>1 DEF wholeBuffer
  <2> QED
    BY <1>1, <2>2 DEF callInProgress, stageOf
<1> QED
  BY <1>1, <1>2, <1>3, <1>4 DEF Store!vars

\* A call that goes on does not change what the last one returned.
LEMMA QuietNext == ASSUME Quiet, [ClientNext]_vars PROVE Quiet'
<1>1. Quiet' <=> (call'.pc # "idle" => ret' = NoResult)
  BY DEF Quiet, idle, NoResult
<1>2. \A code : Return(code) \/ Fail(code) => Quiet'
  BY <1>1 DEF Return, Fail, NoCall
<1>3. \A c : Begin(c) => Quiet'
  BY <1>1 DEF Begin
<1>4. call.pc # "idle" /\ ret' = ret => Quiet'
  BY <1>1 DEF Quiet, idle
<1>5. idle /\ UNCHANGED call => Quiet'
  BY <1>1 DEF idle
<1>6. CASE UNCHANGED vars
  BY <1>6 DEF vars, Quiet, idle
<1>7. CASE SafeCall
  BY <1>2, <1>3, <1>5, <1>7
     DEF SafeCall, Mount, Unmount, CallUnmounted, NullName, Readdir, DisplayFragments, OpenFile,
         MakeRO, MakeRW, ChangePermissions, CloseFile, DeleteFile, ReadByte, ReadFileInfo, Seek,
         WriteByte, Ready
<1>8. ASSUME NEW fd \in FDs, NEW buffer \in Buffers, ClientWrite(fd, buffer)
      PROVE  Quiet'
  BY <1>2, <1>3, <1>8 DEF ClientWrite, WriteFile
<1>9. ASSUME NEW fd \in FDs, NEW name \in UserNames, ClientRename(fd, name)
      PROVE  Quiet'
  BY <1>2, <1>9 DEF ClientRename, Rename
<1>10. CASE ClientDefrag
  BY <1>2, <1>3, <1>10 DEF ClientDefrag, Defrag
<1>11. CASE LinkInode \/ FreeInode \/ UpdateInode \/ WriteBlock \/ RemoveInode \/ EraseBlock
  BY <1>2, <1>3, <1>4, <1>11
     DEF LinkInode, FreeInode, UpdateInode, WriteBlock, RemoveInode, EraseBlock
<1>12. CASE \/ DisplayBlock \/ DefragInode \/ SwapInodeLink \/ FreeOldInode
            \/ IterateFEs \/ SwapExtentLink \/ FreeOldExtent
  BY <1>2, <1>4, <1>12
     DEF DisplayBlock, DefragInode, SwapInodeLink, FreeOldInode, IterateFEs, SwapExtentLink,
         FreeOldExtent
<1>13. CASE ClientFormat
  BY <1>2, <1>13 DEF ClientFormat, FormatMounted
<1> QED
  BY <1>6, <1>7, <1>8, <1>9, <1>10, <1>11, <1>12, <1>13 DEF ClientNext, Continue

\* The calls a client may make whatever else it does.
LEMMA RSafeCall ==
  ASSUME Habits = {}, Inv, Inv', CarefulInv({}, TRUE), CarefulInv({}, TRUE)', NumBlocks # MaxBlockCount, SafeCall
  PROVE  Store!Next \/ UNCHANGED Store!vars
<1>1. /\ Store!Name = Name /\ Store!readFlag = readFlag /\ FDs = 1..MaxFD
      /\ \A name \in UserNames : formatName(name) \in Store!Name
  BY SameNotions, Inputs DEF FDs
<1>2. CASE Mount
  BY <1>2, RMount DEF Store!Next
<1>3. CASE Unmount
  BY <1>3, RUnmount DEF Store!Next
<1>4. CASE CallUnmounted \/ NullName \/ Readdir
  BY <1>4, RQueries DEF Store!Next
<1>5. CASE DisplayFragments
  BY <1>5, RDisplay DEF Store!Next
<1>6. ASSUME NEW CONSTANT name \in UserNames, OpenFile(name)
      PROVE  Store!Next
  <2>1. Store!OpenFile(formatName(name))
    BY <1>6, ROpenFile
  <2> QED
    BY <1>1, <2>1 DEF Store!Next
<1>7. ASSUME NEW CONSTANT name \in UserNames, MakeRO(name) \/ MakeRW(name)
      PROVE  Store!Next
  <2>1. ASSUME NEW CONSTANT mode \in readFlag, ChangePermissions(name, mode)
        PROVE  Store!Next
    <3>1. Store!ChangePermissions(formatName(name), mode)
      BY <2>1, RChangePermissions
    <3> QED
      BY <1>1, <3>1 DEF Store!Next
  <2> QED
    BY <1>7, <2>1 DEF MakeRO, MakeRW, readFlag
<1>8. ASSUME NEW CONSTANT fd \in FDs,
             CloseFile(fd) \/ DeleteFile(fd) \/ ReadByte(fd) \/ ReadFileInfo(fd)
      PROVE  Store!Next
  <2>1. Store!CloseFile(fd) \/ Store!DeleteFile(fd) \/ Store!ReadByte(fd) \/ Store!ReadFileInfo(fd)
    BY <1>8, RCloseFile, RDeleteFile, RReadByte, RReadFileInfo
  <2> QED
    BY <1>1, <2>1 DEF Store!Next
<1>9. ASSUME NEW CONSTANT fd \in FDs, NEW CONSTANT offset \in SeekOffsets, Seek(fd, offset)
      PROVE  Store!Next
  <2>1. Store!Seek(fd, offset)
    BY <1>9, RSeek
  <2> QED
    BY <1>1, <2>1 DEF Store!Next
<1>10. ASSUME NEW CONSTANT fd \in FDs, NEW CONSTANT byte \in WriteBytes, WriteByte(fd, byte)
       PROVE  Store!Next
  <2>1. Store!WriteByte(fd, byte)
    BY <1>10, RWriteByte
  <2> QED
    BY <1>1, <2>1 DEF Store!Next
<1> QED
  BY <1>2, <1>3, <1>4, <1>5, <1>6, <1>7, <1>8, <1>9, <1>10 DEF SafeCall

\* The next step of a call.
LEMMA RContinue ==
  ASSUME Habits = {}, Inv, Inv', CarefulInv({}, TRUE), CarefulInv({}, TRUE)', Quiet, Continue
  PROVE  Store!Next \/ UNCHANGED Store!vars
<1>1. CASE LinkInode \/ FreeInode
  BY <1>1, RLinkInode, RFreeInode DEF Store!Next
<1>2. CASE EraseBlock
  BY <1>2, REraseBlock
<1>3. CASE UpdateInode \/ WriteBlock \/ RemoveInode
  BY <1>3, RUpdateInode, RWriteBlock, RRemoveInode DEF Store!Next
<1>4. CASE DisplayBlock
  BY <1>4, RDisplay DEF Store!Next
<1>5. CASE \/ DefragInode \/ SwapInodeLink \/ FreeOldInode
           \/ IterateFEs \/ SwapExtentLink \/ FreeOldExtent
  BY <1>5, RDefragSteps DEF Store!Next
<1> QED
  BY <1>1, <1>2, <1>3, <1>4, <1>5 DEF Continue

\* A step of the careful client is a step of FileStore or one it does not see.
LEMMA RNext ==
  ASSUME Inv, Inv', CarefulInv({}, TRUE), CarefulInv({}, TRUE)', Quiet, [ClientNext]_vars,
         Habits = {}, NumBlocks # MaxBlockCount
  PROVE  [Store!Next]_Store!vars
<1>1. Store!Name = Name /\ FDs = 1..MaxFD /\ \A name \in UserNames : formatName(name) \in Store!Name
  BY SameNotions, Inputs DEF FDs
<1>2. CASE SafeCall
  BY <1>2, RSafeCall
<1>3. CASE Continue
  BY <1>3, RContinue
<1>4. ASSUME NEW CONSTANT fd \in FDs, NEW CONSTANT buffer \in Buffers, ClientWrite(fd, buffer)
      PROVE  Store!Next
  <2>1. buffer # <<>> /\ fits(fd, buffer) /\ WriteFile(fd, buffer)
    BY <1>4 DEF ClientWrite
  <2>2. OnlyChanges({})
    BY <2>1, CWriteFile
  <2>3. Store!WriteFile(fd, buffer)
    BY <2>1, <2>2, RWriteFile
  <2> QED
    BY <1>1, <2>3 DEF Store!Next
<1>5. ASSUME NEW CONSTANT fd \in FDs, NEW CONSTANT name \in UserNames, ClientRename(fd, name)
      PROVE  Store!Next
  <2>1. /\ \A s \in usedSlots : ~(isFile(s) /\ inodeOf(s).fileName = formatName(name))
        /\ Rename(fd, name)
    BY <1>5 DEF ClientRename
  <2>2. Store!Rename(fd, formatName(name))
    BY <2>1, RRename
  <2> QED
    BY <1>1, <2>2 DEF Store!Next
<1>6. CASE ClientDefrag
  <2>1. DOMAIN openFiles = {} /\ Defrag
    BY <1>6 DEF ClientDefrag
  <2> QED
    BY <2>1, RDefrag DEF Store!Next
<1>7. CASE UNCHANGED vars
  BY <1>7, RStutter
<1>8. ~ClientFormat
  BY <1>1 DEF ClientFormat
<1> QED
  BY <1>2, <1>3, <1>4, <1>5, <1>6, <1>7, <1>8 DEF ClientNext

\* A careful client sees TinyFS as the store of named files that module FileStore
\* describes: every call of tinyFS.c and tinyFSExtraFeatures.c does, as one step or as a few,
\* what FileStore says it does to the files, to the descriptors and to the answer.
\* A disk of the full size is left out: there searchSB reports ENOSPC whether blocks
\* are free or not (tinyFSHelper.c:58), which FileStore does not.
THEOREM ImplementsFileStoreCorrect ==
  ASSUME Habits = {}, NumBlocks # MaxBlockCount
  PROVE  ClientSpec => ImplementsFileStore
<1>1. Init => Store!Init /\ Quiet
  BY RInit DEF Init, Quiet, idle, NoCall
<1>2. Quiet /\ [ClientNext]_vars => Quiet'
  BY QuietNext
<1>3. /\ Inv /\ Inv' /\ CarefulInv({}, TRUE) /\ CarefulInv({}, TRUE)' /\ Quiet /\ [ClientNext]_vars
      => [Store!Next]_Store!vars
  BY RNext
<1>4. ClientSpec => [](Inv /\ CarefulInv({}, TRUE))
  BY AlwaysCareful
<1> QED
  BY <1>1, <1>2, <1>3, <1>4, PTL DEF ClientSpec, ImplementsFileStore, Store!Spec
=============================================================================
