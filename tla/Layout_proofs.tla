---------------------------- MODULE Layout_proofs ----------------------------
(***************************************************************************)
(* What the steps of a call do to a layout of the files, for every disk,   *)
(* and what a layout says about the chains and the files.  The lemmas are  *)
(* about constants, so that they apply to the disk before and after a step.*)
(***************************************************************************)
EXTENDS Layout, TinyFS_proofs, FiniteSetTheorems

-----------------------------------------------------------------------------
(* The steps that change a layout                                          *)

\* Two functions on S differ at most at x.
OnlyAt(f, g, S, x) == \A y \in S : y # x => g[y] = f[y]

\* The inode of a placed block is placed, and the first block of its file.
LEMMA InodesPlaced ==
  ASSUME NEW d, NEW ix, NEW own, NEW pos, NEW F, NEW tail,
         IsLayout(d, ix, own, pos, F, tail),
         NEW s \in Slots, ix[s] # noBlockLink
  PROVE  /\ ix[s] \in placed(d, F)
         /\ own[ix[s]] = s /\ pos[ix[s]] = 0
         /\ d[ix[s]].blockID = INODE_ID
BY DEF IsLayout, Placed, Rooted

\* Writes that leave the type, the link and the size of every placed block alone
\* keep the layout; so does a write to a block that is not placed.
LEMMA SameLayout ==
  ASSUME NEW d, NEW d2, NEW ix, NEW own, NEW pos, NEW F, NEW F2, NEW tail,
         IsLayout(d, ix, own, pos, F, tail),
         placed(d2, F2) = placed(d, F),
         \A b \in placed(d, F) :
           /\ d2[b].blockID = d[b].blockID
           /\ d2[b].nextBlock = d[b].nextBlock
           /\ d[b].blockID = INODE_ID => d2[b].fileSize = d[b].fileSize
  PROVE  IsLayout(d2, ix, own, pos, F2, tail)
<1>1. \A b \in placed(d, F) : own[b] \in Slots /\ ix[own[b]] # noBlockLink
  BY DEF IsLayout, Placed
<1>2. \A b \in placed(d, F) : extents(d2, ix, own[b]) = extents(d, ix, own[b])
  BY <1>1, InodesPlaced DEF extents
<1>3. Placed(d2, ix, own, pos, F2)
  BY <1>1, <1>2 DEF IsLayout, Placed
<1>4. Apart(d2, own, pos, F2) /\ Rooted(d2, ix, own, pos, F2)
  BY DEF IsLayout, Apart, Rooted
<1>5. Linked(d2, ix, own, pos, F2, tail)
  BY <1>2 DEF IsLayout, Linked
<1> QED
  BY <1>3, <1>4, <1>5 DEF IsLayout

\* tfs_openFile links its new inode.
LEMMA InodeLinked ==
  ASSUME NEW d, NEW ix \in [Slots -> BlockLink],
         NEW own \in [Blocks -> Slots], NEW pos \in [Blocks -> Nat],
         NEW F, NEW c \in Blocks, c \notin F, NEW s \in Slots,
         IsLayout(d, ix, own, pos, F \cup {c}, 0),
         ix[s] = noBlockLink,
         d[c].blockID = INODE_ID, d[c].fileSize = 0, d[c].nextBlock = noBlockLink,
         blocksFor(0) = 0
  PROVE  IsLayout(d, [ix EXCEPT ![s] = c], [own EXCEPT ![c] = s], [pos EXCEPT ![c] = 0], F, 0)
<1> DEFINE ix2  == [ix EXCEPT ![s] = c]
           own2 == [own EXCEPT ![c] = s]
           pos2 == [pos EXCEPT ![c] = 0]
           old  == placed(d, F \cup {c})
<1>1. placed(d, F) = old \cup {c} /\ c \notin old /\ old \subseteq Blocks
  BY DEF placed, INODE_ID, FREE_ID
<1>2. \A b \in old : own[b] # s /\ own[b] \in Slots
  BY DEF IsLayout, Placed
<1>3. own2[c] = s /\ pos2[c] = 0 /\ ix2[s] = c
  OBVIOUS
<1>4. \A b \in old : own2[b] = own[b] /\ pos2[b] = pos[b]
  BY <1>1
<1>5. \A t \in Slots : t # s => ix2[t] = ix[t]
  OBVIOUS
<1>6. \A b \in old : ix2[own2[b]] = ix[own[b]] /\ extents(d, ix2, own2[b]) = extents(d, ix, own[b])
  BY <1>2, <1>4, <1>5 DEF extents
<1>7. extents(d, ix2, s) = 0
  BY <1>3 DEF extents
<1>8. c # noBlockLink /\ c \in Nat /\ 0 <= c
  BY DiskAssumption DEF Blocks, noBlockLink
<1> HIDE DEF ix2, own2, pos2, old
<1>9. Placed(d, ix2, own2, pos2, F)
  <2>1. ASSUME NEW b \in old
        PROVE  /\ own2[b] \in Slots /\ pos2[b] \in 0..extents(d, ix2, own2[b])
               /\ ix2[own2[b]] # noBlockLink
               /\ (pos2[b] = 0 <=> d[b].blockID = INODE_ID)
               /\ pos2[b] = 0 => ix2[own2[b]] = b
               /\ pos2[b] <= b
    BY <1>2, <1>4, <1>6 DEF IsLayout, Placed, old
  <2>2. /\ own2[c] \in Slots /\ pos2[c] \in 0..extents(d, ix2, own2[c])
        /\ ix2[own2[c]] # noBlockLink
        /\ (pos2[c] = 0 <=> d[c].blockID = INODE_ID)
        /\ pos2[c] = 0 => ix2[own2[c]] = c
        /\ pos2[c] <= c
    BY <1>3, <1>7, <1>8
  <2> QED
    BY <1>1, <2>1, <2>2 DEF Placed
<1>10. Apart(d, own2, pos2, F)
  BY <1>1, <1>2, <1>3, <1>4 DEF IsLayout, Apart, old
<1>11. Rooted(d, ix2, own2, pos2, F)
  <2>1. ASSUME NEW t \in Slots, t # s, ix[t] # noBlockLink
        PROVE  ix[t] \in old /\ own[ix[t]] = t /\ pos[ix[t]] = 0
    BY <2>1 DEF IsLayout, Rooted, old
  <2> QED
    BY <1>1, <1>3, <1>4, <1>5, <2>1 DEF Rooted
<1>12. Linked(d, ix2, own2, pos2, F, 0)
  <2>1. ASSUME NEW b \in old, b # 0
        PROVE  IF pos[b] = extents(d, ix, own[b])
               THEN d[b].nextBlock = noBlockLink
               ELSE /\ d[b].nextBlock \in old /\ own[d[b].nextBlock] = own[b]
                    /\ pos[d[b].nextBlock] = pos[b] + 1
    BY <2>1 DEF IsLayout, Linked, old
  <2> QED
    BY <1>1, <1>3, <1>4, <1>6, <1>7, <2>1 DEF Linked
<1> QED
  BY <1>9, <1>10, <1>11, <1>12 DEF IsLayout, ix2, own2, pos2

\* removeInode unlinks the inode of a file whose extents are erased.
LEMMA InodeUnlinked ==
  ASSUME NEW d, NEW ix \in [Slots -> BlockLink],
         NEW own \in [Blocks -> Slots], NEW pos \in [Blocks -> Nat],
         NEW F, NEW s \in Slots, ix[s] # noBlockLink,
         IsLayout(d, ix, own, pos, F, ix[s]),
         \A b \in placed(d, F) : own[b] = s => pos[b] = 0
  PROVE  IsLayout(d, [ix EXCEPT ![s] = noBlockLink], own, pos, F \cup {ix[s]}, 0)
<1> DEFINE c   == ix[s]
           ix2 == [ix EXCEPT ![s] = noBlockLink]
           old == placed(d, F)
           new == placed(d, F \cup {c})
<1>1. new = old \ {c} /\ c \in old /\ own[c] = s
  BY InodesPlaced DEF placed
<1>2. \A b \in old : own[b] = s => b = c
  BY DEF IsLayout, Placed
<1>3. \A t \in Slots : t # s => ix2[t] = ix[t]
  OBVIOUS
<1>4. ix2[s] = noBlockLink
  OBVIOUS
<1>5. \A b \in new : own[b] \in Slots /\ own[b] # s /\ b \in old
  BY <1>1, <1>2 DEF IsLayout, Placed
<1>6. \A b \in new : ix2[own[b]] = ix[own[b]] /\ extents(d, ix2, own[b]) = extents(d, ix, own[b])
  BY <1>3, <1>5 DEF extents
<1> HIDE DEF ix2
<1>7. Placed(d, ix2, own, pos, F \cup {c})
  BY <1>5, <1>6 DEF IsLayout, Placed
<1>8. Apart(d, own, pos, F \cup {c})
  BY <1>5 DEF IsLayout, Apart
<1>9. Rooted(d, ix2, own, pos, F \cup {c})
  <2> SUFFICES ASSUME NEW t \in Slots, ix2[t] # noBlockLink
               PROVE  ix2[t] \in new /\ own[ix2[t]] = t /\ pos[ix2[t]] = 0
    BY DEF Rooted
  <2>1. t # s /\ ix2[t] = ix[t]
    BY <1>3, <1>4
  <2>2. ix[t] \in old /\ own[ix[t]] = t /\ pos[ix[t]] = 0
    BY <2>1, InodesPlaced
  <2> QED
    BY <1>1, <2>1, <2>2
<1>10. Linked(d, ix2, own, pos, F \cup {c}, 0)
  <2> SUFFICES ASSUME NEW b \in new
               PROVE  IF pos[b] = extents(d, ix2, own[b])
                      THEN d[b].nextBlock = noBlockLink
                      ELSE /\ d[b].nextBlock \in new /\ own[d[b].nextBlock] = own[b]
                           /\ pos[d[b].nextBlock] = pos[b] + 1
    BY DEF Linked
  <2>1. IF pos[b] = extents(d, ix, own[b])
        THEN d[b].nextBlock = noBlockLink
        ELSE /\ d[b].nextBlock \in old /\ own[d[b].nextBlock] = own[b]
             /\ pos[d[b].nextBlock] = pos[b] + 1
    BY <1>1, <1>5 DEF IsLayout, Linked
  <2> QED
    BY <1>1, <1>5, <1>6, <2>1
<1> QED
  BY <1>7, <1>8, <1>9, <1>10 DEF IsLayout, ix2

\* eraseFileData frees the first extent that is left of a file.
LEMMA ExtentErased ==
  ASSUME NEW d \in [Blocks -> Block], NEW ix \in [Slots -> BlockLink],
         NEW own \in [Blocks -> Slots], NEW pos \in [Blocks -> Nat],
         NEW F, NEW c \in placed(d, F), pos[c] # 0,
         IsLayout(d, ix, own, pos, F, ix[own[c]]),
         \A b \in placed(d, F) : (own[b] = own[c] /\ pos[b] # 0) => pos[c] <= pos[b]
  PROVE  /\ placed([d EXCEPT ![c] = freeBlock], F) = placed(d, F) \ {c}
         /\ IsLayout([d EXCEPT ![c] = freeBlock], ix, own, pos, F, ix[own[c]])
<1> DEFINE d2   == [d EXCEPT ![c] = freeBlock]
           tail == ix[own[c]]
           old  == placed(d, F)
           new  == placed(d2, F)
<1>1. old \subseteq Blocks /\ \A b \in old : own[b] \in Slots /\ pos[b] \in Nat
  BY DEF placed
<1>2. d2[c].blockID = FREE_ID /\ \A b \in Blocks : b # c => d2[b] = d[b]
  BY <1>1 DEF freeBlock
<1> HIDE DEF d2
<1>3. new = old \ {c}
  BY <1>2 DEF placed
<1>4. \A b \in new : b \in old /\ d2[b] = d[b] /\ ix[own[b]] # noBlockLink
  BY <1>1, <1>2, <1>3 DEF IsLayout, Placed
<1>5. \A s \in Slots : ix[s] # noBlockLink => ix[s] \in new /\ d2[ix[s]] = d[ix[s]]
  BY <1>3, <1>4, InodesPlaced
<1>6. \A b \in new : extents(d2, ix, own[b]) = extents(d, ix, own[b])
  BY <1>1, <1>4, <1>5 DEF extents
<1>7. Placed(d2, ix, own, pos, F)
  BY <1>4, <1>6 DEF IsLayout, Placed
<1>8. Apart(d2, own, pos, F)
  BY <1>4 DEF IsLayout, Apart
<1>9. Rooted(d2, ix, own, pos, F)
  BY <1>5 DEF IsLayout, Rooted
<1>10. Linked(d2, ix, own, pos, F, tail)
  <2> SUFFICES ASSUME NEW b \in new \ {tail}
               PROVE  IF pos[b] = extents(d2, ix, own[b])
                      THEN d2[b].nextBlock = noBlockLink
                      ELSE /\ d2[b].nextBlock \in new /\ own[d2[b].nextBlock] = own[b]
                           /\ pos[d2[b].nextBlock] = pos[b] + 1
    BY DEF Linked
  <2>1. IF pos[b] = extents(d, ix, own[b])
        THEN d[b].nextBlock = noBlockLink
        ELSE /\ d[b].nextBlock \in old /\ own[d[b].nextBlock] = own[b]
             /\ pos[d[b].nextBlock] = pos[b] + 1
    BY <1>4 DEF IsLayout, Linked
  <2>2. b \in old /\ d2[b] = d[b] /\ extents(d2, ix, own[b]) = extents(d, ix, own[b])
    BY <1>4, <1>6
  <2>3. pos[b] # extents(d, ix, own[b]) => d[b].nextBlock # c
    <3> SUFFICES ASSUME pos[b] # extents(d, ix, own[b]), d[b].nextBlock = c
                 PROVE  FALSE
      OBVIOUS
    <3>1. own[c] = own[b] /\ pos[c] = pos[b] + 1
      BY <2>1
    <3>2. pos[b] = 0
      BY <1>1, <2>2, <3>1
    <3>3. b = tail
      BY <2>2, <3>1, <3>2 DEF IsLayout, Placed
    <3> QED
      BY <3>3
  <2> QED
    BY <1>3, <2>1, <2>2, <2>3
<1> QED
  BY <1>3, <1>7, <1>8, <1>9, <1>10 DEF IsLayout, d2

\* The write of an inode in the place of the one in slot s, whose file has no extents.
RewritesInode(d, ix, own, pos, F, s, d2) ==
  /\ d \in [Blocks -> Block]
  /\ ix \in [Slots -> BlockLink]
  /\ own \in [Blocks -> Slots]
  /\ pos \in [Blocks -> Nat]
  /\ s \in Slots
  /\ ix[s] # noBlockLink
  /\ IsLayout(d, ix, own, pos, F, ix[s])
  /\ \A b \in placed(d, F) : own[b] = s => pos[b] = 0
  /\ d2 \in [Blocks -> Block]
  /\ OnlyAt(d, d2, Blocks, ix[s])
  /\ d2[ix[s]].blockID = INODE_ID
  /\ blocksFor(d2[ix[s]].fileSize) \in Nat

\* tfs_writeFile rewrites the inode of a file that has no extents any more.
LEMMA InodeRewritten ==
  ASSUME NEW d, NEW ix, NEW own, NEW pos, NEW F, NEW s, NEW d2,
         RewritesInode(d, ix, own, pos, F, s, d2)
  PROVE  /\ placed(d2, F) = placed(d, F)
         /\ IsLayout(d2, ix, own, pos, F, ix[s])
<1> USE DEF RewritesInode
<1> DEFINE c   == ix[s]
           old == placed(d, F)
           new == placed(d2, F)
<1>1. c \in old /\ own[c] = s /\ pos[c] = 0 /\ d[c].blockID = INODE_ID
  BY InodesPlaced
<1>2. old \subseteq Blocks
  BY DEF placed
<1>3. d2[c].blockID = INODE_ID /\ \A b \in Blocks : b # c => d2[b] = d[b]
  BY DEF OnlyAt
<1>4. new = old
  BY <1>1, <1>2, <1>3 DEF placed, INODE_ID, FREE_ID
<1>5. \A b \in old : own[b] = s => b = c
  BY DEF IsLayout, Placed
<1>6. \A t \in Slots : (ix[t] # noBlockLink /\ t # s) => ix[t] \in old /\ ix[t] # c
  BY <1>1, InodesPlaced
<1>7. \A b \in old : b # c => extents(d2, ix, own[b]) = extents(d, ix, own[b]) /\ d2[b] = d[b]
  <2> SUFFICES ASSUME NEW b \in old, b # c
               PROVE  extents(d2, ix, own[b]) = extents(d, ix, own[b]) /\ d2[b] = d[b]
    OBVIOUS
  <2>1. own[b] \in Slots /\ own[b] # s /\ ix[own[b]] # noBlockLink
    BY <1>5 DEF IsLayout, Placed
  <2>2. ix[own[b]] \in Blocks /\ ix[own[b]] # c
    BY <1>2, <1>6, <2>1
  <2> QED
    BY <1>2, <1>3, <2>2 DEF extents
<1>8. extents(d2, ix, s) \in Nat
  BY <1>3 DEF extents
<1>9. Placed(d2, ix, own, pos, F)
  <2>1. ASSUME NEW b \in old, b # c
        PROVE  /\ own[b] \in Slots /\ pos[b] \in 0..extents(d2, ix, own[b])
               /\ ix[own[b]] # noBlockLink
               /\ (pos[b] = 0 <=> d2[b].blockID = INODE_ID)
               /\ pos[b] = 0 => ix[own[b]] = b
               /\ pos[b] <= b
    BY <1>7, <2>1 DEF IsLayout, Placed
  <2>2. /\ own[c] \in Slots /\ pos[c] \in 0..extents(d2, ix, own[c])
        /\ ix[own[c]] # noBlockLink
        /\ (pos[c] = 0 <=> d2[c].blockID = INODE_ID)
        /\ pos[c] = 0 => ix[own[c]] = c
        /\ pos[c] <= c
    <3>1. pos[c] <= c
      BY <1>1 DEF IsLayout, Placed
    <3> QED
      BY <1>1, <1>3, <1>8, <3>1
  <2> QED
    BY <1>4, <2>1, <2>2 DEF Placed
<1>10. Apart(d2, own, pos, F)
  BY <1>4 DEF IsLayout, Apart
<1>11. Rooted(d2, ix, own, pos, F)
  BY <1>4 DEF IsLayout, Rooted
<1>12. Linked(d2, ix, own, pos, F, c)
  BY <1>4, <1>7 DEF IsLayout, Linked
<1> QED
  BY <1>4, <1>9, <1>10, <1>11, <1>12 DEF IsLayout

\* The write of an extent into the free block c the tail leads to.
WritesExtent(d, ix, own, pos, F, tail, c, d2, tail2, own2, pos2) ==
  /\ d \in [Blocks -> Block]
  /\ ix \in [Slots -> BlockLink]
  /\ own \in [Blocks -> Slots]
  /\ pos \in [Blocks -> Nat]
  /\ tail \in placed(d, F)
  /\ c \in Blocks \ F
  /\ IsLayout(d, ix, own, pos, F, tail)
  /\ d[c].blockID = FREE_ID
  /\ d[tail].nextBlock = c
  /\ pos[tail] < c
  /\ pos[tail] + 1 \in 1..extents(d, ix, own[tail])
  /\ \A b \in placed(d, F) : own[b] = own[tail] => pos[b] <= pos[tail]
  /\ d2 \in [Blocks -> Block]
  /\ OnlyAt(d, d2, Blocks, c)
  /\ d2[c].blockID = FILE_EXTENT_ID
  /\ \/ tail2 = c
     \/ d2[c].nextBlock = noBlockLink /\ pos[tail] + 1 = extents(d, ix, own[tail])
  /\ own2 \in [Blocks -> Slots]
  /\ pos2 \in [Blocks -> Nat]
  /\ own2[c] = own[tail]
  /\ pos2[c] = pos[tail] + 1
  /\ OnlyAt(own, own2, Blocks, c)
  /\ OnlyAt(pos, pos2, Blocks, c)

\* tfs_writeFile writes the next extent behind the tail.  The extent is the new
\* tail, or the last one of the file.
LEMMA ExtentWritten ==
  ASSUME NEW d, NEW ix, NEW own, NEW pos, NEW F, NEW tail, NEW c, NEW d2, NEW tail2, NEW own2, NEW pos2,
         WritesExtent(d, ix, own, pos, F, tail, c, d2, tail2, own2, pos2)
  PROVE  /\ placed(d2, F) = placed(d, F) \cup {c}
         /\ c \notin placed(d, F)
         /\ IsLayout(d2, ix, own2, pos2, F, tail2)
<1> USE DEF WritesExtent
<1> DEFINE s    == own[tail]
           old  == placed(d, F)
           new  == placed(d2, F)
<1>1. c \notin old /\ old \subseteq Blocks
  BY DEF placed
<1>2. \A b \in Blocks : b # c => d2[b] = d[b]
  BY DEF OnlyAt
<1>3. own2[c] = s /\ pos2[c] = pos[tail] + 1
  OBVIOUS
<1>4. \A b \in old : /\ own2[b] = own[b] /\ pos2[b] = pos[b] /\ d2[b] = d[b]
                     /\ own[b] \in Slots /\ pos[b] \in Nat /\ b # c
  BY <1>1 DEF OnlyAt
<1>5. new = old \cup {c}
  BY <1>1, <1>2 DEF placed, FILE_EXTENT_ID, FREE_ID
<1>6. s \in Slots /\ ix[s] # noBlockLink /\ ix[s] \in old
  <2>1. s \in Slots /\ ix[s] # noBlockLink
    BY <1>4 DEF IsLayout, Placed
  <2> QED
    BY <2>1, InodesPlaced
<1>7. \A t \in Slots : ix[t] # noBlockLink => ix[t] \in old /\ own[ix[t]] = t /\ pos[ix[t]] = 0
  BY InodesPlaced
<1>8. \A b \in old : ix[own[b]] # noBlockLink
  BY DEF IsLayout, Placed
<1>9. \A b \in new : own2[b] \in Slots /\ extents(d2, ix, own2[b]) = extents(d, ix, own2[b])
  <2>1. \A t \in Slots : ix[t] # noBlockLink => extents(d2, ix, t) = extents(d, ix, t)
    BY <1>4, <1>7 DEF extents
  <2> QED
    BY <1>3, <1>4, <1>5, <1>6, <1>8, <2>1
<1>10. Placed(d2, ix, own2, pos2, F)
  <2>1. ASSUME NEW b \in old
        PROVE  /\ own[b] \in Slots /\ pos[b] \in 0..extents(d, ix, own[b])
               /\ ix[own[b]] # noBlockLink
               /\ (pos[b] = 0 <=> d[b].blockID = INODE_ID)
               /\ pos[b] = 0 => ix[own[b]] = b
               /\ pos[b] <= b
    BY DEF IsLayout, Placed
  <2>2. ASSUME NEW b \in old
        PROVE  /\ own2[b] \in Slots /\ pos2[b] \in 0..extents(d2, ix, own2[b])
               /\ ix[own2[b]] # noBlockLink
               /\ (pos2[b] = 0 <=> d2[b].blockID = INODE_ID)
               /\ pos2[b] = 0 => ix[own2[b]] = b
               /\ pos2[b] <= b
    BY <1>4, <1>5, <1>9, <2>1
  <2>3. c \in Nat /\ pos[tail] \in Nat
    BY <1>4, DiskAssumption DEF Blocks
  <2>4. pos2[c] \in 0..extents(d2, ix, own2[c])
    BY <1>3, <1>5, <1>9, <2>3
  <2>5. /\ own2[c] \in Slots
        /\ ix[own2[c]] # noBlockLink
        /\ pos2[c] # 0 /\ d2[c].blockID # INODE_ID
        /\ pos2[c] <= c
    BY <1>2, <1>3, <1>6, <2>3 DEF FILE_EXTENT_ID, INODE_ID
  <2> QED
    BY <1>5, <2>2, <2>4, <2>5 DEF Placed
<1>11. Apart(d2, own2, pos2, F)
  <2>1. \A b, c2 \in old : (own[b] = own[c2] /\ pos[b] = pos[c2]) => b = c2
    BY DEF IsLayout, Apart
  <2>2. \A b \in old : own2[b] # own2[c] \/ pos2[b] # pos2[c]
    BY <1>3, <1>4
  <2> QED
    BY <1>4, <1>5, <2>1, <2>2 DEF Apart
<1>12. Rooted(d2, ix, own2, pos2, F)
  BY <1>4, <1>5, <1>7 DEF Rooted
<1>13. Linked(d2, ix, own2, pos2, F, tail2)
  <2>1. ASSUME NEW b \in old, b # tail
        PROVE  IF pos[b] = extents(d, ix, own[b])
               THEN d[b].nextBlock = noBlockLink
               ELSE /\ d[b].nextBlock \in old /\ own[d[b].nextBlock] = own[b]
                    /\ pos[d[b].nextBlock] = pos[b] + 1
    BY <2>1 DEF IsLayout, Linked
  <2>2. ASSUME NEW b \in old
        PROVE  IF pos2[b] = extents(d2, ix, own2[b])
               THEN d2[b].nextBlock = noBlockLink
               ELSE /\ d2[b].nextBlock \in new /\ own2[d2[b].nextBlock] = own2[b]
                    /\ pos2[d2[b].nextBlock] = pos2[b] + 1
    <3>1. pos2[b] = pos[b] /\ own2[b] = own[b] /\ d2[b] = d[b]
          /\ extents(d2, ix, own2[b]) = extents(d, ix, own[b])
      BY <1>4, <1>5, <1>9
    <3>2. CASE b = tail
      <4>1. pos[b] # extents(d, ix, own[b])
        BY <1>4, <3>2
      <4> QED
        BY <1>3, <1>5, <3>1, <3>2, <4>1
    <3>3. CASE b # tail
      BY <1>4, <1>5, <2>1, <3>1, <3>3
    <3> QED
      BY <3>2, <3>3
  <2>3. c # tail2 => pos2[c] = extents(d2, ix, own2[c]) /\ d2[c].nextBlock = noBlockLink
    BY <1>2, <1>3, <1>5, <1>9
  <2> QED
    BY <1>5, <2>2, <2>3 DEF Linked
<1> QED
  BY <1>1, <1>5, <1>10, <1>11, <1>12, <1>13 DEF IsLayout

\* The link of slot s turns from an inode to its copy in block f.
MovesInode(d, ix, own, pos, F, f, s, ix2, own2, pos2) ==
  /\ d \in [Blocks -> Block]
  /\ ix \in [Slots -> BlockLink]
  /\ own \in [Blocks -> Slots]
  /\ pos \in [Blocks -> Nat]
  /\ f \in Blocks \ F
  /\ s \in Slots
  /\ ix[s] # noBlockLink
  /\ IsLayout(d, ix, own, pos, F \cup {f}, 0)
  /\ d[f] = d[ix[s]]
  /\ ix2 \in [Slots -> BlockLink]
  /\ ix2[s] = f
  /\ OnlyAt(ix, ix2, Slots, s)
  /\ own2 \in [Blocks -> Slots]
  /\ pos2 \in [Blocks -> Nat]
  /\ own2[f] = s
  /\ pos2[f] = 0
  /\ OnlyAt(own, own2, Blocks, f)
  /\ OnlyAt(pos, pos2, Blocks, f)

\* tfs_defrag turns the link of the super block to the copy of an inode.
LEMMA InodeMoved ==
  ASSUME NEW d, NEW ix, NEW own, NEW pos, NEW F, NEW f, NEW s, NEW ix2, NEW own2, NEW pos2,
         MovesInode(d, ix, own, pos, F, f, s, ix2, own2, pos2)
  PROVE  /\ placed(d, F \cup {ix[s]}) = (placed(d, F \cup {f}) \ {ix[s]}) \cup {f}
         /\ ix[s] # f /\ ix[s] \in placed(d, F \cup {f})
         /\ IsLayout(d, ix2, own2, pos2, F \cup {ix[s]}, 0)
<1> USE DEF MovesInode
<1> DEFINE c    == ix[s]
           old  == placed(d, F \cup {f})
           new  == placed(d, F \cup {c})
<1>1. c \in old /\ own[c] = s /\ pos[c] = 0 /\ d[c].blockID = INODE_ID
  BY InodesPlaced
<1>2. f \notin old /\ c # f /\ old \subseteq Blocks
  BY <1>1 DEF placed
<1>3. new = (old \ {c}) \cup {f}
  BY <1>1, <1>2 DEF placed, INODE_ID, FREE_ID
<1>4. ix2[s] = f /\ own2[f] = s /\ pos2[f] = 0 /\ \A t \in Slots : t # s => ix2[t] = ix[t]
  BY DEF OnlyAt
<1>5. \A b \in old : /\ own2[b] = own[b] /\ pos2[b] = pos[b] /\ b # f
                     /\ own[b] \in Slots /\ pos[b] \in Nat
  BY <1>2 DEF OnlyAt
<1>6. f # noBlockLink /\ f \in Nat /\ 0 <= f
  BY DiskAssumption DEF Blocks, noBlockLink
<1>7. \A t \in Slots : extents(d, ix2, t) = extents(d, ix, t)
  BY <1>4 DEF extents
<1>8. 0 \in 0..extents(d, ix, s)
  BY <1>1 DEF IsLayout, Placed
<1>9. Placed(d, ix2, own2, pos2, F \cup {c})
  <2>1. ASSUME NEW b \in old
        PROVE  /\ own[b] \in Slots /\ pos[b] \in 0..extents(d, ix, own[b])
               /\ ix[own[b]] # noBlockLink
               /\ (pos[b] = 0 <=> d[b].blockID = INODE_ID)
               /\ pos[b] = 0 => ix[own[b]] = b
               /\ pos[b] <= b
    BY DEF IsLayout, Placed
  <2>2. ASSUME NEW b \in old, b # c
        PROVE  /\ own2[b] \in Slots /\ pos2[b] \in 0..extents(d, ix2, own2[b])
               /\ ix2[own2[b]] # noBlockLink
               /\ (pos2[b] = 0 <=> d[b].blockID = INODE_ID)
               /\ pos2[b] = 0 => ix2[own2[b]] = b
               /\ pos2[b] <= b
    <3>1. ix2[own[b]] # noBlockLink
      BY <1>4, <1>5, <1>6, <2>1
    <3>2. pos[b] = 0 => own[b] # s /\ ix2[own[b]] = ix[own[b]]
      BY <1>1, <1>4, <1>5, <2>1, <2>2
    <3>3. own2[b] = own[b] /\ pos2[b] = pos[b] /\ extents(d, ix2, own2[b]) = extents(d, ix, own[b])
      BY <1>5, <1>7
    <3> HIDE DEF MovesInode
    <3> QED
      BY <2>1, <3>1, <3>2, <3>3
  <2>3. /\ own2[f] \in Slots /\ pos2[f] \in 0..extents(d, ix2, own2[f])
        /\ ix2[own2[f]] # noBlockLink
        /\ (pos2[f] = 0 <=> d[f].blockID = INODE_ID)
        /\ pos2[f] = 0 => ix2[own2[f]] = f
        /\ pos2[f] <= f
    BY <1>1, <1>4, <1>6, <1>7, <1>8
  <2> QED
    BY <1>3, <2>2, <2>3 DEF Placed
<1>10. Apart(d, own2, pos2, F \cup {c})
  <2>1. \A b, b2 \in old : (own[b] = own[b2] /\ pos[b] = pos[b2]) => b = b2
    BY DEF IsLayout, Apart
  <2>2. ASSUME NEW b \in old, b # c
        PROVE  own2[b] # own2[f] \/ pos2[b] # pos2[f]
    <3>1. own[b] # s \/ pos[b] # 0
      BY <1>1, <2>1, <2>2
    <3> QED
      BY <1>4, <1>5, <3>1
  <2> SUFFICES ASSUME NEW b \in new, NEW b2 \in new, own2[b] = own2[b2], pos2[b] = pos2[b2]
               PROVE  b = b2
    BY DEF Apart
  <2>3. (b = f \/ (b \in old /\ b # c)) /\ (b2 = f \/ (b2 \in old /\ b2 # c))
    BY <1>3
  <2> HIDE DEF MovesInode, old, new, c
  <2>4. CASE b = f \/ b2 = f
    BY <2>2, <2>3, <2>4
  <2>5. CASE b # f /\ b2 # f
    BY <1>5, <2>1, <2>3, <2>5
  <2> QED
    BY <2>4, <2>5
<1>11. Rooted(d, ix2, own2, pos2, F \cup {c})
  <2> SUFFICES ASSUME NEW t \in Slots, ix2[t] # noBlockLink
               PROVE  ix2[t] \in new /\ own2[ix2[t]] = t /\ pos2[ix2[t]] = 0
    BY DEF Rooted
  <2>1. CASE t = s
    BY <1>3, <1>4, <2>1
  <2>2. CASE t # s
    <3>1. ix2[t] = ix[t] /\ ix[t] \in old /\ own[ix[t]] = t /\ pos[ix[t]] = 0
      BY <1>4, <2>2, InodesPlaced
    <3> QED
      BY <1>1, <1>3, <1>5, <2>2, <3>1
  <2> QED
    BY <2>1, <2>2
<1> HIDE DEF c, old, new
<1>12. Linked(d, ix2, own2, pos2, F \cup {c}, 0)
  <2>1. ASSUME NEW b \in old
        PROVE  IF pos[b] = extents(d, ix, own[b])
               THEN d[b].nextBlock = noBlockLink
               ELSE /\ d[b].nextBlock \in old /\ d[b].nextBlock # c
                    /\ own[d[b].nextBlock] = own[b]
                    /\ pos[d[b].nextBlock] = pos[b] + 1
    <3>1. b # 0
      <4>1. b \in Blocks
        BY <1>2
      <4> QED
        BY <4>1, DiskAssumption DEF Blocks
    <3>2. IF pos[b] = extents(d, ix, own[b])
          THEN d[b].nextBlock = noBlockLink
          ELSE /\ d[b].nextBlock \in old
               /\ own[d[b].nextBlock] = own[b]
               /\ pos[d[b].nextBlock] = pos[b] + 1
      BY <3>1 DEF IsLayout, Linked, old
    <3>3. d[b].nextBlock \in old /\ pos[d[b].nextBlock] = pos[b] + 1 => d[b].nextBlock # c
      BY <1>1, <1>5
    <3> QED
      BY <3>2, <3>3
  <2>2. ASSUME NEW b \in new, NEW b0 \in old, d[b] = d[b0], own2[b] = own[b0], pos2[b] = pos[b0]
        PROVE  IF pos2[b] = extents(d, ix2, own2[b])
               THEN d[b].nextBlock = noBlockLink
               ELSE /\ d[b].nextBlock \in new /\ own2[d[b].nextBlock] = own2[b]
                    /\ pos2[d[b].nextBlock] = pos2[b] + 1
    BY <1>3, <1>5, <1>7, <2>1, <2>2
  <2>3. \A b \in new : \E b0 \in old : d[b] = d[b0] /\ own2[b] = own[b0] /\ pos2[b] = pos[b0]
    BY <1>1, <1>3, <1>4, <1>5 DEF c
  <2> QED
    BY <2>2, <2>3 DEF Linked, new
<1> QED
  BY <1>1, <1>2, <1>3, <1>9, <1>10, <1>11, <1>12 DEF IsLayout, c, old, new

\* The link of block p turns from an extent c to its copy in block f.
MovesExtent(d, ix, own, pos, F, f, p, c, d2, own2, pos2) ==
  /\ d \in [Blocks -> Block]
  /\ ix \in [Slots -> BlockLink]
  /\ own \in [Blocks -> Slots]
  /\ pos \in [Blocks -> Nat]
  /\ f \in Blocks \ F
  /\ p \in placed(d, F \cup {f})
  /\ c \in Blocks
  /\ IsLayout(d, ix, own, pos, F \cup {f}, 0)
  /\ d[f] = d[c]
  /\ d[c].blockID = FILE_EXTENT_ID
  /\ d[p].nextBlock = c
  /\ pos[p] < f
  /\ d2 \in [Blocks -> Block]
  /\ OnlyAt(d, d2, Blocks, p)
  /\ d2[p].blockID = d[p].blockID
  /\ d2[p].nextBlock = f
  /\ d[p].blockID = INODE_ID => d2[p].fileSize = d[p].fileSize
  /\ own2 \in [Blocks -> Slots]
  /\ pos2 \in [Blocks -> Nat]
  /\ own2[f] = own[c]
  /\ pos2[f] = pos[c]
  /\ OnlyAt(own, own2, Blocks, f)
  /\ OnlyAt(pos, pos2, Blocks, f)

\* tfs_defrag turns the link of the block in front to the copy of an extent.
LEMMA ExtentMoved ==
  ASSUME NEW d, NEW ix, NEW own, NEW pos, NEW F, NEW f, NEW p, NEW c, NEW d2, NEW own2, NEW pos2,
         MovesExtent(d, ix, own, pos, F, f, p, c, d2, own2, pos2)
  PROVE  /\ placed(d2, F \cup {c}) = (placed(d, F \cup {f}) \ {c}) \cup {f}
         /\ c # f /\ c # p /\ c \in placed(d, F \cup {f})
         /\ own[c] = own[p] /\ pos[c] = pos[p] + 1
         /\ IsLayout(d2, ix, own2, pos2, F \cup {c}, 0)
<1> USE DEF MovesExtent
<1> DEFINE old  == placed(d, F \cup {f})
           new  == placed(d2, F \cup {c})
<1>1. f \notin old /\ old \subseteq Blocks /\ p \in Blocks
  BY DEF placed
<1>2. \A b \in Blocks : b # 0 /\ b \in Nat
  BY DiskAssumption DEF Blocks
<1>3. \A b \in old : IF pos[b] = extents(d, ix, own[b])
                     THEN d[b].nextBlock = noBlockLink
                     ELSE /\ d[b].nextBlock \in old /\ own[d[b].nextBlock] = own[b]
                          /\ pos[d[b].nextBlock] = pos[b] + 1
  BY <1>1, <1>2 DEF IsLayout, Linked
<1>4. c \in old /\ own[c] = own[p] /\ pos[c] = pos[p] + 1
  BY <1>2, <1>3 DEF noBlockLink
<1>5. \A b \in old : own[b] \in Slots /\ pos[b] \in Nat /\ b \in Blocks
  BY <1>1
<1>6. c # f /\ c # p
  <2>1. pos[p] \in Nat /\ pos[c] = pos[p] + 1
    BY <1>1, <1>4
  <2>2. pos[c] # pos[p]
    BY <2>1
  <2> QED
    BY <1>1, <1>4, <2>2
<1>7. \A b, b2 \in old : (own[b] = own[b2] /\ pos[b] = pos[b2]) => b = b2
  BY DEF IsLayout, Apart
<1>8. \A b \in old : b # p => d[b].nextBlock # c
  <2> SUFFICES ASSUME NEW b \in old, b # p, d[b].nextBlock = c
               PROVE  FALSE
    OBVIOUS
  <2>1. own[c] = own[b] /\ pos[c] = pos[b] + 1
    BY <1>2, <1>3 DEF noBlockLink
  <2>2. pos[b] \in Nat /\ pos[p] \in Nat /\ p \in old
    BY <1>5
  <2>3. pos[b] = pos[p] /\ own[b] = own[p]
    BY <1>4, <2>1, <2>2
  <2> QED
    BY <1>7, <2>2, <2>3
<1>9. \A b \in Blocks : b # p => d2[b] = d[b]
  BY DEF OnlyAt
<1>10. /\ d2[p].blockID = d[p].blockID /\ d2[p].nextBlock = f
       /\ d[p].blockID = INODE_ID => d2[p].fileSize = d[p].fileSize
  OBVIOUS
<1>11. own2[f] = own[c] /\ pos2[f] = pos[c] /\ d2[f] = d[c]
  BY <1>1, <1>9
<1>12. \A b \in old : own2[b] = own[b] /\ pos2[b] = pos[b]
  BY <1>1, <1>5 DEF OnlyAt
<1>13. new = (old \ {c}) \cup {f}
  BY <1>1, <1>4, <1>6, <1>9, <1>10, <1>11 DEF placed, FREE_ID, FILE_EXTENT_ID
<1>14. \A t \in Slots : ix[t] # noBlockLink =>
         /\ ix[t] \in old /\ ix[t] # c /\ own[ix[t]] = t /\ pos[ix[t]] = 0
         /\ d[ix[t]].blockID = INODE_ID
  BY InodesPlaced DEF INODE_ID, FILE_EXTENT_ID
<1>15. \A t \in Slots : ix[t] # noBlockLink => extents(d2, ix, t) = extents(d, ix, t)
  <2> SUFFICES ASSUME NEW t \in Slots, ix[t] # noBlockLink
               PROVE  d2[ix[t]].fileSize = d[ix[t]].fileSize
    BY DEF extents
  <2>1. ix[t] \in Blocks /\ d[ix[t]].blockID = INODE_ID
    BY <1>1, <1>14
  <2> QED
    BY <1>9, <1>10, <2>1
<1>16. \A b \in old : /\ own[b] \in Slots /\ pos[b] \in 0..extents(d, ix, own[b])
                      /\ ix[own[b]] # noBlockLink
                      /\ (pos[b] = 0 <=> d[b].blockID = INODE_ID)
                      /\ pos[b] = 0 => ix[own[b]] = b
                      /\ pos[b] <= b
  BY DEF IsLayout, Placed
\* What placed a block before the step places the same block, or its copy, now.
<1>17. \A b \in new : \E b0 \in old :
         /\ own2[b] = own[b0] /\ pos2[b] = pos[b0]
         /\ d2[b].blockID = d[b0].blockID
         /\ (b0 # p => d2[b].nextBlock = d[b0].nextBlock)
         /\ (b0 = p => d2[b].nextBlock = f)
         /\ (b = b0 \/ (b = f /\ b0 = c))
  BY <1>1, <1>4, <1>6, <1>9, <1>10, <1>11, <1>12, <1>13
<1> HIDE DEF old, new
<1>18. Placed(d2, ix, own2, pos2, F \cup {c})
  <2> SUFFICES ASSUME NEW b \in new
               PROVE  /\ own2[b] \in Slots /\ pos2[b] \in 0..extents(d2, ix, own2[b])
                      /\ ix[own2[b]] # noBlockLink
                      /\ (pos2[b] = 0 <=> d2[b].blockID = INODE_ID)
                      /\ pos2[b] = 0 => ix[own2[b]] = b
                      /\ pos2[b] <= b
    BY DEF Placed, new
  <2>1. PICK b0 \in old : /\ own2[b] = own[b0] /\ pos2[b] = pos[b0]
                         /\ d2[b].blockID = d[b0].blockID
                         /\ (b = b0 \/ (b = f /\ b0 = c))
    BY <1>17
  <2>2. pos[c] \in Nat /\ pos[c] # 0 /\ pos[c] <= f
    <3>1. pos[p] \in Nat /\ f \in Nat
      BY <1>2, <1>5 DEF old
    <3> QED
      BY <1>4, <3>1
  <2> QED
    BY <1>15, <1>16, <2>1, <2>2
<1>19. Apart(d2, own2, pos2, F \cup {c})
  <2> SUFFICES ASSUME NEW b \in new, NEW b2 \in new, own2[b] = own2[b2], pos2[b] = pos2[b2]
               PROVE  b = b2
    BY DEF Apart, new
  <2>1. PICK b0 \in old : /\ own2[b] = own[b0] /\ pos2[b] = pos[b0]
                         /\ (b = b0 \/ (b = f /\ b0 = c))
    BY <1>17
  <2>2. PICK b1 \in old : /\ own2[b2] = own[b1] /\ pos2[b2] = pos[b1]
                         /\ (b2 = b1 \/ (b2 = f /\ b1 = c))
    BY <1>17
  <2>3. b0 = b1
    BY <1>7, <2>1, <2>2
  <2> QED
    BY <1>13, <2>1, <2>2, <2>3
<1>20. Rooted(d2, ix, own2, pos2, F \cup {c})
  BY <1>12, <1>13, <1>14 DEF Rooted, new
<1>21. Linked(d2, ix, own2, pos2, F \cup {c}, 0)
  <2> SUFFICES ASSUME NEW b \in new
               PROVE  IF pos2[b] = extents(d2, ix, own2[b])
                      THEN d2[b].nextBlock = noBlockLink
                      ELSE /\ d2[b].nextBlock \in new /\ own2[d2[b].nextBlock] = own2[b]
                           /\ pos2[d2[b].nextBlock] = pos2[b] + 1
    BY DEF Linked, new
  <2>1. PICK b0 \in old : /\ own2[b] = own[b0] /\ pos2[b] = pos[b0]
                         /\ (b0 # p => d2[b].nextBlock = d[b0].nextBlock)
                         /\ (b0 = p => d2[b].nextBlock = f)
    BY <1>17
  <2>2. extents(d2, ix, own2[b]) = extents(d, ix, own[b0])
    BY <1>15, <1>16, <2>1
  <2>3. CASE b0 = p
    <3>1. pos[p] # extents(d, ix, own[p])
      BY <1>2, <1>3, <2>3 DEF noBlockLink, old
    <3> QED
      BY <1>4, <1>11, <1>13, <2>1, <2>2, <2>3, <3>1
  <2>4. CASE b0 # p
    BY <1>3, <1>8, <1>12, <1>13, <2>1, <2>2, <2>4
  <2> QED
    BY <2>3, <2>4
<1> QED
  BY <1>4, <1>6, <1>13, <1>18, <1>19, <1>20, <1>21 DEF IsLayout, old, new

-----------------------------------------------------------------------------
(* Counting                                                                *)

\* A quotient is determined by the multiples of the divisor it lies between.
LEMMA Quotient ==
  ASSUME NEW a \in Nat, NEW m \in Nat \ {0}, NEW q \in Nat
  PROVE  /\ a \div m \in Nat
         /\ m * (a \div m) <= a /\ a < m * (a \div m) + m
         /\ (m * q <= a /\ a < m * q + m) => a \div m = q
<1>1. a \div m \in Nat /\ m * (a \div m) <= a /\ a < m * (a \div m) + m
  OBVIOUS
<1>2. ASSUME m * q <= a, a < m * q + m PROVE a \div m = q
  <2> DEFINE p == a \div m
  <2>1. p \in Nat /\ m * p <= a /\ a < m * p + m
    BY <1>1
  <2> HIDE DEF p
  <2>2. ~(p < q)
    <3> SUFFICES ASSUME p + 1 <= q PROVE FALSE
      BY <2>1
    <3>1. m * (p + 1) <= m * q
      BY <2>1
    <3>2. m * (p + 1) = m * p + m
      BY <2>1
    <3> QED
      BY <1>2, <2>1, <3>1, <3>2
  <2>3. ~(q < p)
    <3> SUFFICES ASSUME q + 1 <= p PROVE FALSE
      BY <2>1
    <3>1. m * (q + 1) <= m * p
      BY <2>1
    <3>2. m * (q + 1) = m * q + m
      BY <2>1
    <3> QED
      BY <1>2, <2>1, <3>1, <3>2
  <2> QED
    BY <2>1, <2>2, <2>3 DEF p
<1> QED
  BY <1>1, <1>2

\* The number of extents of a file, and what is left of it behind its first extent.
LEMMA BlocksFor ==
  /\ blocksFor(0) = 0
  /\ \A n \in Nat : /\ blocksFor(n) \in Nat
                    /\ n # 0 => blocksFor(n) # 0
                    /\ n # 0 /\ n <= DataPerBlock => blocksFor(n) = 1
                    /\ n > DataPerBlock => blocksFor(n) = blocksFor(n - DataPerBlock) + 1
<1> DEFINE m == DataPerBlock
<1>1. m \in Nat /\ m # 0
  BY DiskAssumption
<1>2. \A n \in Nat : n + m - 1 \in Nat /\ blocksFor(n) = (n + m - 1) \div m
  BY <1>1 DEF blocksFor
<1> HIDE DEF m
<1>3. blocksFor(0) = 0
  <2>1. (m * 0 <= m - 1 /\ m - 1 < m * 0 + m) => (m - 1) \div m = 0
    BY <1>1, Quotient, m - 1 \in Nat
  <2> QED
    BY <1>1, <1>2, <2>1
<1>4. ASSUME NEW n \in Nat
      PROVE  blocksFor(n) \in Nat /\ m * blocksFor(n) <= n + m - 1 /\ n + m - 1 < m * blocksFor(n) + m
  BY <1>1, <1>2, Quotient
<1>5. ASSUME NEW n \in Nat, n # 0
      PROVE  blocksFor(n) # 0
  <2> SUFFICES ASSUME blocksFor(n) = 0 PROVE FALSE
    OBVIOUS
  <2> QED
    BY <1>1, <1>4, <1>5
<1>6. ASSUME NEW n \in Nat, n # 0, n <= m
      PROVE  blocksFor(n) = 1
  <2>1. m * 1 <= n + m - 1 /\ n + m - 1 < m * 1 + m
    BY <1>1, <1>6
  <2> QED
    BY <1>1, <1>2, <2>1, Quotient
<1>7. ASSUME NEW n \in Nat, n > m
      PROVE  blocksFor(n) = blocksFor(n - m) + 1
  <2> DEFINE q == blocksFor(n - m)
  <2>1. n - m \in Nat
    BY <1>1, <1>7
  <2>2. q \in Nat /\ m * q <= n - m + m - 1 /\ n - m + m - 1 < m * q + m
    BY <1>4, <2>1
  <2> HIDE DEF q
  <2>3. m * (q + 1) = m * q + m /\ m * q \in Nat
    BY <1>1, <2>2
  <2>4. m * (q + 1) <= n + m - 1 /\ n + m - 1 < m * (q + 1) + m
    BY <1>1, <1>7, <2>2, <2>3
  <2>5. (n + m - 1) \div m = q + 1
    <3>1. n + m - 1 \in Nat /\ q + 1 \in Nat /\ m \in Nat \ {0}
      BY <1>1, <2>2
    <3> QED
      BY <2>4, <3>1, Quotient
  <2> QED
    BY <1>2, <2>5 DEF q
<1> QED
  BY <1>3, <1>4, <1>5, <1>6, <1>7 DEF m

-----------------------------------------------------------------------------
(* The chains of a disk with a layout                                      *)

follow(d, b) == IF b = noBlockLink THEN noBlockLink ELSE d[b].nextBlock

IsChain(d, start, f) ==
  f = [n \in 0..NumBlocks |-> IF n = 0 THEN start ELSE follow(d, f[n - 1])]

\* A chain is the one function that follows the links from its start.
LEMMA ChainIs ==
  ASSUME NEW d, NEW start, NEW f, IsChain(d, start, f)
  PROVE  chainOn(d, start) = f
<1> DEFINE Q(g) == g = [n \in 0..NumBlocks |->
                          IF n = 0 THEN start
                          ELSE LET before == g[n - 1]
                               IN IF before = noBlockLink THEN noBlockLink ELSE d[before].nextBlock]
           c == CHOOSE g : Q(g)
<1>1. Q(f)
  BY DEF follow, IsChain
<1>2. Q(c)
  <2> HIDE DEF Q
  <2> QED
    BY <1>1, Zenon
<1>3. chainOn(d, start) = c
  BY DEF chainOn
<1> HIDE DEF c
<1>4. IsChain(d, start, c)
  BY <1>2 DEF follow, IsChain
<1>5. \A n \in 0..NumBlocks : /\ c[n] = IF n = 0 THEN start ELSE follow(d, c[n - 1])
                             /\ f[n] = IF n = 0 THEN start ELSE follow(d, f[n - 1])
  BY <1>4 DEF IsChain
<1>6. \A n \in 0..NumBlocks : c[n] = f[n]
  <2> DEFINE bad == {n \in 0..NumBlocks : c[n] # f[n]}
  <2> SUFFICES ASSUME bad # {} PROVE FALSE
    OBVIOUS
  <2>1. bad \in SUBSET Nat
    BY DiskAssumption
  <2>2. PICK m \in bad : \A y \in bad : m <= y
    BY <2>1, MinOfNats
  <2>3. m \in 0..NumBlocks /\ c[m] # f[m] /\ m # 0
    BY <1>5, <2>2
  <2>4. m - 1 \in 0..NumBlocks /\ ~(m <= m - 1)
    BY <2>3, DiskAssumption
  <2>5. c[m - 1] = f[m - 1]
    BY <2>2, <2>4
  <2> QED
    BY <1>5, <2>3, <2>5
<1> QED
  BY <1>3, <1>4, <1>6 DEF IsChain

\* The chain of an unused slot.
LEMMA ChainOfNothing ==
  ASSUME NEW d, NEW n \in 0..NumBlocks
  PROVE  chainOn(d, noBlockLink)[n] = noBlockLink
<1> DEFINE f == [m \in 0..NumBlocks |-> noBlockLink]
<1>1. IsChain(d, noBlockLink, f)
  <2>1. \A m \in 0..NumBlocks : m # 0 => m - 1 \in 0..NumBlocks
    BY DiskAssumption
  <2> QED
    BY <2>1 DEF follow, IsChain
<1> HIDE DEF f
<1>2. chainOn(d, noBlockLink) = f
  BY <1>1, ChainIs
<1> QED
  BY <1>2 DEF f

\* The number of extents of a file is a natural number.
LEMMA ExtentsNat ==
  ASSUME NEW d \in [Blocks -> Block], NEW ix, NEW own, NEW pos, NEW F, NEW tail,
         IsLayout(d, ix, own, pos, F, tail),
         NEW s \in Slots, ix[s] # noBlockLink
  PROVE  d[ix[s]].fileSize \in Nat /\ extents(d, ix, s) \in Nat
<1>1. ix[s] \in Blocks /\ d[ix[s]].blockID = INODE_ID
  BY InodesPlaced DEF placed
<1>2. d[ix[s]].fileSize \in Nat
  BY <1>1, BlockFields
<1> QED
  BY <1>2, BlocksFor DEF extents

\* A file without a tail has a block at each of its places.
LEMMA PlacesFilled ==
  ASSUME NEW d \in [Blocks -> Block], NEW ix \in [Slots -> BlockLink],
         NEW own \in [Blocks -> Slots], NEW pos \in [Blocks -> Nat], NEW F, NEW tail,
         IsLayout(d, ix, own, pos, F, tail),
         NEW s \in Slots, ix[s] # noBlockLink,
         \A b \in placed(d, F) : own[b] = s => b # tail,
         NEW n \in 0..extents(d, ix, s)
  PROVE  \E b \in placed(d, F) : own[b] = s /\ pos[b] = n
<1> DEFINE K == extents(d, ix, s)
           at(m) == \E b \in placed(d, F) : own[b] = s /\ pos[b] = m
           bad == {m \in Nat : m <= K /\ ~at(m)}
<1>1. K \in Nat
  BY ExtentsNat
<1> SUFFICES ASSUME bad # {} PROVE FALSE
  BY <1>1
<1>2. PICK m \in bad : \A y \in bad : m <= y
  BY MinOfNats
<1>3. m \in Nat /\ m <= K /\ ~at(m)
  BY <1>2
<1>4. m # 0
  BY <1>3, InodesPlaced
<1>5. m - 1 \in Nat /\ m - 1 \notin bad
  BY <1>2, <1>3, <1>4
<1>6. PICK b \in placed(d, F) : own[b] = s /\ pos[b] = m - 1
  BY <1>1, <1>3, <1>5
<1> HIDE DEF K
<1>7. LET next == d[b].nextBlock
      IN IF pos[b] = K THEN next = noBlockLink
         ELSE next \in placed(d, F) /\ own[next] = s /\ pos[next] = pos[b] + 1
  BY <1>6 DEF IsLayout, Linked, K
<1> QED
  BY <1>1, <1>3, <1>4, <1>6, <1>7

\* The chain of a file without a tail goes through its places in order.
LEMMA ChainOfFile ==
  ASSUME NEW d \in [Blocks -> Block], NEW ix \in [Slots -> BlockLink],
         NEW own \in [Blocks -> Slots], NEW pos \in [Blocks -> Nat], NEW F, NEW tail,
         IsLayout(d, ix, own, pos, F, tail),
         NEW s \in Slots, ix[s] # noBlockLink,
         \A b \in placed(d, F) : own[b] = s => b # tail
  PROVE  LET link == chainOn(d, ix[s])
         IN /\ extents(d, ix, s) < NumBlocks
            /\ \A n \in 0..NumBlocks :
                 IF n <= extents(d, ix, s)
                 THEN link[n] \in placed(d, F) /\ own[link[n]] = s /\ pos[link[n]] = n
                 ELSE link[n] = noBlockLink
<1> DEFINE K == extents(d, ix, s)
           at(n) == CHOOSE b \in placed(d, F) : own[b] = s /\ pos[b] = n
           f == [n \in 0..NumBlocks |-> IF n <= K THEN at(n) ELSE noBlockLink]
<1>1. K \in Nat
  BY ExtentsNat
<1>2. \A n \in 0..K : at(n) \in placed(d, F) /\ own[at(n)] = s /\ pos[at(n)] = n
  BY PlacesFilled
<1>3. at(0) = ix[s]
  <2>1. ix[s] \in placed(d, F) /\ own[ix[s]] = s /\ pos[ix[s]] = 0
    BY InodesPlaced
  <2>2. 0 \in 0..K
    BY <1>1
  <2> HIDE DEF at
  <2> QED
    BY <1>2, <2>1, <2>2 DEF IsLayout, Apart
<1>4. K < NumBlocks
  <2>1. K \in 0..K
    BY <1>1
  <2>2. PICK b \in placed(d, F) : own[b] = s /\ pos[b] = K
    BY <1>2, <2>1
  <2>3. K <= b /\ b \in Blocks
    BY <2>2 DEF IsLayout, Placed, placed
  <2> QED
    BY <1>1, <2>3, DiskAssumption DEF Blocks
<1> HIDE DEF at
<1>5. \A n \in 0..K : at(n) # noBlockLink
  BY <1>2, DiskAssumption DEF placed, Blocks, noBlockLink
<1>6. ASSUME NEW n \in 0..K, n # K
      PROVE  d[at(n)].nextBlock = at(n + 1)
  <2>1. n \in Nat /\ n + 1 \in 0..K
    BY <1>1, <1>6
  <2>2. at(n) \in placed(d, F) \ {tail} /\ own[at(n)] = s /\ pos[at(n)] = n
    BY <1>2
  <2>3. LET next == d[at(n)].nextBlock
        IN next \in placed(d, F) /\ own[next] = s /\ pos[next] = n + 1
    BY <1>6, <2>2 DEF IsLayout, Linked
  <2>4. at(n + 1) \in placed(d, F) /\ own[at(n + 1)] = s /\ pos[at(n + 1)] = n + 1
    BY <1>2, <2>1
  <2> QED
    BY <2>3, <2>4 DEF IsLayout, Apart
<1>7. d[at(K)].nextBlock = noBlockLink
  <2>1. at(K) \in placed(d, F) \ {tail} /\ own[at(K)] = s /\ pos[at(K)] = K
    BY <1>1, <1>2
  <2> QED
    BY <2>1 DEF IsLayout, Linked
<1>8. IsChain(d, ix[s], f)
  <2> SUFFICES ASSUME NEW n \in 0..NumBlocks
               PROVE  f[n] = IF n = 0 THEN ix[s] ELSE follow(d, f[n - 1])
    BY DEF IsChain
  <2> HIDE DEF K
  <2>1. CASE n = 0
    BY <1>1, <1>3, <2>1
  <2>2. CASE n # 0
    <3>1. n - 1 \in 0..NumBlocks /\ n - 1 \in Nat /\ n \in Nat
      BY <2>2, DiskAssumption
    <3>2. f[n - 1] = IF n - 1 <= K THEN at(n - 1) ELSE noBlockLink
      BY <3>1
    <3>3. CASE n <= K
      <4>1. n - 1 \in 0..K /\ n - 1 # K /\ (n - 1) + 1 = n
        BY <1>1, <3>1, <3>3
      <4>2. d[at(n - 1)].nextBlock = at(n) /\ at(n - 1) # noBlockLink
        BY <1>5, <1>6, <4>1
      <4> QED
        BY <1>1, <2>2, <3>1, <3>2, <3>3, <4>2 DEF follow
    <3>4. CASE n = K + 1
      <4>1. n - 1 = K /\ ~(n <= K)
        BY <1>1, <3>1, <3>4
      <4> QED
        BY <1>1, <1>7, <2>2, <3>2, <4>1 DEF follow
    <3>5. CASE n > K + 1
      <4>1. ~(n - 1 <= K) /\ ~(n <= K)
        BY <1>1, <3>1, <3>5
      <4> QED
        BY <2>2, <3>2, <4>1 DEF follow
    <3> QED
      BY <1>1, <3>1, <3>3, <3>4, <3>5
  <2> QED
    BY <2>1, <2>2
<1> HIDE DEF f
<1>9. chainOn(d, ix[s]) = f
  BY <1>8, ChainIs
<1>10. \A n \in 0..NumBlocks : IF n <= K THEN f[n] = at(n) /\ n \in 0..K ELSE f[n] = noBlockLink
  BY <1>1 DEF f
<1> QED
  BY <1>2, <1>4, <1>9, <1>10

-----------------------------------------------------------------------------
(* The files of a disk with a layout                                       *)

\* The blocks of a file without a tail are those the layout places in it.
LEMMA BlocksOfFile ==
  ASSUME disk \in [Blocks -> Block], inodeIndices \in [Slots -> BlockLink],
         NEW own \in [Blocks -> Slots], NEW pos \in [Blocks -> Nat], NEW F, NEW tail,
         IsLayout(disk, inodeIndices, own, pos, F, tail),
         NEW s \in usedSlots,
         \A b \in placed(disk, F) : own[b] = s => b # tail
  PROVE  fileBlocks(s) = {b \in placed(disk, F) : own[b] = s}
<1> DEFINE link == chainOn(disk, inodeIndices[s])
           K    == extents(disk, inodeIndices, s)
<1>1. s \in Slots /\ inodeIndices[s] # noBlockLink
  BY DEF usedSlots
<1>2. /\ K < NumBlocks
      /\ \A n \in 0..NumBlocks :
           IF n <= K
           THEN link[n] \in placed(disk, F) /\ own[link[n]] = s /\ pos[link[n]] = n
           ELSE link[n] = noBlockLink
  BY <1>1, ChainOfFile
<1>3. K \in Nat
  BY <1>1, ExtentsNat
<1>4. fileBlocks(s) = {link[n] : n \in 0..NumBlocks} \ {noBlockLink}
  BY DEF fileBlocks, chainBlocks, chain
<1> HIDE DEF link, K
<1>5. \A b \in placed(disk, F) : b # noBlockLink
  BY DiskAssumption DEF placed, Blocks, noBlockLink
<1>6. ASSUME NEW b \in fileBlocks(s)
      PROVE  b \in placed(disk, F) /\ own[b] = s
  BY <1>2, <1>4
<1>7. ASSUME NEW b \in placed(disk, F), own[b] = s
      PROVE  b \in fileBlocks(s)
  <2>1. pos[b] \in 0..K
    BY <1>7 DEF IsLayout, Placed, K
  <2>2. pos[b] \in 0..NumBlocks /\ pos[b] <= K
    BY <1>2, <1>3, <2>1, DiskAssumption
  <2>3. link[pos[b]] = b
    BY <1>2, <1>7, <2>2 DEF IsLayout, Apart
  <2> QED
    BY <1>4, <1>5, <2>2, <2>3
<1> QED
  BY <1>6, <1>7

\* A layout without a tail is a partition of the blocks in use that do not float.
LEMMA LayoutPartitions ==
  ASSUME disk \in [Blocks -> Block], inodeIndices \in [Slots -> BlockLink],
         NEW own \in [Blocks -> Slots], NEW pos \in [Blocks -> Nat], NEW F,
         IsLayout(disk, inodeIndices, own, pos, F, 0)
  PROVE  /\ \A b \in Blocks \ (freeBlocks \cup F) : \E s \in usedSlots : b \in fileBlocks(s)
         /\ \A s \in usedSlots : fileBlocks(s) \cap freeBlocks = {}
         /\ \A s, t \in usedSlots : s # t => fileBlocks(s) \cap fileBlocks(t) = {}
<1>1. \A b \in placed(disk, F) : b # 0
  BY DiskAssumption DEF placed, Blocks
<1>2. \A s \in usedSlots : fileBlocks(s) = {b \in placed(disk, F) : own[b] = s}
  BY <1>1, BlocksOfFile
<1>3. placed(disk, F) = Blocks \ (freeBlocks \cup F)
  BY DEF placed, freeBlocks
<1>4. \A b \in placed(disk, F) : own[b] \in usedSlots
  BY DEF IsLayout, Placed, usedSlots
<1>5. \A b \in Blocks \ (freeBlocks \cup F) : \E s \in usedSlots : b \in fileBlocks(s)
  BY <1>2, <1>3, <1>4
<1>6. \A s \in usedSlots : fileBlocks(s) \cap freeBlocks = {}
  BY <1>2, <1>3
<1>7. \A s, t \in usedSlots : s # t => fileBlocks(s) \cap fileBlocks(t) = {}
  BY <1>2
<1> QED
  BY <1>5, <1>6, <1>7

\* A file has as many extents as its size calls for.
LEMMA LayoutMatchesSizes ==
  ASSUME disk \in [Blocks -> Block], inodeIndices \in [Slots -> BlockLink],
         NEW own \in [Blocks -> Slots], NEW pos \in [Blocks -> Nat], NEW F,
         IsLayout(disk, inodeIndices, own, pos, F, 0),
         NEW s \in usedSlots
  PROVE  LET ext == fileBlocks(s) \ {inodeIndices[s]}
         IN /\ isFile(s)
            /\ Cardinality(ext) = blocksFor(inodeOf(s).fileSize)
            /\ \A b \in ext : disk[b].blockID = FILE_EXTENT_ID
<1> DEFINE K   == extents(disk, inodeIndices, s)
           ext == fileBlocks(s) \ {inodeIndices[s]}
           num == [b \in ext |-> pos[b]]
           old == placed(disk, F)
<1>1. s \in Slots /\ inodeIndices[s] # noBlockLink
  BY DEF usedSlots
<1>2. isFile(s)
  BY <1>1, InodesPlaced DEF isFile, inodeOf
<1>3. \A b \in old : b # 0 /\ b \in Blocks
  BY DiskAssumption DEF placed, Blocks
<1>4. fileBlocks(s) = {b \in old : own[b] = s}
  BY <1>3, BlocksOfFile
<1>5. \A b \in old : /\ pos[b] \in 0..extents(disk, inodeIndices, own[b])
                     /\ (pos[b] = 0 <=> disk[b].blockID = INODE_ID)
                     /\ pos[b] = 0 => inodeIndices[own[b]] = b
  BY DEF IsLayout, Placed
<1>6. inodeIndices[s] \in old /\ own[inodeIndices[s]] = s /\ pos[inodeIndices[s]] = 0
  BY <1>1, InodesPlaced
<1>7. K \in Nat
  BY <1>1, ExtentsNat
<1>8. \A b, c \in old : (own[b] = own[c] /\ pos[b] = pos[c]) => b = c
  BY DEF IsLayout, Apart
<1>9. \A n \in 0..K : \E b \in old : own[b] = s /\ pos[b] = n
  BY <1>1, <1>3, PlacesFilled
<1> HIDE DEF old
<1>10. \A b \in ext : b \in old /\ own[b] = s /\ b # inodeIndices[s]
  BY <1>4
<1>11. \A b \in old : (own[b] = s /\ b # inodeIndices[s]) => b \in ext
  BY <1>4
<1> HIDE DEF K, ext
<1>12. \A b \in ext : pos[b] \in 1..K
  <2> SUFFICES ASSUME NEW b \in ext PROVE pos[b] \in 1..K
    OBVIOUS
  <2>1. pos[b] \in 0..K
    BY <1>5, <1>10 DEF K
  <2>2. pos[b] # 0
    BY <1>5, <1>10
  <2> QED
    BY <1>7, <2>1, <2>2
<1>13. num \in Bijection(ext, 1..K)
  <2>1. num \in [ext -> 1..K]
    BY <1>12
  <2>2. \A b, c \in ext : num[b] = num[c] => b = c
    BY <1>8, <1>10
  <2>3. \A n \in 1..K : \E b \in ext : num[b] = n
    <3> SUFFICES ASSUME NEW n \in 1..K PROVE \E b \in ext : num[b] = n
      OBVIOUS
    <3>1. n \in 0..K /\ n # 0
      BY <1>7
    <3>2. PICK b \in old : own[b] = s /\ pos[b] = n
      BY <1>9, <3>1
    <3> QED
      BY <1>6, <1>11, <3>1, <3>2
  <2> QED
    BY <2>1, <2>2, <2>3 DEF Bijection, Injection, Surjection, IsInjective
<1>14. Cardinality(ext) = K
  <2>1. num \in Injection(ext, 1..K) /\ num \in Surjection(ext, 1..K)
    BY <1>13 DEF Bijection
  <2>2. IsFiniteSet(1..K) /\ Cardinality(1..K) = K
    BY <1>7, FS_Interval
  <2> QED
    BY <2>1, <2>2, FS_Injection
<1>15. \A b \in ext : disk[b].blockID = FILE_EXTENT_ID
  <2> SUFFICES ASSUME NEW b \in ext PROVE disk[b].blockID = FILE_EXTENT_ID
    OBVIOUS
  <2>1. b \in Blocks /\ disk[b].blockID # FREE_ID /\ disk[b].blockID # INODE_ID
    BY <1>5, <1>10, <1>12 DEF old, placed
  <2> QED
    BY <2>1, BlockFields
<1> QED
  BY <1>2, <1>14, <1>15 DEF K, ext, extents, inodeOf

\* The tail is not a block of the file in slot s.
Complete(d, own, F, tail, s) == \A b \in placed(d, F) : own[b] = s => b # tail

\* Two disks hold the same data at each place of the file in slot s.
SameData(d, own, pos, F, d2, own2, pos2, F2, s) ==
  \A b \in placed(d, F), c \in placed(d2, F2) :
    (own[b] = s /\ own2[c] = s /\ pos[b] # 0 /\ pos[b] = pos2[c]) => d2[c].data = d[b].data

\* A step leaves a file as it is, wherever it puts the file's blocks, if the inode
\* keeps name, mode and size and the blocks at the same place hold the same data.
LEMMA SameFile ==
  ASSUME disk \in [Blocks -> Block], inodeIndices \in [Slots -> BlockLink],
         disk' \in [Blocks -> Block], inodeIndices' \in [Slots -> BlockLink],
         NEW CONSTANT own \in [Blocks -> Slots], NEW CONSTANT pos \in [Blocks -> Nat],
         NEW CONSTANT own2 \in [Blocks -> Slots], NEW CONSTANT pos2 \in [Blocks -> Nat],
         NEW CONSTANT F, NEW CONSTANT F2, NEW CONSTANT tail, NEW CONSTANT tail2,
         IsLayout(disk, inodeIndices, own, pos, F, tail),
         IsLayout(disk', inodeIndices', own2, pos2, F2, tail2),
         NEW CONSTANT s \in Slots,
         inodeIndices[s] # noBlockLink, inodeIndices'[s] # noBlockLink,
         Complete(disk, own, F, tail, s), Complete(disk', own2, F2, tail2, s),
         disk'[inodeIndices'[s]].fileName = disk[inodeIndices[s]].fileName,
         disk'[inodeIndices'[s]].fileSize = disk[inodeIndices[s]].fileSize,
         disk'[inodeIndices'[s]].readMode = disk[inodeIndices[s]].readMode,
         SameData(disk, own, pos, F, disk', own2, pos2, F2, s)
  PROVE  fileIn(s)' = fileIn(s)
<1> DEFINE link  == chainOn(disk, inodeIndices[s])
           link2 == chainOn(disk', inodeIndices'[s])
           K     == extents(disk, inodeIndices, s)
           size  == disk[inodeIndices[s]].fileSize
           extent(i) == (i \div DataPerBlock) + 1
           byte(i)  == IF extent(i) <= NumBlocks THEN byteAt(link[extent(i)], i) ELSE -1
           byte2(i) == IF extent(i) <= NumBlocks
                       THEN IF link2[extent(i)] # noBlockLink /\ disk'[link2[extent(i)]].blockID = FILE_EXTENT_ID
                            THEN disk'[link2[extent(i)]].data[i % DataPerBlock]
                            ELSE -1
                       ELSE -1
<1>1. isFile(s) /\ isFile(s)'
  <2>1. isFile(s)
    BY InodesPlaced DEF isFile, inodeOf, usedSlots
  <2>2. disk'[inodeIndices'[s]].blockID = INODE_ID
    BY InodesPlaced
  <2> QED
    BY <2>1, <2>2 DEF isFile, inodeOf, usedSlots
<1>2. extents(disk', inodeIndices', s) = K /\ K \in Nat /\ size \in Nat
  BY ExtentsNat DEF extents
<1>3. \A n \in 0..NumBlocks :
        IF n <= K
        THEN link[n] \in placed(disk, F) /\ own[link[n]] = s /\ pos[link[n]] = n
        ELSE link[n] = noBlockLink
  BY ChainOfFile DEF Complete
<1>4. \A n \in 0..NumBlocks :
        IF n <= K
        THEN link2[n] \in placed(disk', F2) /\ own2[link2[n]] = s /\ pos2[link2[n]] = n
        ELSE link2[n] = noBlockLink
  BY <1>2, ChainOfFile DEF Complete
<1>5. \A b \in placed(disk, F) : pos[b] # 0 => b # noBlockLink /\ disk[b].blockID = FILE_EXTENT_ID
  <2> SUFFICES ASSUME NEW b \in placed(disk, F), pos[b] # 0
               PROVE  b # noBlockLink /\ disk[b].blockID = FILE_EXTENT_ID
    OBVIOUS
  <2>1. b \in Blocks /\ disk[b].blockID # FREE_ID /\ disk[b].blockID # INODE_ID
    BY DEF IsLayout, Placed, placed
  <2> QED
    BY <2>1, BlockFields, DiskAssumption DEF Blocks, noBlockLink
<1>6. \A b \in placed(disk', F2) : pos2[b] # 0 => b # noBlockLink /\ disk'[b].blockID = FILE_EXTENT_ID
  <2> SUFFICES ASSUME NEW b \in placed(disk', F2), pos2[b] # 0
               PROVE  b # noBlockLink /\ disk'[b].blockID = FILE_EXTENT_ID
    OBVIOUS
  <2>1. b \in Blocks /\ disk'[b].blockID # FREE_ID /\ disk'[b].blockID # INODE_ID
    BY DEF IsLayout, Placed, placed
  <2> QED
    BY <2>1, BlockFields, DiskAssumption DEF Blocks, noBlockLink
<1> HIDE DEF link, link2, K
<1>7. ASSUME NEW CONSTANT i \in 0..(size - 1)
      PROVE  byte(i) = byte2(i)
  <2> DEFINE n == extent(i)
  <2>1. n \in Nat /\ n # 0
    <3>1. i \in Nat /\ DataPerBlock \in Nat \ {0}
      BY <1>2, DiskAssumption
    <3>2. i \div DataPerBlock \in Nat
      BY <3>1
    <3> QED
      BY <3>2
  <2> HIDE DEF n
  <2>2. CASE ~(n <= NumBlocks)
    BY <2>2 DEF n
  <2>3. CASE n <= NumBlocks /\ n <= K
    <3>1. n \in 0..NumBlocks
      BY <2>1, <2>3, DiskAssumption
    <3>2. /\ link[n] \in placed(disk, F) /\ own[link[n]] = s /\ pos[link[n]] = n
          /\ link2[n] \in placed(disk', F2) /\ own2[link2[n]] = s /\ pos2[link2[n]] = n
      BY <1>3, <1>4, <2>3, <3>1
    <3>3. /\ link[n] # noBlockLink /\ disk[link[n]].blockID = FILE_EXTENT_ID
          /\ link2[n] # noBlockLink /\ disk'[link2[n]].blockID = FILE_EXTENT_ID
          /\ disk'[link2[n]].data = disk[link[n]].data
      BY <1>5, <1>6, <2>1, <3>2 DEF SameData
    <3> QED
      BY <2>3, <3>3 DEF n, byteAt
  <2>4. CASE n <= NumBlocks /\ ~(n <= K)
    <3>1. n \in 0..NumBlocks
      BY <2>1, <2>4, DiskAssumption
    <3>2. link[n] = noBlockLink /\ link2[n] = noBlockLink
      BY <1>3, <1>4, <2>4, <3>1
    <3> QED
      BY <2>4, <3>2 DEF n, byteAt
  <2> QED
    BY <2>2, <2>3, <2>4
<1>8. fileIn(s) = [fileName |-> disk[inodeIndices[s]].fileName,
                   readMode |-> disk[inodeIndices[s]].readMode,
                   bytes    |-> [i \in 0..(size - 1) |-> byte(i)]]
  BY <1>1 DEF fileIn, inodeOf, chain, link
<1>9. fileIn(s)' = [fileName |-> disk'[inodeIndices'[s]].fileName,
                    readMode |-> disk'[inodeIndices'[s]].readMode,
                    bytes    |-> [i \in 0..(disk'[inodeIndices'[s]].fileSize - 1) |-> byte2(i)]]
  BY <1>1 DEF fileIn, inodeOf, chain, link2, byteAt
<1>10. [i \in 0..(size - 1) |-> byte(i)] = [i \in 0..(disk'[inodeIndices'[s]].fileSize - 1) |-> byte2(i)]
  <2> HIDE DEF byte, byte2
  <2> QED
    BY <1>7
<1> QED
  BY <1>8, <1>9, <1>10

=============================================================================
