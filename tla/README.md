# A formal model of TinyFS

TinyFS is a small file system in C, kept in one file of the host (the *disk*) that is read and written in blocks of
256 bytes. This directory holds a TLA+ model of it, the TLC runs that check the model on small disks, and theorems
about it that TLAPS checks for disks of every size. The code is in `src/`.

## 1. Inventory

### Components

| Component | Files | State | Operations |
|---|---|---|---|
| disk emulator | `libDisk.c`, `diskList.c` | the disk files that are open, with their sizes | open, close, read and write one block |
| checked access | `safeDiskUtil.c` | none | `safeReadBlock`, `safeWriteBlock`: block number against the super block, type, magic number |
| block formats | `tinyFSStructs.h`, `tinyFS.h` | on disk: super block (links to inodes), inodes, file extents, free blocks | |
| helpers | `tinyFSHelper.c` | none | search for a free block, search for a name, create, update and remove an inode, erase a chain |
| open list | `tinyFSOpenList.c` | linked list of open files with cached slot, first block, size, name, and a file pointer; the next descriptor | add, search by name, search by descriptor, remove, reset |
| file calls | `tinyFS.c` | the descriptor of the mounted disk | `tfs_mkfs`, `mount`, `unmount`, `openFile`, `closeFile`, `writeFile`, `deleteFile`, `readByte`, `seek` |
| add-ons | `tinyFSExtraFeatures.c` | none | `displayFragments`, `defrag`, `rename`, `readdir`, `makeRO`, `makeRW`, `writeByte`, `readFileInfo` |
| test program | `testDisk.c` | | a demonstration that prints what it does |

The calls reach the disk through the checked access, with two exceptions: `checkPermission` and `changePermissions` read
and write blocks unchecked. Every call reads the super block afresh, so nothing of the disk is cached but what the open
list holds. The add-ons use the helpers and the open list; `changePermissions` calls `tfs_openFile` and
`tfs_closeFile` for a file that is not open.

### What is hard about it

The program is sequential and there is one mount at a time. What is hard is that

- **a call makes several block writes**, in an order that has to keep every file readable (defragmentation), and
  may end between two of them: it runs out of blocks, an access fails, the process dies;
- **the open list is a cache** of what is on disk, and every operation that moves or frees blocks has to keep it right;
- **nothing records which file a block belongs to**: a wrong link is not noticed where it is made, but many calls later,
  when the chain is erased, read or moved;
- **the loops follow links** until they read 0, so that whether a call returns depends on the shape of the data;
- **limits**: the full disk, the last block, the last byte of a file, the largest disk, names that are cut;
- **two views of the open disks**, the list of `diskList.c` and the descriptors of the host, which are handed out again
  after a close, and two views of a disk's size, the length of its file and the number in its super block.

For each component, what makes it correct: the *search for a free block* finds one if there is one and never one that is
in use; the *open list* agrees with the disk and gives a descriptor to one file only; a *write or deletion* changes no
other file, and leaves the blocks partitioned among files and free space; *defragmentation* changes no file at any
of its steps and leaves the free blocks at the end; *every call returns*; the *list of open disks* matches the host; a
*formatted disk* can be used in full and holds nothing of what was there before.

## 2. Modules

```
TinyFSStructs        blocks, limits, error codes, names and buffers     tinyFSStructs.h, tinyFS.h, tinyFS_errno.h
  TinyFSHelper       variables, checked reads, searches, open list      safeDiskUtil.c, tinyFSHelper.c, tinyFSOpenList.c
    TinyFSCalls      the file calls, one block write per action         tinyFS.c, tinyFSHelper.c
      TinyFSExtraFeatures   the add-ons, one block write per action     tinyFSExtraFeatures.c
        TinyFS       Init, Next, Spec, fairness, TypeOK                 tinyFS.h
          TinyFSProperties  files as clients know them, and the properties
            Clients         clients that keep to rules, or do not
              Refinement    the careful client's TinyFS as an instance of FileStore
                MCClients   values of the constants for TLC
              Layout        where the blocks of the files lie: the careful client's invariant
                Layout_proofs       layouts, links and chains
                  Clients_proofs    theorems about the careful client
                    Refinement_proofs   that it sees what FileStore promises
              TinyFSFaults  the process dies, block accesses fail       error paths of all of these
                MCFaults    values of the constants for TLC
                TornLayout  where the blocks lie after faults: lost blocks, a torn file
                  TinyFSFaults_proofs   theorems about the careful client with faults
            TinyFS_proofs   theorems about TinyFS for all values of the constants
  FileStore          what the careful client is promised: named byte sequences, descriptors, a capacity

LibDisk              disk files, their descriptors, the list of them    libDisk.c, diskList.c
  TinyFSDisks        tfs_mkfs, tfs_mount, tfs_unmount, checked access   tinyFS.c, safeDiskUtil.c
    MCDisks          values of the constants for TLC
    TinyFSDisks_proofs      the list of open disks
      TinyFSMkfs_proofs     what tfs_mkfs leaves, and what can be read of it

MinMax_proofs        least and greatest elements of sets of numbers
```

The two stacks meet at the checked access. `TinyFSDisks` knows of a block no more than its header and asks which
accesses succeed; `TinyFSHelper` starts from the answer, `MountedDiskReady`: on a disk that `tfs_mkfs` made, accesses to
the blocks the super block counts succeed, and no others do.

### State

| Variable | In the code |
|---|---|
| `disk` | every block but the super block, a record whose `blockID` says which struct it is |
| `inodeIndices` | the super block's array of links |
| `mounted` | `mountedDiskFD >= 0` |
| `openFiles`, `currentFD` | `openFDList`: the entries by descriptor, and the next descriptor. New entries go to the head of the list, so its order is that of falling descriptors |
| `call` | the API call in progress: `op`, the point `pc` it has reached, and its locals |
| `ret` | what the last call returned |

In `LibDisk` and `TinyFSDisks`:

| Variable | In the code |
|---|---|
| `hostFiles` | the disk files: their blocks, and whether bytes are left over behind the last one (`ragged`) |
| `hostFDs` | the process's open descriptors, and the file behind each; `open` takes the lowest one that is not in use |
| `openDisks` | `openFDs` of `libDisk.c`: capacity and array |
| `mountedDiskFD` | `mountedDiskFD` |
| `format` | the locals of a `tfs_mkfs` in progress |
| `formatted`, `replaced` | history for the properties: the files whose last `tfs_mkfs` returned 0, and the descriptors whose file was truncated since they were opened |

### Actions

An action makes **at most one block write**. An action with the name of a `tfs_` function runs that call from its
entry to its first block write, or to its return. The actions listed in `Continue` carry it on. While a call is in
progress (`~idle`) no other call starts.

| Call | Actions |
|---|---|
| `tfs_openFile` | `OpenFile` (inode block), `LinkInode` (super block, open list) |
| `tfs_writeFile` | `WriteFile`, `EraseBlock` for each old block, `UpdateInode`, `WriteBlock` for each new block |
| `tfs_deleteFile` | `DeleteFile`, `EraseBlock` for each block, `RemoveInode` (super block), `FreeInode` (inode block, open list) |
| `tfs_defrag` | `Defrag`, `DefragInode`, `SwapInodeLink`, `FreeOldInode` for each inode, `IterateFEs`, `SwapExtentLink`, `FreeOldExtent` for each extent |
| `tfs_displayFragments` | `DisplayFragments`, `DisplayBlock` for each block |
| `tfs_mkfs` (`TinyFSDisks`) | `Mkfs` (the file is made or emptied), `FormatBlock` for each block, `FormatFails`, `FormatDone` |
| all others | one action |

Every action has a disjunct for each error return, in the order the code tests them. `ret.code` is what the call
returns.

What is abstracted: the timestamps, the magic number and the padding byte; the text of names (a name is a sequence that
`formatName` cuts at `MaxFileNameLength`); printing; the pointer structure of the open list. Sizes are those of the
constants: `DataPerBlock` bytes per extent instead of 252, and so on. What an uninitialized local holds is a choice
between the values the program distinguishes (`UpdateInode`).

Byte 40 of a block is the permission of an inode. The unchecked accesses find it in other kinds of blocks too: as file
data in an extent (`readModeData`), as padding in a free block, as a link in the super block (`readModeLink`).

### Clients

`TinyFS!Spec` makes any sequence of calls with any arguments. That client can corrupt the disk: the code relies
on rules it does not check. `Clients` states the rules as five *habits* and lets a run say which of them its client has:

| Habit | What the client does | What it leads to |
|---|---|---|
| `emptyWrite` | writes a buffer of length 0 | run `empty_write` |
| `overflow` | writes a buffer that does not fit | run `overflow` |
| `defragOpen` | defragments while files are open | run `defrag_open` |
| `reuseName` | renames a file to a name in use | two files with one name (section 5) |
| `formatMounted` | formats the disk file that is mounted | descriptors of files that are gone |

With no habit it is the careful client; with all five, as in run `any_client`, its steps are those of `TinyFS!Next`.

`FormatMounted` is `tfs_mkfs` on the disk file that is mounted, with the size it has: the disk is new, and the open list is
what it was. It is one action, because no call of TinyFS runs between two writes of `tfs_mkfs`; the writes one by one, other
sizes, and a `tfs_mkfs` that is cut off are in `TinyFSDisks`. Formatting a disk that is not mounted leads back to `Init`.

### What the careful client is promised

`FileStore` has no blocks, slots or links: files by name, each with a permission and a sequence of bytes; descriptors,
each with a name and a position; what is left of the disk is its capacity in blocks, because `ENOSPC` is part of the
promise. A write or a deletion is not one step there either, since the old bytes are gone before the new ones are
complete; `running` is the call in progress and the buffer it still has to store.

`Refinement` maps TinyFS to it. `files` are the inodes the slots lead to, each with the bytes of its chain, cut at its
size; `open` is the open list without what it caches; `running.buffer` is what is left of the buffer behind what is on
the disk by now. Blocks that move in a defragmentation, and slots that are reused, are stutters. `ImplementsFileStore`
says that every step of TinyFS is a step of `FileStore` or a stutter. After a write the permission is any of the two
(run `write_resets_mode`), so that is what `FileStore` promises.

### Faults

`TinyFSFaults` adds two steps to those of the careful client. `Restart` is a process that died at one of `CrashPoints`:
the disk is as it was, and everything else as in a new process. `AccessFails` is a block access, read or write, that
fails without effect at one of `FailPoints`, followed by the error path of the call: `CallFails` before the first write
of a call, with `EIO` or, where the code returns something else, that (`CheckPermissionFails` hands on the -1 of
`readBlock`, which is `ENOSPC`; `DefragSearchFails` goes on to the first file with an error code for a free block),
`ChangePermissionsFails` (which leaves its descriptor open), `StepFails` in the middle of `createInode`,
`eraseFileData`, `updateInode`, `tfs_writeFile`, `removeInode` and `swapInode`, `IterateFEsFails` for the error that
`tfs_defrag_a` ignores, `DisplayFails`, and `FindFreeBlockFails` for the search behind the last write of a swap.

A fault in the middle of a write or a deletion leaves the file *torn*: the directory may promise more bytes than there
are, and the open list may name blocks that are free. The client is told (the call failed, or the process was restarted)
and repairs it by writing or deleting the file again before it does anything else (`Mend`). What other clients
do with a torn file is not modelled: they can corrupt the disk, as in section 4.

One fault point is left out of the run and of the theorems: the last write of `swapFileExtent`, which frees the block
that was moved. `tfs_defrag_a` ignores that error, too, and goes on with a free block index that is in use by now. The
next block it moves overwrites the one before: with six blocks, three files and that fault, `DefragKeepsFiles` is
violated. It is listed as a hazard.

## 3. Runs

The runs of `MCClients` have two files under two names each, one of which is cut (`MaxFileNameLength` is 1),
offset 2 for seeks, byte 1 for `writeByte`, buffers `<<1>>` and `<<1, 1, 2>>` (with two bytes per block: one block that
is not full, and one full and one that is not), in some runs the empty buffer, and two descriptors per mount.

| Run | Client, blocks | Checked | Result |
|---|---|---|---|
| `careful` | no habit, 5 | `BlocksPartitioned`, `ChainsMatchSizes`, `OpenTableFresh`, `NamesUnique`, `OthersUntouched`, `NoFileInherited`, `NoSpaceMeansFull`, `DefragKeepsFiles`, `DefragCompacts`, `ImplementsFileStore` | hold, 0.45 million states |
| `any_client` | all habits, 3 | `TypeOK`, `LocationBounded`, `ExtentsPointForward`, `DefragCursor`, `DescriptorsStable`, `CallsReturn` | hold, 0.88 million states |
| `faults` | no habit, 5, two faults | `FewBlocksFloat`, `FilesKeepBlocks`, `MendedIsWhole`, `OthersUntouched`, `NoFileInherited`, `DefragKeepsFiles` | hold, 1.5 million states |
| `disks` | two disk files of up to 3 blocks | `ListMatchesHost`, `NothingOldSurvives`, `MountedDiskReady`, `OnlyMkfsLeaks` | hold, 87 thousand states |
| `empty_write` | `emptyWrite`, 5 | `OthersUntouched` | violated |
| `overflow` | `overflow`, 5 | `ChainsMatchSizes` | violated |
| `defrag_open` | `defragOpen`, 5 | `OpenTableFresh` | violated |
| `read_at_end` | no habit, 5 | `LocationInFile` | violated |
| `delete_read_only` | no habit, 5 | `ReadOnlyNotDeleted` | violated |
| `full_size_disk` | no habit, 5 of at most 5 | `NoSpaceMeansFull` | violated |
| `write_resets_mode` | no habit, 5 | `WriteKeepsMode` | violated |
| `display_hangs` | all habits but `formatMounted`, 3 | `DisplayReturns` | violated |

What `any_client` shows of descriptors: `DescriptorsStable` says that within a mount the next descriptor never comes down and each
new one raises it, so a number stays used up when its file is closed or deleted; and that an open descriptor keeps its slot. That
the slot keeps its *file* is not true for any client (`formatMounted` takes all files away). For the careful one it is
`OpenTableFresh` between calls, and `NoFileInherited`, in runs `careful` and `faults`: when a new file takes a slot, no
descriptor of the file that had it before is left, although `tfs_deleteFile` gives the slot up two writes before it removes the
descriptor, and a failure in between leaves the descriptor there.

What `faults` shows: wherever a call is cut off, files have lost no block to each other or to free space, except the
torn one (`FilesKeepBlocks`: the order of the writes in `createInode`, `removeInode`, `swapInode` and `swapFileExtent`); no
other file's blocks are touched; each fault leaves at most a known number of blocks that belong to nobody
(`FewBlocksFloat`, the "floating blocks" of `tinyFSHelper.c:204`), which no call ever reclaims; and a torn file that was
written or deleted again is whole (`MendedIsWhole`), the open list included.

What `disks` shows: the list of open disks agrees with the host although descriptors are handed out again, disks are
leaked and disks are truncated under the mount; nothing but a prefix of super block and free blocks is on a disk whose
`tfs_mkfs` did not end well, so an old file system never shines through; a formatted disk can be used in full; and only
`tfs_mkfs` leaks descriptors, on two of its error returns (`tinyFS.c:35` and `tinyFS.c:48`).

**Bounds.** A super block and four blocks hold two files of which one has an extent or two, or one file of two extents
and room to spare: a write can fill the disk exactly, free blocks lie before, between and behind the blocks of a
file, a defragmentation moves inodes and extents of both files, with the free block right before or far before the one
moved, and two descriptors are open at a time, closed and reopened in every order. Three blocks are enough for a
client without rules to make files share blocks and to make a block link to itself. Counters need no bound but that of
the descriptors: `OpenFile` stops at `MaxFD` per mount, and a new mount starts again at 1. `faults` has one byte per
block, so that its one buffer of two bytes makes a chain of two extents, and `MaxFaults` of two: a fault, and another
one while the client mends the first. `disks` has a list of capacity 1 and up to three open descriptors, so that the list
grows and removals happen in its middle; sizes are below a block, one block, the largest disk with bytes left over, and
one block more.

**Symmetry and views.** `careful` and `faults` treat the two files alike: the code only compares names. `any_client` and
`display_hangs` check liveness and use no symmetry. The views of `careful`, `faults` and `disks` leave out `ret` and
`result`. No action reads them, and the properties that speak of return codes are action properties, which TLC checks
on every step and not only on those that lead to a new state.

**Fairness.** `FairClientSpec` assumes weak fairness of `Continue`: the program is sequential, so a call
that has started goes on until it returns. Nothing is assumed of clients. `CallsReturn` holds for all calls but the
fragmentation map even on corrupted disks, because `eraseFileData` clears the links it walks over and the links between
extents only point forward. `display_hangs` shows the exception: the counterexample ends in stuttering because
`DisplayBlock` at a block that links to itself changes nothing, which is the loop of the C code turning forever.

**Mutants.** For each property of a passing run there is a mutant: an operator named like the definition it replaces with
a suffix (`findFreeBlock_inclusive`, `EraseBlock_firstOnly`, ...), which changes it the way a plausible bug would.
With the mutant in place TLC finds the property violated.

## 4. What the violations say about the code

1. `empty_write`: `tfs_writeFile` with size 0 links the inode to the first free block and does not write that block.
   The next file that is created gets it, and the next write to the first file frees it (`tinyFS.c:159`).
2. `overflow`: a write that finds no block in the middle returns `ENOSPC`, with the inode's size and link already
   changed (`tinyFS.c:185`, "hopefully no files get half written :)").
3. `defrag_open`: `tfs_defrag` does not update the open list (`tinyFSOpenList.h:14`).
4. `read_at_end`: the bounds check is `>` instead of `>=`, so one byte behind the end can be read (`tinyFS.c:235`).
5. `delete_read_only`: a read-only file can be deleted, although `tinyFS.h:65` says otherwise.
6. `full_size_disk`: a disk of 255 blocks, which `tfs_mkfs` makes, cannot hold a file (`tinyFSHelper.c:58`).
7. `write_resets_mode`: each write stores an uninitialized permission (`tinyFSHelper.c:131`).
8. `display_hangs`: the fragmentation map does not end on a circular chain (`tinyFSExtraFeatures.c:43`).

## 5. Theorems

`TinyFS_proofs` proves, for every number of blocks, block size, name length, set of names, buffers, bytes and offsets,
and for a client that makes **any** sequence of calls, from `DiskAssumption` (sizes are positive, at most
`MaxBlockCount` blocks) and `ClientAssumption` (names are sequences of strings, buffers sequences of bytes):

| Theorem | Statement |
|---|---|
| `TypeCorrect` | `Spec => []TypeOK` |
| `DefragCursorCorrect` | `Spec => []DefragCursor` |
| `ExtentsPointForwardCorrect` | `Spec => []ExtentsPointForward` |
| `LocationBoundedCorrect` | `Spec => []LocationBounded` |
| `DescriptorsStableCorrect` | `Spec => DescriptorsStable` |

`Clients_proofs` proves the properties of run `careful`, from the same two assumptions, for the client that has no habit and,
but for `NamesUnique`, for the one that renames files to names in use as well (`Habits \subseteq {"reuseName"}`, which these
theorems assume: with the other habits they do not all hold, as section 4 shows):

| Theorem | Statement |
|---|---|
| `BlocksPartitionedCorrect` | `ClientSpec => []BlocksPartitioned` |
| `ChainsMatchSizesCorrect` | `ClientSpec => []ChainsMatchSizes` |
| `OpenTableFreshCorrect` | `ClientSpec => []OpenTableFresh` |
| `NamesUniqueCorrect` | `ClientSpec => []NamesUnique`, if `Habits = {}` |
| `OthersUntouchedCorrect` | `ClientSpec => OthersUntouched` |
| `NoFileInheritedCorrect` | `ClientSpec => NoFileInherited` |
| `DefragKeepsFilesCorrect` | `ClientSpec => DefragKeepsFiles` |
| `DefragCompactsCorrect` | `ClientSpec => DefragCompacts` |
| `NoSpaceMeansFullCorrect` | `ClientSpec => NoSpaceMeansFull`, if `NumBlocks # MaxBlockCount`: on a full-size disk it is false (run `full_size_disk`) |

For `tfs_rename`, which does not look whether the new name is in use, these theorems say: two files can have one name, and
searches by name then find one of the two, but calls that have a descriptor go by its slot. They write, rename and delete the file
that was opened and no other (`OthersUntouched`), the open list agrees with the disk (`OpenTableFresh`), and no block is lost
or shared. The run `careful` checks the properties without the habit.

`Refinement_proofs` proves the refinement of that run, for the client without habits (in `FileStore` a name has one file):

| Theorem | Statement |
|---|---|
| `ImplementsFileStoreCorrect` | `ClientSpec => ImplementsFileStore`, if `NumBlocks # MaxBlockCount`: on a full-size disk `searchSB` reports `ENOSPC` while blocks are free, which `FileStore` never does |

`TinyFSFaults_proofs` proves the properties of run `faults`, and two of the theorems about any client again, for the client
and the faults of `TinyFSFaults`, any number of them. All assume `FailPoints \cap swapFileExtentPoints = {}`, the ones
from the third on `Habits = {}`:

| Theorem | Statement |
|---|---|
| `TypeCorrectWithFaults` | `FaultSpec => []TypeOK` |
| `ExtentsPointForwardWithFaults` | `FaultSpec => []ExtentsPointForward` |
| `MendedIsWholeCorrect` | `FaultSpec => []MendedIsWhole` |
| `FilesKeepBlocksCorrect` | `FaultSpec => []FilesKeepBlocks` |
| `OthersUntouchedWithFaults` | `FaultSpec => OthersUntouched` |
| `NoFileInheritedWithFaults` | `FaultSpec => NoFileInherited` |
| `DefragKeepsFilesWithFaults` | `FaultSpec => DefragKeepsFiles` |
| `FewBlocksFloatCorrect` | `FaultSpec => []FewBlocksFloat`, if there is a bound on the length of the buffers (`buffersBounded`): `tfs_writeFile` takes the length as an `int`, and without a bound `mostFloating` is not a number |

`TinyFSDisks_proofs` and `TinyFSMkfs_proofs` prove what run `disks` checks, for any disk files, sizes, foreign files and
number of host descriptors, from `LibDiskAssumption` and `DisksAssumption`:

| Theorem | Statement |
|---|---|
| `ListMatchesHostCorrect` | `Spec => []ListMatchesHost` |
| `OnlyMkfsLeaksCorrect` | `Spec => OnlyMkfsLeaks` |
| `NothingOldSurvivesCorrect` | `Spec => []NothingOldSurvives` |
| `MountedDiskReadyCorrect` | `Spec => []MountedDiskReady` |

The first three of `TinyFS_proofs` rest on one inductive invariant, `Inv == TypeOK /\ DefragCursor /\ ExtentsPointForward`. `TypeOK` is not
inductive by itself. `swapFileExtent` sets the link of the block in front of the one it moves, under whatever type that
block has. If that were a free block, the result would have no legal format. It is none because all free blocks
lie behind the cursor and that block lies before it, which is part of `DefragCursor`. `DefragCursor` in turn
holds because moving a block frees one behind the cursor, so the next search succeeds (lemma `CursorAdvances`).
`ExtentsPointForward` survives a move because the block goes to a place behind its predecessor and before its
successor, which again needs `DefragCursor` (and, for the successor, `ExtentsPointForward` itself).

There is one lemma per action (`...Step`), all of them about the full `Inv`. Those that write a block use
`OneBlockWritten`; those that change the open list use `Added`, `Removed` or `Updated`. The helpers have lemmas that say
what they return (`FindFreeBlock`, `SearchSB`, `SafeReadBlock`, `LocateByte`), with `MinOfNats` of `MinMax_proofs` from
the well-foundedness of the natural numbers.

`LocationBounded` and `DescriptorsStable` go through `OpenListSteps`: whatever step is taken, the open list loses an entry, gains the entry
of a new descriptor, has one entry replaced by one for the same slot, or is reset by an unmount. That the next descriptor
never comes down but by an unmount is `CurrentFDGrows`; with it, `DescriptorsStable` says that no number is handed out twice
within a mount.

**The careful client.** The properties of section 3 speak of chains and of the states between two calls. Neither makes
an inductive invariant: a step changes one block, and chains are whole only when a call has returned. `CarefulInv` of
module `Layout` says the same of one block and one link at a time, and of every state. It states that there is a *layout*,
two functions that give every block in use an owner `own[b]`, a slot, and a place `pos[b]` in the owner's file:

- `Placed`: the places of a file are 0 for its inode and 1 to the number of extents its size calls for;
- `Apart`: no two blocks have the same place;
- `Rooted`: a used slot leads to the block at place 0 of its file;
- `Linked`: every block leads to the block at the next place, and the one at the last place nowhere.

`LayoutOK` allows a call in progress two exceptions: blocks that no file has (`floating`: the inode that is not linked yet
or no longer, one of the two copies of a block that moves), and one block whose link is still to be set (`tail`: the inode
while its extents are erased, the last block written while a write goes on). For these calls it says how far they
are: what is still to be erased is the end of the file, and room for the rest of the buffer is left among the blocks that are
free or will be (`Erasing`, `Writing`: this is why a write that fits never fails in the middle); what lies in front of
the cursor of `tfs_defrag` is compacted, and the two copies of the block it moves agree (`Moving`: from here
come `DefragKeepsFiles` and `DefragCompacts`). `TableOK` and `NamesOK` are `OpenTableFresh` and `NamesUnique` for every
state (`NamesOK` only for a client that does not reuse names; no other part of the invariant needs it), `Linking` and `PhaseOK` what is known of an inode that floats.

`Layout_proofs` shows what each kind of block write does to a layout, with no call in mind: an inode is linked or
unlinked, an extent erased or written, an inode rewritten, an inode or an extent moved (`InodeLinked`, ...,
`ExtentMoved`). It also shows what a layout says of chains. `ChainOfFile` determines the chain of a file from its layout: the
block after `k` links is the one at place `k`. That takes inductions over the number of links: the places of a file are all
filled (`PlacesFilled`), and the recursion that defines `chain` has one solution (`ChainIs`). Both are carried out on the least
counterexample (`MinOfNats`), since the induction theorems of the library cannot be used. `BlocksOfFile`, `LayoutPartitions` and `LayoutMatchesSizes` follow, and with them the first two theorems.
`SameFile` shows that two layouts with the same data at the same places hold the same file, which is what a move needs.

`Clients_proofs` has one lemma per action (`CRename`, `CWriteBlock`, `CSwapExtentLink`, ...). Each shows that the action keeps
`CarefulInv` and which files it may change, so `OthersUntouched` and `DefragKeepsFiles` come with the invariant.
`NoFileInherited` follows from `TableOK`: every open file has a slot in use, but for one whose deletion is in its last step, and
that step takes no slot (`ErasingTakesNoSlot`).
The invariant has two parameters, so that the same lemmas serve the proofs with faults: the blocks that faults have taken
from all files (`lost`), and whether each walk of `tfs_defrag` has come to its end (`tidy`), on which only `DefragCompacts`
depends. Without faults it is `CarefulInv({}, TRUE)`.

TLC has checked `CarefulInv` on the instance of run `careful` (with 0 to `NumBlocks` for `Nat` in `LayoutOK`, which TLC
has to enumerate); it is no part of a run because it is a means of the proofs and implies what the run checks.

**The refinement.** `Refinement_proofs` shows that `Init` maps to `Store!Init` and each step to a step of `FileStore` or
to a stutter, one lemma per call and per step of a call (`ROpenFile`, `RUpdateInode`, `RWriteBlock`, ..., put together in
`RNext`). It assumes `CarefulInv` before and after the step, which is proved already. What it adds to
`Clients_proofs` are four bridges between blocks and `FileStore`:

- *files*: `storedFiles` holds, under its name, what the layout says of each used slot (`StoredFile`, `FilesSeen`). So a step
  that changes one slot changes one file (`FileChanged`, `FileAdded`, `FileRemoved`, `FileRenamed`), and one that changes none,
  such as each step of a defragmentation, changes none (`FilesSame`);
- *space*: `Store!used`, a sum over the files, is the number of blocks that are not free (`UsedSeen`), because the blocks of two
  files are apart. The sum is a recursion over the set of files, which has one solution (`OneSum`), again by the least
  counterexample. That is what makes `ENOSPC` mean the same on both sides: between calls (`UsedIdle`) and in a write whose old
  blocks have been erased (`UsedErased`);
- *bytes*: byte `i` of a file is in the block after `i \div DataPerBlock` links (`ByteStored`), which is the one `locateByte`
  reaches (`WalkIs`, `ExtentAt`, `PositionLocated`); a position is refused exactly where `FileStore` refuses it, and one byte behind the
  end is read where it lets any byte be read;
- *a write in progress*: what is on the disk so far and what is left in the buffer make up the buffer of the call
  (`BlockSeen`): writing a block moves `DataPerBlock` bytes from one to the other (`BytesGrown`, `PartAndRest`), since
  the chain up to the last block written is as before (`ChainsToTail`). The last block makes the file complete.

One more fact is needed that is no part of `CarefulInv`: a call in progress has not returned anything yet (`Quiet`, kept by
`QuietNext`), because `FileStore` clears `ret` when a call starts and not at each of its steps.

**Faults.** With faults the same invariant `Inv` is inductive, as long as no access fails at the second or third write of
`swapFileExtent` or in the search behind a swap (`FailPoints \cap swapFileExtentPoints = {}`, which the theorems assume).
There `tfs_defrag_a` goes on with a free block that is in use, or with an error code for one, and `DefragCursor` is lost.
The process may still die at those points: a crash forgets the cursor.

Where the blocks of the files lie is `FilesOK` of module `TornLayout`. For some set of lost blocks one of these holds
(`TornOK`): no file is torn and `CarefulInv(lost, FALSE)` holds; or one file is torn and the call that mends it has got its old
blocks back, so that `CarefulInv(lost, FALSE)` holds again though the client does not know yet; or one file is torn and
`TornInv` holds. `TornInv` knows two kinds of torn files:

- a *cut* file has its inode and some of its extents, `rest`, which are not part of the layout. They are strung on their links in
  the order of their numbers (`Strung`), from the inode or, while they are erased, from the next one to free, and the chain ends
  nowhere or in a free block. It is what eraseFileData leaves of the end of a file, or a write of its beginning;
- a *stale* file has lost its slot, but a descriptor still stands for it. The descriptor leads to no block in use, so that
  the write or deletion it is used for fails, until it is closed or the disk unmounted.

Nothing weaker is inductive: when the client writes the torn file again, `eraseFileData` frees whatever the chain leads
to. So one has to know that this is each block of the file once, nothing of another file, and a free block at most
at the end, where it stops; and that the blocks freed make room for the buffer (`CutErasing`, lemmas `RestStrung`, `CutEraseBlock`).

A fault writes nothing. It turns the blocks that the call in progress holds into lost ones, and the file of a write or a
deletion into the torn one (`CarefulCutOff`, `CutFile`, `TornCutOff`, put together in `FaultKeeps`). The steps of the client are
those of `Clients_proofs` while no file is torn, and `MendIdle`, `MendErasing`, `MendFreeing` and `MendingEnds` while one is
(`ClientKeeps`). `NoFileInherited` needs the stale file once more: its descriptor stands for an unused slot, but no step the client
takes before it is closed takes a slot (`StaleTakesNoSlot`). `MendedIsWhole` is the first case of `TornOK` between two calls. `FilesKeepBlocks` follows in each case from a layout in
which at most one file is not whole, and the blocks that one leads to are its own or free (`OneBroken`).

For `FewBlocksFloat` the set of lost blocks is counted (`FewLost`). `LostByOne` says what one fault takes: a block, or extents of
one file behind its first, which have different numbers. Sizes of files are lengths of buffers (`SizesOK`,
kept by every step of any client), so there are no more of these than `mostFloating` (`LostByOneIsFew`).

**The disks.** `ListMatchesHost` is not inductive: a close removes the entry of the right disk only if the disk is in
the list. `DisksInv` adds that the mounted disk and the disk being formatted are open and are not the same one
(`CursorsOK`), so a `tfs_mkfs` never closes the mounted disk; this is also why no other call leaks one. `MkfsInv` adds
where a format in progress is (`FormatOK`): its file has the size it was given, is written up to `next` and no
further, and does not count as formatted. From it follow that an interrupted format leaves a prefix (`FilesOK`) and a
finished one no gap (`FormattedOK`), and `MountedDiskReady` from the last together with the sizes in the list (`SizesOK`).

## 6. What is only model-checked, and what is not modelled

Only model-checked: the properties of the runs that are violated; `CallsReturn` and `DisplayReturns`, which are liveness
properties under fairness and out of TLAPS's reach; and, of run `faults`, the failures inside `swapFileExtent` and of the search
behind a swap, which the theorems about faults assume away. All other properties of the passing runs are theorems.

Not modelled:

- timestamps, and with them `retrieveTime` and the two block accesses of `updateInodeAccess` (`updateInode` stores a new
  creation time with every write; nothing in the repository says that it should not);
- an access that transfers part of a block, or fails after it had an effect;
- what a client other than the one of `Mend` does with a torn file, and an access that fails in the last write of
  `swapFileExtent` (section 2, Faults);
- disks of more than 251 blocks, on which the loops read behind `inodeIndices`, but for run `full_size_disk`, where
  the search returns before its loop;
- what lies on the stack behind the 41 bytes of the `inodeBlock` that `checkPermission` and `changePermissions` read 256
  bytes into;
- foreign files of which a block looks like a block of TinyFS, and several processes on one disk file: the code has
  neither a check nor a lock for either;
- failing memory allocations, printing, `arrayList_free` (which nothing calls), `testDisk.c`, the build files.

## 7. Plan

Done: the modules of section 2, that is the file calls and add-ons, the refinement of `FileStore`, faults, and the disks;
and the proofs of section 5. Next, in this order:

1. With faults: an access that fails at the second write of `swapFileExtent`, or in the search behind a swap. It needs an
   invariant of `tfs_defrag` in which the free block may be a copy that no file leads to, in place of `DefragCursor`.
2. Inode timestamps, abstracted to an order: which calls change which of the three.
