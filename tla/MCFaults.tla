------------------------------ MODULE MCFaults ------------------------------
(* Values of the constants for model checking TinyFS with faults.          *)
EXTENDS TinyFSFaults, TLC

CONSTANTS nameA, nameB

MCChars  == {nameA, nameB}
MCNames  == {<<nameA>>, <<nameB>>}
Symmetry == Permutations({nameA, nameB})

MCOffsets == {}
MCBytes   == {}
MCBuffers == {<<1, 2>>}

\* Everywhere.
MCCrashPoints ==
  {"idle", "linkInode", "eraseFileData", "writeBlocks", "freeInode", "display",
   "defragInode", "swapInodeLink", "freeOldInode",
   "iterateFEs", "swapExtentLink", "freeOldExtent"}

\* Everywhere but in the last write of swapFileExtent, where tfs_defrag goes on to
\* overwrite a block in use.
MCFailPoints == (MCCrashPoints \ {"freeOldExtent"}) \cup {"findFreeBlock"}

\* Everything but ret, which no action reads.
FaultView == <<diskVars, mounted, openList, call, faults, torn>>

=============================================================================
