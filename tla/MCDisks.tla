------------------------------ MODULE MCDisks ------------------------------
(* Values of the constants for model checking disks.                       *)
EXTENDS TinyFSDisks, TLC

CONSTANTS d1, d2

\* At first d1 does not exist, and d2 is not a number of blocks long.
MCDiskFiles == {d1, d2}
MCForeign   == d2 :> [blocks |-> <<JUNK>>, ragged |-> TRUE]

\* With blocks of two bytes: less than a block, one block, three blocks and some,
\* and one block more than a disk may have.
MCDiskBytes == {1, 2, 7, 8}

\* Everything but result, which no action reads.
DiskView ==
  <<hostFiles, hostFDs, openDisks, mountedDiskFD, format, formatted, replaced>>

=============================================================================
