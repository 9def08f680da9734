----------------------------- MODULE MCClients -----------------------------
(* Values of the constants for model checking TinyFS and its clients.      *)
EXTENDS Refinement, TLC

CONSTANTS nameA, nameB, other

\* Two names for each of two files: names are cut at one character.  The two
\* files are symmetric.
MCChars  == {nameA, nameB, other}
MCNames  == {<<nameA>>, <<nameA, other>>, <<nameB>>, <<nameB, other>>}
Symmetry == Permutations({nameA, nameB})

\* Everything but ret, which no action reads.  What a call returned is part of
\* the step, and action properties are checked on every step.
StateView == <<diskVars, mounted, openList, call>>

MCOffsets == {2}
MCBytes   == {1}

\* One block that is not full, and two blocks.
MCBuffers == {<<1>>, <<1, 1, 2>>}

MCBuffersAndEmpty == MCBuffers \cup {<<>>}

=============================================================================
