------------------------------ MODULE Clients ------------------------------
(***************************************************************************)
(* TinyFS driven by a client that keeps to some rules.  Habits names the   *)
(* rules the client does not keep; with all five habits it is the client   *)
(* of module TinyFS, with none the careful client.                         *)
(***************************************************************************)
EXTENDS TinyFSProperties

CONSTANT Habits  \* which of "emptyWrite", "overflow", "defragOpen", "reuseName",
                 \* "formatMounted"

ASSUME HabitsAssumption ==
  Habits \subseteq {"emptyWrite", "overflow", "defragOpen", "reuseName", "formatMounted"}

\* The buffer fits on the disk in place of what the file holds now, or the write
\* cannot even begin.
fits(fd, buffer) ==
  isOpen(fd) =>
    \/ blocksFor(Len(buffer)) <= Cardinality(freeBlocks) + blocksFor(openFiles[fd].fileSize)
    \/ freeBlocks = {} /\ openFiles[fd].fileSize = 0

ClientWrite(fd, buffer) ==
  /\ buffer = <<>> => "emptyWrite" \in Habits
  /\ ~fits(fd, buffer) => "overflow" \in Habits
  /\ WriteFile(fd, buffer)

ClientDefrag ==
  /\ DOMAIN openFiles # {} => "defragOpen" \in Habits
  /\ Defrag

ClientRename(fd, newName) ==
  /\ (\E s \in usedSlots : isFile(s) /\ inodeOf(s).fileName = formatName(newName)) => "reuseName" \in Habits
  /\ Rename(fd, newName)

ClientFormat == "formatMounted" \in Habits /\ FormatMounted

ClientNext ==
  \/ SafeCall
  \/ \E fd \in FDs, buffer \in Buffers : ClientWrite(fd, buffer)
  \/ \E fd \in FDs, name \in UserNames : ClientRename(fd, name)
  \/ ClientDefrag
  \/ ClientFormat
  \/ Continue

ClientSpec == Init /\ [][ClientNext]_vars

\* The program is sequential: nothing holds up a call it has started.
FairClientSpec == ClientSpec /\ WF_vars(Continue)

=============================================================================
