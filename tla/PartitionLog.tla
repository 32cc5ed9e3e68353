---------------------------- MODULE PartitionLog ----------------------------
(***************************************************************************)
(* What the files of a message partition are to its callers: the log of    *)
(* module MessageLog.                                                      *)
(***************************************************************************)
EXTENDS MessagePartition, IndexLog

\* The index files, one after the other, are the log of module MessageLog.
Log == INSTANCE MessageLog WITH log <- LogOf(idxFiles)

\* With ids stored in ascending order the partition implements the append-only log,
\* which keeps every acknowledged message: rollover, the rewriting of index files,
\* crashes, I/O errors and restarts are not visible in it.
ImplementsLog == Log!Spec
=============================================================================
