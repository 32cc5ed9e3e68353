------------------------- MODULE PartitionTheorems --------------------------
(***************************************************************************)
(* The theorems about a partition of the file message store, for every set *)
(* of ids and of requests, every file size, any number of crashes at any   *)
(* point, and fetches that run while a Store changes the list, the cache   *)
(* and the files.                                                          *)
(***************************************************************************)
EXTENDS PartitionLog, PartitionLogProofs, IndexListOpsProofs

(* A fetch hands over, for each id, the data that was stored with that id: *)
(* callers may store ids in any order, the process may crash at any point  *)
(* of a Store, as long as no file operation fails.                         *)
THEOREM AlwaysFetchedIsStored == Spec => []FetchedIsStored
<1>1. IInv => FetchedIsStored
  BY DEF IInv, FetchInv
<1>2. IInv /\ [Next]_vars => IInv'
  BY InvStep, ListFactsHold
<1> QED BY <1>1, <1>2, InvInit, PTL DEF Spec

(* If callers store ids in ascending order, OInv is an invariant, with and *)
(* without I/O errors.                                                     *)
LEMMA AlwaysOInv == ASSUME InOrder PROVE Spec => []OInv
<1>1. OInv /\ [Next]_vars => OInv'
  BY OStep, ListFactsHold
<1> QED BY <1>1, OInit, PTL DEF Spec

(* If callers store ids in ascending order, the memory of an open          *)
(* partition describes its files whenever no Store runs: list is the last  *)
(* index file as initialize would read it, the file cache describes the    *)
(* ones before it, which are full, totalNumberOfMessages is the number of  *)
(* the entries and maxMessageID the highest id; after crashes, restarts    *)
(* and failed file operations, too.                                        *)
THEOREM AlwaysMemoryMatchesDisk == ASSUME InOrder PROVE Spec => []MemoryMatchesDisk
<1>1. OInv => MemoryMatchesDisk
  BY InvMatchesDisk, ListFactsHold
<1> QED BY <1>1, AlwaysOInv, PTL

(* Every step of the partition is one of the log, or does not change it. *)
LEMMA StepIsLogStep ==
  ListFacts /\ InOrder /\ OInv /\ [Next]_vars => [Log!Next]_(Log!vars)
<1> SUFFICES ASSUME ListFacts, InOrder, OInv, [Next]_vars PROVE [Log!Next]_(Log!vars)
  OBVIOUS
<1>1. CASE Silent
  BY <1>1 DEF Silent, Log!vars
<1>2. CASE WriteIndex
  <2>1. Log!Persist(sid)
    BY <1>2, WriteIndexPersists DEF Log!Persist
  <2>2. sid \in Ids
    BY <1>2, WriteIndexPersists
  <2> QED BY <2>1, <2>2 DEF Log!Next
<1>3. CASE StoreReturns
  <2>1. Log!Ack(sid)
    BY <1>3, StoreReturnsAcks DEF Log!Ack
  <2>2. sid \in Ids
    BY <1>3, StoreReturnsAcks
  <2> QED BY <2>1, <2>2 DEF Log!Next
<1> QED BY <1>1, <1>2, <1>3, OtherStep

(* If callers store ids in ascending order, the partition implements the   *)
(* append-only log of module MessageLog: the index entry is the moment a   *)
(* message becomes part of it, the return of Store acknowledges one that   *)
(* is in it, and rollover, the rewriting of index files, crashes, I/O      *)
(* errors and restarts do not change it.                                   *)
THEOREM PartitionImplementsLog == ASSUME InOrder PROVE Spec => ImplementsLog
<1>1. Init => Log!Init
  BY LogStartsEmpty, ListFactsHold DEF Log!Init
<1>2. OInv /\ [Next]_vars => [Log!Next]_(Log!vars)
  BY StepIsLogStep, ListFactsHold
<1> QED BY <1>1, <1>2, AlwaysOInv, PTL DEF Spec, ImplementsLog, Log!Spec

(* If callers store ids in ascending order, an acknowledged message is in  *)
(* an index file, at every moment and so after every crash.                *)
THEOREM AlwaysAckedIsIndexed == ASSUME InOrder PROVE Spec => []AckedIsIndexed
BY InvIndexesAcked, AlwaysOInv, PTL
=============================================================================
