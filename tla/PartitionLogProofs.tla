------------------------- MODULE PartitionLogProofs -------------------------
(***************************************************************************)
(* With callers that store ids in ascending order, the steps of a message  *)
(* partition are steps of the log of module MessageLog, and the memory     *)
(* describes the disk: for every set of ids and of requests, every file    *)
(* size, any number of crashes, with and without I/O errors.               *)
(***************************************************************************)
EXTENDS PartitionProofs

(* 1 between the writing of the index entry and the end of Store. *)
Unlisted == IF spc = "finish" THEN 1 ELSE 0

(* The ids of the files ascend, and the message that is being stored has   *)
(* the highest one.                                                        *)
OrderInv ==
  /\ tried \subseteq Ids
  /\ \A n \in 1 .. Len(idxFiles) : \A k \in 1 .. Len(idxFiles[n]) : idxFiles[n][k].id \in tried
  /\ Ascending(idxFiles)
  /\ spc # "idle" => sid \in tried /\ \A id \in tried : id <= sid
  /\ spc \notin {"idle", "finish"} =>
       \A n \in 1 .. Len(idxFiles) : \A k \in 1 .. Len(idxFiles[n]) : idxFiles[n][k].id < sid
  /\ spc = "finish" =>
       idxFiles[Current][Len(list) + 1] = [id |-> sid, offset |-> messageOffset]

(* The list is the current index file, the cache describes the files       *)
(* before it, and those are full.                                          *)
LayoutInv ==
  /\ up => Len(idxFiles) <= Current
  /\ spc = "clear" => Len(idxFiles) < Current
  /\ up /\ spc # "clear" /\ Current <= Len(idxFiles) =>
       /\ Len(idxFiles[Current]) = Len(list) + Unlisted
       /\ \A k \in 1 .. Len(list) : list[k] = Entry(idxFiles[Current][k], Current)
  /\ FullBefore(idxFiles, messagesPerFile)
  /\ \A n \in 1 .. Len(idxFiles) : n < Current => Len(idxFiles[n]) = messagesPerFile
  /\ \A n \in 1 .. Len(fileCache) : fileCache[n] = ReadCacheEntry(n)
  /\ entriesCount <= messagesPerFile
  /\ spc \in {"rewrite", "cacheAdd"} => entriesCount = messagesPerFile
  /\ spc \in {"createMsg", "createIdx", "header", "data", "index", "finish"} =>
       entriesCount < messagesPerFile

(* totalNumberOfMessages and maxMessageID count and bound what is listed,  *)
(* and what is acknowledged is in an index file.                           *)
CountInv ==
  /\ totalNumberOfMessages \in Nat /\ maxMessageID \in Nat
  /\ up => totalNumberOfMessages + Unlisted = Count(idxFiles, messagesPerFile)
  /\ ~up => totalNumberOfMessages = 0
  /\ up => \A n \in 1 .. Len(idxFiles) : \A k \in 1 .. Len(idxFiles[n]) :
             \/ idxFiles[n][k].id <= maxMessageID
             \/ spc = "finish" /\ idxFiles[n][k].id = sid
  /\ \/ maxMessageID = 0
     \/ \E n \in 1 .. Len(idxFiles) : \E k \in 1 .. Len(idxFiles[n]) : idxFiles[n][k].id = maxMessageID
  /\ \A id \in acked : \E n \in 1 .. Len(idxFiles) : \E k \in 1 .. Len(idxFiles[n]) : idxFiles[n][k].id = id

OInv == IInv /\ OrderInv /\ LayoutInv /\ CountInv
-----------------------------------------------------------------------------
(* What module IndexListFacts says of logs, for the files of a partition *)

LEMMA RecordsHaveIds == HaveIds(IndexRecord)
BY PartitionAssumption, Zenon DEF HaveIds, IndexRecord

LEMMA EmptyFileIsSilent ==
  ASSUME ListFacts, NEW F \in Seq(Seq(IndexRecord))
  PROVE  LogOf(Append(F, <<>>)) = LogOf(F)
BY RecordsHaveIds, Zenon DEF ListFacts, EmptyFileFact

LEMMA WrittenEntryEndsLog ==
  ASSUME ListFacts, NEW F \in Seq(Seq(IndexRecord)), NEW G \in Seq(Seq(IndexRecord)),
         F # <<>>, Len(G) = Len(F), \A k \in 1 .. Len(F) - 1 : F[k] = G[k],
         NEW r \in IndexRecord, G[Len(F)] = Append(F[Len(F)], r)
  PROVE  LogOf(G) = Append(LogOf(F), r.id)
BY RecordsHaveIds, Zenon DEF ListFacts, NewEntryFact

LEMMA FilesLogProperties ==
  ASSUME ListFacts, NEW F \in Seq(Seq(IndexRecord)), Ascending(F), FullBefore(F, messagesPerFile)
  PROVE  /\ LogOf(F) \in Seq(Nat) /\ Len(LogOf(F)) = Count(F, messagesPerFile)
         /\ \A i \in 1 .. Len(LogOf(F)) : \E n \in 1 .. Len(F) : \E k \in 1 .. Len(F[n]) :
              LogOf(F)[i] = F[n][k].id
         /\ \A n \in 1 .. Len(F) : \A k \in 1 .. Len(F[n]) : \E i \in 1 .. Len(LogOf(F)) :
              LogOf(F)[i] = F[n][k].id
         /\ \A i, j \in 1 .. Len(LogOf(F)) : i < j => LogOf(F)[i] < LogOf(F)[j]
<1>1. messagesPerFile \in Nat
  BY PartitionAssumption
<1> QED BY <1>1, RecordsHaveIds, Zenon DEF ListFacts, LogFact

(* Its length is the number of ids in the files. *)
LEMMA CountProperties ==
  ASSUME ListFacts, DiskInv, Ascending(idxFiles), FullBefore(idxFiles, messagesPerFile)
  PROVE  Cardinality(Indexed) = Count(idxFiles, messagesPerFile)
<1> DEFINE F == idxFiles
           l == LogOf(F)
           R == {l[i] : i \in 1 .. Len(l)}
<1>1. F \in Seq(Seq(IndexRecord))
  BY DEF DiskInv
<1>2. /\ l \in Seq(Nat) /\ Len(l) = Count(F, messagesPerFile)
      /\ \A i \in 1 .. Len(l) : \E n \in 1 .. Len(F) : \E k \in 1 .. Len(F[n]) : l[i] = F[n][k].id
      /\ \A n \in 1 .. Len(F) : \A k \in 1 .. Len(F[n]) : \E i \in 1 .. Len(l) : l[i] = F[n][k].id
      /\ \A i, j \in 1 .. Len(l) : i < j => l[i] < l[j]
  BY <1>1, FilesLogProperties, Zenon
<1> HIDE DEF l
<1>4. Cardinality(R) = Len(l)
  BY <1>2, Zenon DEF ListFacts, CountFact
<1>5. \A x \in R : x \in Indexed
  <2> SUFFICES ASSUME NEW i \in 1 .. Len(l) PROVE l[i] \in Indexed
    OBVIOUS
  <2>1. PICK n \in 1 .. Len(F) : \E k \in 1 .. Len(F[n]) : l[i] = F[n][k].id
    BY <1>2, Zenon
  <2>2. l[i] \in IdsOf(F[n])
    BY <2>1 DEF IdsOf
  <2> QED BY <2>2 DEF Indexed
<1>6. \A x \in Indexed : x \in R
  <2> SUFFICES ASSUME NEW n \in 1 .. Len(F), NEW x \in IdsOf(F[n]) PROVE x \in R
    BY DEF Indexed
  <2>1. PICK k \in 1 .. Len(F[n]) : x = F[n][k].id
    BY DEF IdsOf
  <2>2. PICK i \in 1 .. Len(l) : l[i] = F[n][k].id
    BY <1>2, Zenon
  <2> QED BY <2>1, <2>2
<1>7. Indexed = R
  <2> HIDE DEF R
  <2> QED BY <1>5, <1>6
<1> QED BY <1>2, <1>4, <1>7, Zenon

-----------------------------------------------------------------------------
(* Steps that leave the files, the list and the cache alone *)

QuietStep ==
  \/ spc' = spc /\ appendFilePosition' = appendFilePosition
  \/ /\ spc \notin {"idle", "clear", "finish"} /\ spc' \notin {"clear", "finish"}
     /\ spc' \in {"rewrite", "cacheAdd"} => entriesCount = messagesPerFile
     /\ spc' \in {"createMsg", "createIdx", "header", "data", "index"} =>
          entriesCount < messagesPerFile

LEMMA QuietKeeps ==
  ASSUME OInv, idxFiles' = idxFiles, tried' = tried, acked' = acked, sid' = sid, list' = list,
         fileCache' = fileCache, up' = up, entriesCount' = entriesCount,
         totalNumberOfMessages' = totalNumberOfMessages, maxMessageID' = maxMessageID,
         QuietStep
  PROVE  OrderInv' /\ LayoutInv' /\ CountInv'
<1>1. Current' = Current /\ Unlisted' = Unlisted
  BY DEF Current, Unlisted, QuietStep
<1>2. spc' = "finish" => spc = "finish" /\ messageOffset' = messageOffset
  BY DEF QuietStep, messageOffset
<1>3. spc' = "clear" <=> spc = "clear"
  BY DEF QuietStep
<1>4. OrderInv'
  <2>1. /\ spc' # "idle" => spc # "idle"
        /\ spc' \notin {"idle", "finish"} => spc \notin {"idle", "finish"}
    BY DEF QuietStep
  <2> QED BY <1>1, <1>2, <2>1 DEF OInv, OrderInv, Ascending
<1>5. LayoutInv'
  <2>1. /\ \A n \in 1 .. Len(fileCache) : fileCache'[n] = ReadCacheEntry(n)'
        /\ FullBefore(idxFiles, messagesPerFile)'
        /\ \A n \in 1 .. Len(idxFiles') : n < Current' => Len(idxFiles'[n]) = messagesPerFile
    BY <1>1 DEF OInv, LayoutInv, ReadCacheEntry, FullBefore
  <2>2. /\ up' => Len(idxFiles') <= Current'
        /\ spc' = "clear" => Len(idxFiles') < Current'
        /\ up' /\ spc' # "clear" /\ Current' <= Len(idxFiles') =>
             /\ Len(idxFiles'[Current']) = Len(list') + Unlisted'
             /\ \A k \in 1 .. Len(list') : list'[k] = Entry(idxFiles'[Current'][k], Current')
    BY <1>1, <1>3 DEF OInv, LayoutInv
  <2>3. /\ entriesCount' <= messagesPerFile
        /\ spc' \in {"rewrite", "cacheAdd"} => entriesCount' = messagesPerFile
        /\ spc' \in {"createMsg", "createIdx", "header", "data", "index", "finish"} =>
             entriesCount' < messagesPerFile
    BY <1>2 DEF OInv, LayoutInv, QuietStep
  <2> QED BY <2>1, <2>2, <2>3 DEF LayoutInv, Entry
<1>6. CountInv'
  <2>1. spc = "finish" => spc' = "finish"
    BY DEF QuietStep
  <2> QED BY <1>1, <2>1 DEF OInv, CountInv, Count
<1> QED BY <1>4, <1>5, <1>6

(* What these steps are for the log. *)
Silent == LogOf(idxFiles)' = LogOf(idxFiles) /\ acked' = acked

LEMMA SameFilesSameLog == idxFiles' = idxFiles => LogOf(idxFiles)' = LogOf(idxFiles)
BY DEF LogOf, IdsIn

Others == OrderInv /\ LayoutInv /\ CountInv

(* The fetch goroutine. *)
LEMMA FetchIsQuiet ==
  ASSUME OInv,
         (\E r \in Requests : Fetch(r)) \/ FetchFails \/ FetchContains \/ FetchSearch
           \/ FetchLen \/ FetchGet \/ FetchMerge \/ FetchRead \/ FetchDone \/ UNCHANGED vars
  PROVE  Others' /\ Silent
<1>1. /\ idxFiles' = idxFiles /\ tried' = tried /\ acked' = acked /\ sid' = sid /\ list' = list
      /\ fileCache' = fileCache /\ up' = up /\ entriesCount' = entriesCount
      /\ totalNumberOfMessages' = totalNumberOfMessages /\ maxMessageID' = maxMessageID
      /\ spc' = spc /\ appendFilePosition' = appendFilePosition
  BY DEF Fetch, FetchFails, FetchContains, FetchSearch, FetchLen, FetchGet, FetchMerge, FetchRead,
         FetchDone, FetchRest, StoreRest, disk, counters, store, history, faults, vars
<1>2. QuietStep
  BY <1>1 DEF QuietStep
<1> QED BY <1>1, <1>2, QuietKeeps, SameFilesSameLog, Zenon DEF Others, Silent

(* The steps of Store that write only to the message file, and its errors. *)
LEMMA StoreIsQuiet ==
  ASSUME OInv, RewriteEnds \/ CreateMsgFile \/ WriteHeader \/ WriteData \/ StoreFails
  PROVE  Others' /\ Silent
<1>1. /\ idxFiles' = idxFiles /\ tried' = tried /\ acked' = acked /\ sid' = sid /\ list' = list
      /\ fileCache' = fileCache /\ up' = up /\ entriesCount' = entriesCount
      /\ totalNumberOfMessages' = totalNumberOfMessages /\ maxMessageID' = maxMessageID
  BY DEF RewriteEnds, CreateMsgFile, WriteHeader, WriteData, WriteCell, StoreFails, Goto,
         disk, counters, history, faults
<1>2. QuietStep
  <2>1. /\ entriesCount <= messagesPerFile
        /\ spc \in {"rewrite", "cacheAdd"} => entriesCount = messagesPerFile
        /\ spc \in {"createMsg", "createIdx", "header", "data", "index", "finish"} =>
             entriesCount < messagesPerFile
    BY DEF OInv, LayoutInv
  <2> QED BY <2>1 DEF QuietStep, RewriteEnds, CreateMsgFile, WriteHeader, WriteData, WriteCell,
                      StoreFails, Goto
<1> QED BY <1>1, <1>2, QuietKeeps, SameFilesSameLog, Zenon DEF Others, Silent

(* A crash, or a panic of the fetch goroutine, leaves only the disk. *)
LEMMA StopIsQuiet ==
  ASSUME OInv, Crash \/ FetchPanics
  PROVE  Others' /\ Silent
<1>1. /\ idxFiles' = idxFiles /\ tried' = tried /\ acked' = acked /\ up' = FALSE /\ spc' = "idle"
      /\ list' = <<>> /\ fileCache' = <<>> /\ entriesCount' = 0
      /\ totalNumberOfMessages' = 0 /\ maxMessageID' = 0
  BY DEF Crash, FetchPanics, Stopped, disk, history
<1>2. OrderInv'
  BY <1>1 DEF OInv, OrderInv, Ascending
<1>3. LayoutInv'
  <2>1. FullBefore(idxFiles, messagesPerFile)'
    BY <1>1 DEF OInv, LayoutInv, FullBefore
  <2>2. Len(fileCache') = 0 /\ Current' = 1
    BY <1>1 DEF Current
  <2>3. messagesPerFile \in Nat
    BY PartitionAssumption
  <2> QED BY <1>1, <2>1, <2>2, <2>3 DEF LayoutInv
<1>4. CountInv'
  BY <1>1 DEF OInv, CountInv
<1> QED BY <1>1, <1>2, <1>3, <1>4, SameFilesSameLog DEF Others, Silent

(* A new Store: its id is above all earlier ones. *)
LEMMA StoreIsSilent ==
  ASSUME OInv, InOrder, NEW id \in Ids, Store(id)
  PROVE  Others' /\ Silent
<1>1. /\ idxFiles' = idxFiles /\ acked' = acked /\ list' = list
      /\ fileCache' = fileCache /\ up' = up /\ entriesCount' = entriesCount
      /\ totalNumberOfMessages' = totalNumberOfMessages /\ maxMessageID' = maxMessageID
      /\ tried' = tried \union {id} /\ sid' = id /\ up /\ spc = "idle"
      /\ \A i \in tried : i < id
      /\ spc' \in {"rewrite", "header", "createMsg"}
      /\ spc' = "rewrite" <=> entriesCount = messagesPerFile
  BY DEF Store, RolloverDue, disk, counters, faults
<1>2. /\ Current' = Current /\ Unlisted' = 0 /\ Unlisted = 0
  BY <1>1 DEF Current, Unlisted
<1>3. OrderInv'
  <2>1. tried \subseteq Ids /\ Ids \subseteq Nat
    BY PartitionAssumption DEF OInv, OrderInv
  <2>2. /\ tried' \subseteq Ids /\ sid' \in tried' /\ \A i \in tried' : i <= sid'
    BY <1>1, <2>1
  <2>3. \A n \in 1 .. Len(idxFiles) : \A k \in 1 .. Len(idxFiles[n]) :
          idxFiles[n][k].id \in tried' /\ idxFiles[n][k].id < sid'
    BY <1>1 DEF OInv, OrderInv
  <2>4. Ascending(idxFiles)'
    BY <1>1 DEF OInv, OrderInv, Ascending
  <2> QED BY <1>1, <2>2, <2>3, <2>4 DEF OrderInv
<1>4. LayoutInv'
  <2>1. /\ \A n \in 1 .. Len(fileCache) : fileCache'[n] = ReadCacheEntry(n)'
        /\ FullBefore(idxFiles, messagesPerFile)'
        /\ \A n \in 1 .. Len(idxFiles') : n < Current' => Len(idxFiles'[n]) = messagesPerFile
    BY <1>1, <1>2, Zenon DEF OInv, LayoutInv, ReadCacheEntry, FullBefore
  <2>2. /\ up' => Len(idxFiles') <= Current'
        /\ Current' <= Len(idxFiles') =>
             /\ Len(idxFiles'[Current']) = Len(list') + Unlisted'
             /\ \A k \in 1 .. Len(list') : list'[k] = Entry(idxFiles'[Current'][k], Current')
    BY <1>1, <1>2 DEF OInv, LayoutInv
  <2>3. /\ entriesCount' <= messagesPerFile
        /\ spc' \in {"rewrite", "cacheAdd"} => entriesCount' = messagesPerFile
        /\ spc' \in {"createMsg", "createIdx", "header", "data", "index", "finish"} =>
             entriesCount' < messagesPerFile
    <3>1. entriesCount \in Nat /\ messagesPerFile \in Nat /\ entriesCount <= messagesPerFile
      BY PartitionAssumption DEF OInv, IInv, ListInv, LayoutInv
    <3> QED BY <1>1, <3>1
  <2> QED BY <1>1, <2>1, <2>2, <2>3, Zenon DEF LayoutInv, Entry
<1>5. CountInv'
  BY <1>1, <1>2 DEF OInv, CountInv, Count
<1> QED BY <1>1, <1>3, <1>4, <1>5, SameFilesSameLog DEF Others, Silent

(* The list is what the current index file holds. *)
LEMMA ListIsFile ==
  ASSUME OInv, spc \in {"rewrite", "cacheAdd", "header", "data", "index", "finish"}
  PROVE  /\ Current = Len(idxFiles) /\ Current \in 1 .. Len(idxFiles)
         /\ idxFiles[Current] \in Seq(IndexRecord)
         /\ Len(idxFiles[Current]) = Len(list) + Unlisted /\ entriesCount = Len(list)
         /\ Len(list) \in Nat
         /\ \A k \in 1 .. Len(list) : list[k] = Entry(idxFiles[Current][k], Current)
<1>1. up
  BY DEF OInv, IInv, StoreInv
<1>2. IInv
  BY DEF OInv
<1>3. Current <= Len(idxFiles) /\ entriesCount = Len(list)
  BY <1>2 DEF IInv, FilesInv, ListInv
<1>4. Len(idxFiles) <= Current
  BY <1>1 DEF OInv, LayoutInv
<1>5. /\ Len(idxFiles) \in Nat /\ Len(list) \in Nat /\ Current \in Nat /\ Current > 0
      /\ \A n \in 1 .. Len(idxFiles) : idxFiles[n] \in Seq(IndexRecord)
  BY <1>2, Lengths
<1>6. /\ Len(idxFiles[Current]) = Len(list) + Unlisted
      /\ \A k \in 1 .. Len(list) : list[k] = Entry(idxFiles[Current][k], Current)
  BY <1>1, <1>3 DEF OInv, LayoutInv
<1> QED BY <1>3, <1>4, <1>5, <1>6

(* rewriteSortedIdxFile writes what is there. *)
LEMMA RewriteIsQuiet ==
  ASSUME OInv, RewriteEntry
  PROVE  Others' /\ Silent
<1> DEFINE C == Current
           f == idxFiles[C]
           r == [id |-> list[pos].id, offset |-> list[pos].offset]
<1>1. /\ spc = "rewrite" /\ spc' = spc /\ pos <= Len(list)
      /\ idxFiles' = [idxFiles EXCEPT ![C] = WriteAt(f, pos, r)]
  BY DEF RewriteEntry
<1>2. /\ tried' = tried /\ acked' = acked /\ sid' = sid /\ list' = list
      /\ fileCache' = fileCache /\ up' = up /\ entriesCount' = entriesCount
      /\ totalNumberOfMessages' = totalNumberOfMessages /\ maxMessageID' = maxMessageID
      /\ appendFilePosition' = appendFilePosition
  BY DEF RewriteEntry, faults, counters, history
<1>3. /\ C \in 1 .. Len(idxFiles) /\ f \in Seq(IndexRecord) /\ Len(f) = Len(list) /\ Len(list) \in Nat
      /\ \A k \in 1 .. Len(list) : list[k] = Entry(f[k], C)
  BY <1>1, ListIsFile DEF Unlisted
<1>4. pos \in 1 .. Len(list)
  <2>1. pos \in Nat /\ pos > 0
    BY <1>1 DEF OInv, IInv, StoreInv
  <2> QED BY <1>1, <1>3, <2>1
<1> HIDE DEF f
<1>5. r = f[pos]
  <2>1. f[pos] \in IndexRecord
    BY <1>3, <1>4, SeqElement
  <2>2. list[pos] = Entry(f[pos], C)
    BY <1>3, <1>4
  <2> QED BY <2>1, <2>2 DEF IndexRecord, Entry
<1> HIDE DEF r
<1>6. WriteAt(f, pos, r) = f
  BY <1>3, <1>4, <1>5 DEF WriteAt
<1>7. idxFiles' = idxFiles
  <2>1. idxFiles \in Seq(Seq(IndexRecord))
    BY DEF OInv, IInv, DiskInv
  <2> QED BY <1>1, <1>3, <1>6, <2>1 DEF f
<1>8. QuietStep
  BY <1>1, <1>2 DEF QuietStep
<1> QED BY <1>2, <1>7, <1>8, QuietKeeps, SameFilesSameLog, Zenon DEF Others, Silent
-----------------------------------------------------------------------------
(* Rollover *)

(* The cache takes in the file that is full. *)
LEMMA CacheAddIsSilent ==
  ASSUME OInv, CacheAdd
  PROVE  Others' /\ Silent
<1> DEFINE C == Current
           c == [min |-> list[1].id, max |-> list[Len(list)].id]
<1>1. /\ idxFiles' = idxFiles /\ tried' = tried /\ acked' = acked /\ sid' = sid /\ list' = list
      /\ up' = up /\ entriesCount' = entriesCount
      /\ totalNumberOfMessages' = totalNumberOfMessages /\ maxMessageID' = maxMessageID
      /\ spc = "cacheAdd" /\ spc' = "clear" /\ fileCache' = Append(fileCache, c)
  BY DEF CacheAdd, Goto, disk, faults, counters, history
<1>2. /\ C = Len(idxFiles) /\ C \in 1 .. Len(idxFiles) /\ Len(idxFiles[C]) = Len(list)
      /\ entriesCount = Len(list) /\ Len(list) \in Nat
      /\ \A k \in 1 .. Len(list) : list[k] = Entry(idxFiles[C][k], C)
  BY <1>1, ListIsFile DEF Unlisted
<1>3. /\ Len(fileCache) \in Nat /\ C = Len(fileCache) + 1 /\ fileCache \in Seq([min : Ids, max : Ids])
  BY Lengths DEF OInv, IInv, FilesInv, Current
<1>4. messagesPerFile \in Nat /\ messagesPerFile > 0 /\ Len(list) = messagesPerFile
  BY <1>1, <1>2, PartitionAssumption DEF OInv, LayoutInv
<1>5. c = ReadCacheEntry(C)
  BY <1>2, <1>4 DEF ReadCacheEntry, Entry
<1> HIDE DEF c
<1>6. /\ Len(fileCache') = C /\ fileCache'[C] = c
      /\ \A n \in 1 .. Len(fileCache) : fileCache'[n] = fileCache[n]
  BY <1>1, <1>3
<1>7. Current' = C + 1
  BY <1>6 DEF Current
<1> HIDE DEF C
<1>8. OrderInv'
  BY <1>1 DEF OInv, OrderInv, Ascending
<1>9. LayoutInv'
  <2>1. \A n \in 1 .. Len(fileCache') : fileCache'[n] = ReadCacheEntry(n)'
    <3> SUFFICES ASSUME NEW n \in 1 .. Len(fileCache') PROVE fileCache'[n] = ReadCacheEntry(n)
      BY <1>1 DEF ReadCacheEntry
    <3>1. CASE n = C
      BY <1>5, <1>6, <3>1
    <3>2. CASE n # C
      <4>1. n \in 1 .. Len(fileCache)
        BY <1>3, <1>6, <3>2
      <4> QED BY <1>6, <4>1 DEF OInv, LayoutInv
    <3> QED BY <3>1, <3>2
  <2>2. FullBefore(idxFiles, messagesPerFile)'
    BY <1>1 DEF OInv, LayoutInv, FullBefore
  <2>3. \A n \in 1 .. Len(idxFiles) : n < C + 1 => Len(idxFiles[n]) = messagesPerFile
    <3>1. \A n \in 1 .. Len(idxFiles) : n < C => Len(idxFiles[n]) = messagesPerFile
      BY DEF OInv, LayoutInv, C
    <3> QED BY <1>2, <1>4, <3>1
  <2>4. Len(idxFiles) < C + 1 /\ Len(idxFiles) <= C + 1
    BY <1>2
  <2>5. entriesCount <= messagesPerFile
    BY DEF OInv, LayoutInv
  <2> QED BY <1>1, <1>7, <2>1, <2>2, <2>3, <2>4, <2>5 DEF LayoutInv
<1>10. CountInv'
  BY <1>1 DEF OInv, CountInv, Count, Unlisted
<1> QED BY <1>1, <1>8, <1>9, <1>10, SameFilesSameLog DEF Others, Silent

(* The list begins anew. *)
LEMMA ListClearIsSilent ==
  ASSUME OInv, ListClear
  PROVE  Others' /\ Silent
<1>1. /\ idxFiles' = idxFiles /\ tried' = tried /\ acked' = acked /\ sid' = sid /\ list' = <<>>
      /\ fileCache' = fileCache /\ up' = up /\ entriesCount' = 0
      /\ totalNumberOfMessages' = totalNumberOfMessages /\ maxMessageID' = maxMessageID
      /\ spc = "clear" /\ spc' = "createMsg"
  BY DEF ListClear, Goto, disk, faults, history
<1>2. Current' = Current /\ Unlisted = 0 /\ Unlisted' = 0
  BY <1>1 DEF Current, Unlisted
<1>3. OrderInv'
  BY <1>1 DEF OInv, OrderInv, Ascending
<1>4. LayoutInv'
  <2>1. /\ \A n \in 1 .. Len(fileCache) : fileCache'[n] = ReadCacheEntry(n)'
        /\ FullBefore(idxFiles, messagesPerFile)'
        /\ \A n \in 1 .. Len(idxFiles') : n < Current' => Len(idxFiles'[n]) = messagesPerFile
    BY <1>1, <1>2 DEF OInv, LayoutInv, ReadCacheEntry, FullBefore
  <2>2. Len(idxFiles') <= Current' /\ ~(Current' <= Len(idxFiles'))
    <3>1. Len(idxFiles) < Current /\ Len(idxFiles) \in Nat /\ Current \in Nat
      BY <1>1, Lengths DEF OInv, LayoutInv
    <3> QED BY <1>1, <1>2, <3>1
  <2>3. messagesPerFile \in Nat /\ messagesPerFile > 0
    BY PartitionAssumption
  <2> QED BY <1>1, <2>1, <2>2, <2>3 DEF LayoutInv
<1>5. CountInv'
  BY <1>1, <1>2 DEF OInv, CountInv, Count
<1> QED BY <1>1, <1>3, <1>4, <1>5, SameFilesSameLog DEF Others, Silent

(* A new index file, when the one before it is full. *)
LEMMA NewFileIsSilent ==
  ASSUME ListFacts, OInv, CreateIdxFile, Len(idxFiles) < Current
  PROVE  Others' /\ Silent
<1> DEFINE F == idxFiles
           G == Append(F, <<>>)
           N == Len(idxFiles)
<1>1. /\ tried' = tried /\ acked' = acked /\ sid' = sid /\ list' = list
      /\ fileCache' = fileCache /\ up' = up /\ entriesCount' = entriesCount
      /\ totalNumberOfMessages' = totalNumberOfMessages /\ maxMessageID' = maxMessageID
      /\ spc = "createIdx" /\ spc' = "header" /\ idxFiles' = G
  BY DEF CreateIdxFile, Goto, faults, history
<1>2. Current' = Current /\ Unlisted = 0 /\ Unlisted' = 0
  BY <1>1 DEF Current, Unlisted
<1>3. /\ F \in Seq(Seq(IndexRecord)) /\ N \in Nat /\ Len(fileCache) \in Nat
      /\ Current = N + 1 /\ Len(fileCache) = N
  <2>1. F \in Seq(Seq(IndexRecord)) /\ Len(fileCache) <= N
    BY DEF OInv, IInv, DiskInv, FilesInv
  <2>2. N \in Nat /\ Len(fileCache) \in Nat /\ Current = Len(fileCache) + 1
    BY Lengths DEF OInv, Current
  <2> QED BY <2>1, <2>2
<1>4. list = <<>> /\ Len(list) = 0
  <2>1. list # <<>> => Current <= N
    BY <1>1 DEF OInv, IInv, ListInv
  <2> QED BY <1>3, <2>1
<1>5. /\ Len(G) = N + 1 /\ G[N + 1] = <<>> /\ Len(G[N + 1]) = 0
      /\ \A n \in 1 .. N : G[n] = F[n]
  BY <1>3
<1>6. LogOf(G) = LogOf(F)
  <2> HIDE DEF F
  <2> QED BY <1>3, EmptyFileIsSilent
<1> HIDE DEF G, F, N
<1>7. \A n \in 1 .. Len(G) : n \in 1 .. N \/ (n = N + 1 /\ Len(G[n]) = 0)
  BY <1>3, <1>5
<1>8. OrderInv'
  <2>1. \A n \in 1 .. Len(G) : \A k \in 1 .. Len(G[n]) :
          n \in 1 .. N /\ k \in 1 .. Len(F[n]) /\ G[n][k] = F[n][k]
    BY <1>5, <1>7
  <2>2. Ascending(F) /\ tried \subseteq Ids /\ sid \in tried /\ (\A id \in tried : id <= sid)
    BY <1>1 DEF OInv, OrderInv, F
  <2>3. \A n \in 1 .. N : \A k \in 1 .. Len(F[n]) : F[n][k].id \in tried /\ F[n][k].id < sid
    BY <1>1 DEF OInv, OrderInv, F, N
  <2>4. Ascending(G)
    <3> SUFFICES ASSUME NEW m \in 1 .. Len(G), NEW n \in 1 .. Len(G),
                        NEW j \in 1 .. Len(G[m]), NEW k \in 1 .. Len(G[n]),
                        m < n \/ (m = n /\ j < k)
                 PROVE  G[m][j].id < G[n][k].id
      BY Zenon DEF Ascending
    <3>1. m \in 1 .. Len(F) /\ j \in 1 .. Len(F[m]) /\ G[m][j] = F[m][j]
      BY <2>1, Zenon DEF N, F
    <3>2. n \in 1 .. Len(F) /\ k \in 1 .. Len(F[n]) /\ G[n][k] = F[n][k]
      BY <2>1, Zenon DEF N, F
    <3>3. F[m][j].id < F[n][k].id
      BY <2>2, <3>1, <3>2, Zenon DEF Ascending
    <3> QED BY <3>1, <3>2, <3>3
  <2>5. \A n \in 1 .. Len(G) : \A k \in 1 .. Len(G[n]) : G[n][k].id \in tried /\ G[n][k].id < sid
    BY <2>1, <2>3
  <2> QED BY <1>1, <2>2, <2>4, <2>5 DEF OrderInv
<1>9. LayoutInv'
  <2>1. \A n \in 1 .. N : Len(F[n]) = messagesPerFile
    BY <1>3 DEF OInv, LayoutInv, F, N
  <2>2. messagesPerFile \in Nat
    BY PartitionAssumption
  <2>3. FullBefore(G, messagesPerFile) /\ \A n \in 1 .. Len(G) : n < N + 1 => Len(G[n]) = messagesPerFile
    BY <1>3, <1>5, <1>7, <2>1, <2>2 DEF FullBefore
  <2>4. \A n \in 1 .. Len(fileCache') : fileCache'[n] = ReadCacheEntry(n)'
    <3> SUFFICES ASSUME NEW n \in 1 .. Len(fileCache) PROVE fileCache[n] = ReadCacheEntry(n)'
      BY <1>1
    <3>1. fileCache[n] = ReadCacheEntry(n)
      BY DEF OInv, LayoutInv
    <3>2. G[n] = F[n]
      BY <1>3, <1>5
    <3> QED BY <1>1, <3>1, <3>2 DEF ReadCacheEntry, F
  <2>5. entriesCount <= messagesPerFile /\ entriesCount < messagesPerFile
    BY <1>1 DEF OInv, LayoutInv
  <2>6. /\ Len(idxFiles') <= Current' /\ Len(idxFiles'[Current']) = Len(list') + Unlisted'
        /\ \A k \in 1 .. Len(list') : list'[k] = Entry(idxFiles'[Current'][k], Current')
    BY <1>1, <1>2, <1>3, <1>4, <1>5
  <2> QED BY <1>1, <1>2, <1>3, <2>3, <2>4, <2>5, <2>6 DEF LayoutInv
<1>10. CountInv'
  <2>1. Count(G, messagesPerFile) = Count(F, messagesPerFile)
    <3>1. G # <<>> /\ Count(G, messagesPerFile) = N * messagesPerFile
      <4>1. G # <<>> /\ (N + 1) - 1 = N /\ N * messagesPerFile \in Nat
        BY <1>3, <1>5, PartitionAssumption
      <4> QED BY <1>5, <4>1 DEF Count
    <3>2. CASE F = <<>>
      <4>1. N = 0
        BY <3>2 DEF N, F
      <4>2. N * messagesPerFile = 0
        BY <4>1, PartitionAssumption
      <4> QED BY <3>1, <3>2, <4>2 DEF Count
    <3>3. CASE F # <<>>
      <4>1. N \in 1 .. N
        BY <1>3, <3>3, EmptyList DEF N, F
      <4>2. Len(F[N]) = messagesPerFile
        BY <1>3, <4>1 DEF OInv, LayoutInv, F, N
      <4>3. Count(F, messagesPerFile) = (N - 1) * messagesPerFile + messagesPerFile
        BY <3>3, <4>2 DEF Count, N, F
      <4> QED BY <1>3, <3>1, <4>3, PartitionAssumption
    <3> QED BY <3>2, <3>3
  <2>2. \A n \in 1 .. Len(G) : \A k \in 1 .. Len(G[n]) :
          n \in 1 .. N /\ k \in 1 .. Len(F[n]) /\ G[n][k] = F[n][k]
    BY <1>5, <1>7
  <2>3. \A n \in 1 .. N : n \in 1 .. Len(G) /\ G[n] = F[n]
    BY <1>3, <1>5
  <2>4. /\ totalNumberOfMessages \in Nat /\ maxMessageID \in Nat
        /\ up => totalNumberOfMessages + Unlisted = Count(F, messagesPerFile)
        /\ ~up => totalNumberOfMessages = 0
        /\ up => \A n \in 1 .. N : \A k \in 1 .. Len(F[n]) : F[n][k].id <= maxMessageID
        /\ \/ maxMessageID = 0
           \/ \E n \in 1 .. N : \E k \in 1 .. Len(F[n]) : F[n][k].id = maxMessageID
        /\ \A id \in acked : \E n \in 1 .. N : \E k \in 1 .. Len(F[n]) : F[n][k].id = id
    BY <1>1 DEF OInv, CountInv, F, N
  <2>5. up => \A n \in 1 .. Len(G) : \A k \in 1 .. Len(G[n]) : G[n][k].id <= maxMessageID
    BY <2>2, <2>4
  <2>6. \/ maxMessageID = 0
        \/ \E n \in 1 .. Len(G) : \E k \in 1 .. Len(G[n]) : G[n][k].id = maxMessageID
    BY <2>3, <2>4
  <2>7. \A id \in acked : \E n \in 1 .. Len(G) : \E k \in 1 .. Len(G[n]) : G[n][k].id = id
    BY <2>3, <2>4
  <2>8. /\ up' => totalNumberOfMessages' + Unlisted' = Count(idxFiles', messagesPerFile)
        /\ ~up' => totalNumberOfMessages' = 0
    BY <1>1, <1>2, <2>1, <2>4
  <2>9. totalNumberOfMessages' \in Nat /\ maxMessageID' \in Nat
    BY <1>1, <2>4
  <2>10. up' => \A n \in 1 .. Len(idxFiles') : \A k \in 1 .. Len(idxFiles'[n]) :
                  idxFiles'[n][k].id <= maxMessageID'
    BY <1>1, <2>5, Zenon
  <2>11. \/ maxMessageID' = 0
         \/ \E n \in 1 .. Len(idxFiles') : \E k \in 1 .. Len(idxFiles'[n]) :
              idxFiles'[n][k].id = maxMessageID'
    BY <1>1, <2>6, Zenon
  <2>12. \A id \in acked' : \E n \in 1 .. Len(idxFiles') : \E k \in 1 .. Len(idxFiles'[n]) :
           idxFiles'[n][k].id = id
    BY <1>1, <2>7, Zenon
  <2> QED BY <2>8, <2>9, <2>10, <2>11, <2>12, Zenon DEF CountInv
<1>11. LogOf(idxFiles)' = LogOf(G)
  BY <1>1 DEF LogOf, IdsIn
<1> QED BY <1>1, <1>6, <1>8, <1>9, <1>10, <1>11 DEF Others, Silent, F

(* The index file is there already. *)
LEMMA CreateIdxIsSilent ==
  ASSUME ListFacts, OInv, CreateIdxFile
  PROVE  Others' /\ Silent
<1>1. CASE Len(idxFiles) < Current
  BY <1>1, NewFileIsSilent
<1>2. CASE ~(Len(idxFiles) < Current)
  <2>1. /\ idxFiles' = idxFiles /\ tried' = tried /\ acked' = acked /\ sid' = sid /\ list' = list
        /\ fileCache' = fileCache /\ up' = up /\ entriesCount' = entriesCount
        /\ totalNumberOfMessages' = totalNumberOfMessages /\ maxMessageID' = maxMessageID
        /\ spc = "createIdx" /\ spc' = "header"
    BY <1>2 DEF CreateIdxFile, Goto, faults, history
  <2>2. QuietStep
    BY <2>1 DEF OInv, LayoutInv, QuietStep
  <2> QED BY <2>1, <2>2, QuietKeeps, SameFilesSameLog, Zenon DEF Others, Silent
<1> QED BY <1>1, <1>2
-----------------------------------------------------------------------------
(* The index entry *)

(* The entry goes behind all others of the last file. *)
LEMMA IndexGrows ==
  ASSUME OInv, WriteIndex
  PROVE  /\ Current = Len(idxFiles) /\ Current \in 1 .. Len(idxFiles)
         /\ idxFiles' \in Seq(Seq(IndexRecord)) /\ Len(idxFiles') = Len(idxFiles)
         /\ \A n \in 1 .. Len(idxFiles) : n # Current => idxFiles'[n] = idxFiles[n]
         /\ idxFiles'[Current] = Append(idxFiles[Current], [id |-> sid, offset |-> messageOffset])
         /\ [id |-> sid, offset |-> messageOffset] \in IndexRecord
         /\ idxFiles[Current] \in Seq(IndexRecord)
         /\ Len(idxFiles[Current]) = Len(list) /\ Len(list) \in Nat
<1> DEFINE C == Current
           f == idxFiles[C]
           r == [id |-> sid, offset |-> messageOffset]
<1>1. spc = "index" /\ idxFiles' = [idxFiles EXCEPT ![C] = WriteAt(f, entriesCount + 1, r)]
  BY DEF WriteIndex
<1>2. /\ C = Len(idxFiles) /\ C \in 1 .. Len(idxFiles) /\ f \in Seq(IndexRecord)
      /\ Len(f) = Len(list) /\ entriesCount = Len(list) /\ Len(list) \in Nat
  BY <1>1, ListIsFile DEF Unlisted
<1>3. sid \in Ids /\ appendFilePosition \in Nat
  BY <1>1 DEF OInv, IInv, StoreInv
<1>4. r \in IndexRecord
  BY <1>3 DEF IndexRecord, messageOffset
<1>5. idxFiles \in Seq(Seq(IndexRecord))
  BY DEF OInv, IInv, DiskInv
<1> HIDE DEF C, f, r
<1>6. WriteAt(f, entriesCount + 1, r) = Append(f, r)
  BY <1>2 DEF WriteAt
<1> DEFINE w == Append(f, r)
<1>7. w \in Seq(IndexRecord)
  BY <1>2, <1>4
<1> HIDE DEF w
<1>8. idxFiles' = [idxFiles EXCEPT ![C] = w]
  BY <1>1, <1>6, Zenon DEF w
<1>9. /\ idxFiles' \in Seq(Seq(IndexRecord)) /\ Len(idxFiles') = Len(idxFiles) /\ idxFiles'[C] = w
      /\ \A n \in 1 .. Len(idxFiles) : n # C => idxFiles'[n] = idxFiles[n]
  BY <1>2, <1>5, <1>7, <1>8
<1> QED BY <1>2, <1>4, <1>9 DEF C, f, r, w

(* Its id becomes the end of the log. *)
LEMMA WriteIndexPersists ==
  ASSUME ListFacts, OInv, WriteIndex
  PROVE  /\ Others' /\ sid \in Ids /\ acked' = acked
         /\ \A i \in 1 .. Len(LogOf(idxFiles)) : LogOf(idxFiles)[i] < sid
         /\ LogOf(idxFiles)' = Append(LogOf(idxFiles), sid)
<1> DEFINE C == Current
           F == idxFiles
           G == idxFiles'
           f == F[C]
           N == Len(idxFiles)
           L == Len(list)
           r == [id |-> sid, offset |-> messageOffset]
<1>1. /\ tried' = tried /\ acked' = acked /\ sid' = sid /\ list' = list
      /\ fileCache' = fileCache /\ up' = up /\ entriesCount' = entriesCount
      /\ totalNumberOfMessages' = totalNumberOfMessages /\ maxMessageID' = maxMessageID
      /\ appendFilePosition' = appendFilePosition /\ spc = "index" /\ spc' = "finish"
  BY DEF WriteIndex, Goto, faults, counters, history
<1>2. /\ C = N /\ C \in 1 .. N /\ G \in Seq(Seq(IndexRecord)) /\ Len(G) = N
      /\ \A n \in 1 .. N : n # C => G[n] = F[n]
      /\ G[C] = Append(f, r) /\ r \in IndexRecord /\ f \in Seq(IndexRecord)
      /\ Len(f) = L /\ L \in Nat
  BY IndexGrows
<1>3. /\ Current' = Current /\ Unlisted = 0 /\ Unlisted' = 1 /\ messageOffset' = messageOffset
  BY <1>1 DEF Current, Unlisted, messageOffset
<1>4. /\ F \in Seq(Seq(IndexRecord)) /\ N \in Nat /\ N = Len(F)
      /\ Ascending(F) /\ FullBefore(F, messagesPerFile) /\ tried \subseteq Ids
      /\ sid \in tried /\ \A id \in tried : id <= sid
  BY <1>1, Lengths DEF OInv, IInv, DiskInv, OrderInv, LayoutInv
<1>5. \A n \in 1 .. N : \A k \in 1 .. Len(F[n]) : F[n][k].id < sid /\ F[n][k].id \in tried
  BY <1>1 DEF OInv, OrderInv
<1>6. r.id = sid
  OBVIOUS
<1> HIDE DEF C, F, G, f, N, L, r
<1>7. Len(G[C]) = L + 1 /\ G[C][L + 1] = r /\ \A k \in 1 .. L : G[C][k] = F[C][k]
  BY <1>2 DEF f
<1>8. \A n \in 1 .. N : \A k \in 1 .. Len(G[n]) :
        \/ n = C /\ k = L + 1 /\ G[n][k] = r
        \/ k \in 1 .. Len(F[n]) /\ G[n][k] = F[n][k]
  <2> SUFFICES ASSUME NEW n \in 1 .. N, NEW k \in 1 .. Len(G[n]), ~(n = C /\ k = L + 1)
               PROVE  k \in 1 .. Len(F[n]) /\ G[n][k] = F[n][k]
    BY <1>7
  <2>1. CASE n = C
    <3>1. k \in 1 .. L
      BY <1>2, <1>7, <2>1
    <3> QED BY <1>2, <1>7, <2>1, <3>1 DEF f
  <2>2. CASE n # C
    BY <1>2, <2>2
  <2> QED BY <2>1, <2>2
<1>9. \A n \in 1 .. N : \A k \in 1 .. Len(F[n]) : k \in 1 .. Len(G[n]) /\ G[n][k] = F[n][k]
  <2> SUFFICES ASSUME NEW n \in 1 .. N, NEW k \in 1 .. Len(F[n])
               PROVE  k \in 1 .. Len(G[n]) /\ G[n][k] = F[n][k]
    OBVIOUS
  <2>1. CASE n = C
    BY <1>2, <1>7, <2>1 DEF f
  <2>2. CASE n # C
    BY <1>2, <2>2
  <2> QED BY <2>1, <2>2
<1>10. \A n \in 1 .. N : \A k \in 1 .. Len(G[n]) : G[n][k].id \in tried
  BY <1>4, <1>5, <1>6, <1>8
<1>11. Ascending(G)
  <2> SUFFICES ASSUME NEW m \in 1 .. N, NEW n \in 1 .. N,
                      NEW j \in 1 .. Len(G[m]), NEW k \in 1 .. Len(G[n]),
                      m < n \/ (m = n /\ j < k)
               PROVE  G[m][j].id < G[n][k].id
    BY <1>2 DEF Ascending
  <2>1. j \in 1 .. Len(F[m]) /\ G[m][j] = F[m][j]
    <3>1. CASE m = C /\ j = L + 1
      <4>1. n = C /\ k \in 1 .. L + 1
        BY <1>2, <1>7, <3>1
      <4> QED BY <1>2, <3>1, <4>1
    <3> QED BY <1>8, <3>1
  <2>2. CASE n = C /\ k = L + 1 /\ G[n][k] = r
    BY <1>5, <1>6, <2>1, <2>2
  <2>3. CASE k \in 1 .. Len(F[n]) /\ G[n][k] = F[n][k]
    <3>1. F[m][j].id < F[n][k].id
      BY <1>4, <2>1, <2>3 DEF Ascending, N, F
    <3> QED BY <2>1, <2>3, <3>1
  <2> QED BY <1>8, <2>2, <2>3, Zenon
<1>12. OrderInv'
  <2>1. idxFiles'[Current'][Len(list') + 1] = [id |-> sid', offset |-> messageOffset']
    BY <1>1, <1>3, <1>7 DEF C, G, L, r
  <2> QED BY <1>1, <1>2, <1>4, <1>10, <1>11, <2>1 DEF OrderInv, G
<1>13. /\ entriesCount = L /\ L < messagesPerFile /\ messagesPerFile \in Nat
       /\ \A k \in 1 .. L : list[k] = Entry(F[C][k], C)
       /\ up
  <2>1. entriesCount = L
    BY <1>1 DEF OInv, IInv, ListInv, L
  <2>2. up
    BY <1>1 DEF OInv, IInv, StoreInv
  <2>3. \A k \in 1 .. L : list[k] = Entry(F[C][k], C)
    BY <1>1, <1>2, <2>2 DEF OInv, LayoutInv, L, F, C, N
  <2> QED BY <1>1, <2>1, <2>2, <2>3, PartitionAssumption DEF OInv, LayoutInv
<1>14. LayoutInv'
  <2>1. FullBefore(G, messagesPerFile)
    BY <1>2, <1>4, <1>7, <1>13 DEF FullBefore
  <2>2. \A n \in 1 .. Len(G) : n < C => Len(G[n]) = messagesPerFile
    BY <1>2, <2>1 DEF FullBefore
  <2>3. \A n \in 1 .. Len(fileCache') : fileCache'[n] = ReadCacheEntry(n)'
    <3> SUFFICES ASSUME NEW n \in 1 .. Len(fileCache) PROVE fileCache[n] = ReadCacheEntry(n)'
      BY <1>1
    <3>1. fileCache[n] = ReadCacheEntry(n)
      BY DEF OInv, LayoutInv
    <3>2. Len(fileCache) \in Nat /\ Len(fileCache) < N
      BY <1>2, Lengths DEF C, Current
    <3>3. G[n] = F[n]
      BY <1>2, <3>2 DEF C, Current
    <3> QED BY <3>1, <3>3 DEF ReadCacheEntry, F, G
  <2>4. \A k \in 1 .. L : list[k] = Entry(G[C][k], C)
    BY <1>7, <1>13
  <2>5. Len(idxFiles') <= Current' /\ Len(idxFiles'[Current']) = Len(list') + Unlisted'
    BY <1>1, <1>2, <1>3, <1>7 DEF C, G, L
  <2>6. \A k \in 1 .. Len(list') : list'[k] = Entry(idxFiles'[Current'][k], Current')
    BY <1>1, <1>3, <2>4 DEF C, G, L
  <2>7. \A n \in 1 .. Len(idxFiles') : n < Current' => Len(idxFiles'[n]) = messagesPerFile
    BY <1>3, <2>2 DEF C, G
  <2>8. entriesCount' < messagesPerFile /\ entriesCount' <= messagesPerFile
    BY <1>1, <1>2, <1>13
  <2> QED BY <1>1, <2>1, <2>3, <2>5, <2>6, <2>7, <2>8, Zenon DEF LayoutInv, G
<1>15. CountInv'
  <2>1. Count(G, messagesPerFile) = Count(F, messagesPerFile) + 1 /\ Count(F, messagesPerFile) \in Nat
    <3>1. F # <<>> /\ G # <<>>
      BY <1>2, <1>4 DEF N, F
    <3>2. Count(F, messagesPerFile) = (N - 1) * messagesPerFile + L
      BY <1>2, <1>4, <3>1 DEF Count, f
    <3>3. Count(G, messagesPerFile) = (N - 1) * messagesPerFile + (L + 1)
      BY <1>2, <1>7, <3>1 DEF Count
    <3>4. N - 1 \in Nat /\ (N - 1) * messagesPerFile \in Nat
      BY <1>2, <1>13
    <3> QED BY <1>2, <3>2, <3>3, <3>4
  <2>2. /\ totalNumberOfMessages \in Nat /\ maxMessageID \in Nat
        /\ totalNumberOfMessages + Unlisted = Count(F, messagesPerFile)
        /\ \A n \in 1 .. N : \A k \in 1 .. Len(F[n]) : F[n][k].id <= maxMessageID
        /\ \/ maxMessageID = 0
           \/ \E n \in 1 .. N : \E k \in 1 .. Len(F[n]) : F[n][k].id = maxMessageID
        /\ \A id \in acked : \E n \in 1 .. N : \E k \in 1 .. Len(F[n]) : F[n][k].id = id
    BY <1>1, <1>13 DEF OInv, CountInv, F, N
  <2>3. totalNumberOfMessages' + Unlisted' = Count(idxFiles', messagesPerFile)
    BY <1>1, <1>3, <2>1, <2>2 DEF G
  <2>4. \A n \in 1 .. Len(G) : \A k \in 1 .. Len(G[n]) : G[n][k].id <= maxMessageID \/ G[n][k].id = sid
    BY <1>2, <1>6, <1>8, <2>2
  <2>7. ASSUME NEW id, \E n \in 1 .. N : \E k \in 1 .. Len(F[n]) : F[n][k].id = id
        PROVE  \E n \in 1 .. Len(G) : \E k \in 1 .. Len(G[n]) : G[n][k].id = id
    <3>1. PICK n \in 1 .. N : \E k \in 1 .. Len(F[n]) : F[n][k].id = id
      BY <2>7, Zenon
    <3>2. PICK k \in 1 .. Len(F[n]) : F[n][k].id = id
      BY <3>1, Zenon
    <3>3. n \in 1 .. Len(G) /\ k \in 1 .. Len(G[n]) /\ G[n][k].id = id
      BY <1>2, <1>9, <3>2
    <3> QED BY <3>3, Zenon
  <2>5. \/ maxMessageID = 0
        \/ \E n \in 1 .. Len(G) : \E k \in 1 .. Len(G[n]) : G[n][k].id = maxMessageID
    BY <2>2, <2>7, Zenon
  <2>6. \A id \in acked : \E n \in 1 .. Len(G) : \E k \in 1 .. Len(G[n]) : G[n][k].id = id
    BY <2>2, <2>7, Zenon
  <2> QED BY <1>1, <1>13, <2>2, <2>3, <2>4, <2>5, <2>6, Zenon DEF CountInv, G
<1>16. LogOf(G) = Append(LogOf(F), sid)
  <2>1. F # <<>> /\ N \in 1 .. N /\ G[N] = Append(F[N], r)
    BY <1>2, <1>4 DEF f
  <2>2. \A k \in 1 .. N - 1 : F[k] = G[k]
    BY <1>2, <1>4
  <2> QED BY <1>2, <1>4, <1>6, <2>1, <2>2, WrittenEntryEndsLog
<1>17. \A i \in 1 .. Len(LogOf(F)) : LogOf(F)[i] < sid
  <2> SUFFICES ASSUME NEW i \in 1 .. Len(LogOf(F)) PROVE LogOf(F)[i] < sid
    OBVIOUS
  <2>1. PICK n \in 1 .. N : \E k \in 1 .. Len(F[n]) : F[n][k].id = LogOf(F)[i]
    <3>1. \E n \in 1 .. Len(F) : \E k \in 1 .. Len(F[n]) : LogOf(F)[i] = F[n][k].id
      BY <1>4, FilesLogProperties, Zenon
    <3> QED BY <1>4, <3>1, Zenon
  <2> QED BY <1>5, <2>1
<1>18. LogOf(idxFiles)' = LogOf(G)
  BY DEF LogOf, IdsIn, G
<1>19. sid \in Ids
  BY <1>4
<1> QED BY <1>1, <1>12, <1>14, <1>15, <1>16, <1>17, <1>18, <1>19 DEF Others, F
-----------------------------------------------------------------------------
(* The end of Store *)

(* The new entry is the last of the list. *)
LEMMA ListGrows ==
  ASSUME ListFacts, OInv, StoreReturns
  PROVE  /\ idxFiles[Current][Len(list) + 1].id = sid
         /\ Len(list) + 1 \in 1 .. Len(idxFiles[Current])
         /\ Len(list') = Len(list) + 1 /\ Len(list) \in Nat
         /\ \A k \in 1 .. Len(list) : list'[k] = list[k]
         /\ list'[Len(list) + 1] = Entry(idxFiles[Current][Len(list) + 1], Current)
<1> DEFINE C == Current
           f == idxFiles[C]
           L == Len(list)
           e == [id |-> sid, offset |-> messageOffset, file |-> C]
<1>1. spc = "finish" /\ list' = InsertElem(list, e)
  BY DEF StoreReturns
<1>2. /\ C \in 1 .. Len(idxFiles) /\ f \in Seq(IndexRecord) /\ Len(f) = L + 1 /\ L \in Nat
      /\ \A k \in 1 .. L : list[k] = Entry(f[k], C)
  BY <1>1, ListIsFile DEF Unlisted
<1>3. f[L + 1] = [id |-> sid, offset |-> messageOffset]
  BY <1>1 DEF OInv, OrderInv
<1>4. f[L + 1].id = sid /\ e = Entry(f[L + 1], C) /\ e.id = sid
  BY <1>3 DEF Entry
<1>5. list \in Seq(GoodEntries) /\ SortedById(list)
  BY DEF OInv, IInv, ListInv, IsGoodList
<1>6. Entry(f[L + 1], C) \in GoodEntries
  BY <1>2 DEF OInv, IInv, DiskInv
<1>8. \A k \in 1 .. L : f[k].id < f[L + 1].id
  BY <1>2 DEF OInv, OrderInv, Ascending
<1> HIDE DEF C, f, L, e
<1>7. \A k \in 1 .. L : list[k].id = f[k].id
  <2> SUFFICES ASSUME NEW k \in 1 .. L PROVE list[k].id = f[k].id
    OBVIOUS
  <2>1. list[k] = Entry(f[k], C)
    BY <1>2
  <2> QED BY <2>1 DEF Entry
<1>9. \A i \in 1 .. Len(list) : list[i].id < e.id
  BY <1>4, <1>7, <1>8 DEF L
<1>10. InsertElem(list, e) = Append(list, e)
  BY <1>4, <1>5, <1>6, <1>9, EntriesHaveIds DEF ListFacts, InsertLastFact
<1>11. Len(list') = L + 1 /\ list'[L + 1] = e /\ \A k \in 1 .. L : list'[k] = list[k]
  BY <1>1, <1>2, <1>5, <1>10 DEF L
<1> QED BY <1>2, <1>4, <1>11 DEF C, f, L

(* The stored id is one of the log. *)
LEMMA StoreReturnsAcks ==
  ASSUME ListFacts, OInv, StoreReturns
  PROVE  /\ Others' /\ sid \in Ids /\ acked' = acked \union {sid}
         /\ \E i \in 1 .. Len(LogOf(idxFiles)) : LogOf(idxFiles)[i] = sid
         /\ LogOf(idxFiles)' = LogOf(idxFiles)
<1> DEFINE C == Current
           F == idxFiles
           L == Len(list)
           N == Len(idxFiles)
<1>1. /\ tried' = tried /\ acked' = acked \union {sid} /\ sid' = sid
      /\ fileCache' = fileCache /\ up' = up /\ entriesCount' = entriesCount + 1
      /\ totalNumberOfMessages' = totalNumberOfMessages + 1 /\ maxMessageID' = MaxAfter(sid)
      /\ idxFiles' = idxFiles /\ spc = "finish" /\ spc' = "idle"
  BY DEF StoreReturns, Goto, faults, disk
<1>2. /\ F[C][L + 1].id = sid /\ L + 1 \in 1 .. Len(F[C])
      /\ Len(list') = L + 1 /\ L \in Nat /\ \A k \in 1 .. L : list'[k] = list[k]
      /\ list'[L + 1] = Entry(F[C][L + 1], C)
  BY ListGrows
<1>3. /\ C = N /\ C \in 1 .. N /\ Len(F[C]) = L + 1 /\ entriesCount = L
      /\ \A k \in 1 .. L : list[k] = Entry(F[C][k], C)
  BY <1>1, ListIsFile DEF Unlisted
<1>4. Current' = Current /\ Unlisted = 1 /\ Unlisted' = 0
  BY <1>1 DEF Current, Unlisted
<1>5. /\ F \in Seq(Seq(IndexRecord)) /\ Ascending(F) /\ FullBefore(F, messagesPerFile) /\ sid \in tried
      /\ tried \subseteq Ids
  BY <1>1 DEF OInv, IInv, DiskInv, OrderInv, LayoutInv
<1>6. up /\ sid \in Nat
  BY <1>1, <1>5, PartitionAssumption DEF OInv, IInv, StoreInv
<1>7. OrderInv'
  BY <1>1 DEF OInv, OrderInv
<1> HIDE DEF C, F, L, N
<1>8. LayoutInv'
  <2>1. \A k \in 1 .. L + 1 : list'[k] = Entry(F[C][k], C)
    <3> SUFFICES ASSUME NEW k \in 1 .. L + 1 PROVE list'[k] = Entry(F[C][k], C)
      OBVIOUS
    <3>1. CASE k = L + 1
      BY <1>2, <3>1
    <3>2. CASE k # L + 1
      <4>1. k \in 1 .. L
        BY <1>2, <3>2
      <4> QED BY <1>2, <1>3, <4>1
    <3> QED BY <3>1, <3>2
  <2>2. Len(idxFiles') <= Current' /\ Len(idxFiles'[Current']) = Len(list') + Unlisted'
    BY <1>1, <1>2, <1>3, <1>4 DEF C, F, N
  <2>3. \A k \in 1 .. Len(list') : list'[k] = Entry(idxFiles'[Current'][k], Current')
    BY <1>1, <1>2, <1>4, <2>1 DEF C, F
  <2>4. /\ FullBefore(idxFiles, messagesPerFile)
        /\ \A n \in 1 .. Len(idxFiles) : n < Current => Len(idxFiles[n]) = messagesPerFile
        /\ \A n \in 1 .. Len(fileCache) : fileCache[n] = ReadCacheEntry(n)
        /\ entriesCount < messagesPerFile
    BY <1>1 DEF OInv, LayoutInv
  <2>5. entriesCount' <= messagesPerFile
    <3>1. entriesCount' = L + 1 /\ L \in Nat /\ L < messagesPerFile
      BY <1>1, <1>2, <1>3, <2>4, Zenon
    <3> QED BY <3>1, PartitionAssumption
  <2>6. \A n \in 1 .. Len(fileCache') : fileCache'[n] = ReadCacheEntry(n)'
    BY <1>1, <2>4 DEF ReadCacheEntry
  <2>7. /\ FullBefore(idxFiles', messagesPerFile)
        /\ \A n \in 1 .. Len(idxFiles') : n < Current' => Len(idxFiles'[n]) = messagesPerFile
    BY <1>1, <1>4, <2>4
  <2> QED BY <1>1, <2>2, <2>3, <2>5, <2>6, <2>7, Zenon DEF LayoutInv
<1>9. CountInv'
  <2>1. /\ totalNumberOfMessages \in Nat /\ maxMessageID \in Nat
        /\ totalNumberOfMessages + 1 = Count(F, messagesPerFile)
        /\ \A n \in 1 .. N : \A k \in 1 .. Len(F[n]) : F[n][k].id <= maxMessageID \/ F[n][k].id = sid
        /\ \/ maxMessageID = 0
           \/ \E n \in 1 .. N : \E k \in 1 .. Len(F[n]) : F[n][k].id = maxMessageID
        /\ \A id \in acked : \E n \in 1 .. N : \E k \in 1 .. Len(F[n]) : F[n][k].id = id
    BY <1>1, <1>4, <1>6 DEF OInv, CountInv, F, N
  <2>2. /\ maxMessageID' \in Nat /\ maxMessageID <= maxMessageID' /\ sid <= maxMessageID'
        /\ maxMessageID' = maxMessageID \/ maxMessageID' = sid
    <3>1. maxMessageID' = MaxAfter(sid) /\ maxMessageID \in Nat
      BY <1>1, <2>1, Zenon
    <3> QED BY <1>6, <3>1 DEF MaxAfter
  <2>3. \E n \in 1 .. N : \E k \in 1 .. Len(F[n]) : F[n][k].id = sid
    BY <1>2, <1>3, Zenon
  <2>4. totalNumberOfMessages' \in Nat /\ totalNumberOfMessages' + Unlisted' = Count(F, messagesPerFile)
    <3>1. totalNumberOfMessages \in Nat /\ totalNumberOfMessages + 1 = Count(F, messagesPerFile)
      BY <2>1, Zenon
    <3>2. totalNumberOfMessages' = totalNumberOfMessages + 1
      BY <1>1, Zenon
    <3> QED BY <1>4, <3>1, <3>2
  <2>5. \A n \in 1 .. N : \A k \in 1 .. Len(F[n]) : F[n][k].id <= maxMessageID'
    <3> SUFFICES ASSUME NEW n \in 1 .. N, NEW k \in 1 .. Len(F[n]) PROVE F[n][k].id <= maxMessageID'
      OBVIOUS
    <3>1. F[n] \in Seq(IndexRecord)
      BY <1>5, SeqElement DEF N, F
    <3>2. F[n][k] \in IndexRecord
      BY <3>1, SeqElement
    <3>3. F[n][k].id \in Nat
      BY <3>2, PartitionAssumption, Zenon DEF IndexRecord
    <3> QED BY <2>1, <2>2, <3>3
  <2>6. \/ maxMessageID' = 0
        \/ \E n \in 1 .. N : \E k \in 1 .. Len(F[n]) : F[n][k].id = maxMessageID'
    <3>1. CASE maxMessageID' = sid
      BY <2>3, <3>1, Zenon
    <3>2. CASE maxMessageID' = maxMessageID
      BY <2>1, <3>2, Zenon
    <3> QED BY <2>2, <3>1, <3>2, Zenon
  <2>7. \A id \in acked' : \E n \in 1 .. N : \E k \in 1 .. Len(F[n]) : F[n][k].id = id
    <3> SUFFICES ASSUME NEW id \in acked' PROVE \E n \in 1 .. N : \E k \in 1 .. Len(F[n]) : F[n][k].id = id
      BY Zenon
    <3>1. id \in acked \/ id = sid
      BY <1>1
    <3> QED BY <2>1, <2>3, <3>1, Zenon
  <2>8. F = idxFiles' /\ N = Len(idxFiles') /\ up' /\ maxMessageID' \in Nat
    BY <1>1, <1>6, <2>2, Zenon DEF F, N
  <2>9. \A n \in 1 .. Len(idxFiles') : \A k \in 1 .. Len(idxFiles'[n]) : idxFiles'[n][k].id <= maxMessageID'
    BY <2>5, <2>8, Zenon
  <2>10. \/ maxMessageID' = 0
         \/ \E n \in 1 .. Len(idxFiles') : \E k \in 1 .. Len(idxFiles'[n]) :
              idxFiles'[n][k].id = maxMessageID'
    BY <2>6, <2>8, Zenon
  <2>11. \A id \in acked' : \E n \in 1 .. Len(idxFiles') : \E k \in 1 .. Len(idxFiles'[n]) :
           idxFiles'[n][k].id = id
    BY <2>7, <2>8, Zenon
  <2>12. totalNumberOfMessages' \in Nat /\ totalNumberOfMessages' + Unlisted' = Count(idxFiles', messagesPerFile)
    BY <2>4, <2>8, Zenon
  <2> QED BY <2>8, <2>9, <2>10, <2>11, <2>12, Zenon DEF CountInv
<1>10. LogOf(idxFiles)' = LogOf(F)
  BY <1>1, SameFilesSameLog DEF F
<1>11. \E i \in 1 .. Len(LogOf(F)) : LogOf(F)[i] = sid
  <2>1. C \in 1 .. Len(F) /\ L + 1 \in 1 .. Len(F[C])
    BY <1>2, <1>3 DEF N, F
  <2>2. \E i \in 1 .. Len(LogOf(F)) : LogOf(F)[i] = F[C][L + 1].id
    BY <1>5, <2>1, FilesLogProperties, Zenon
  <2> QED BY <1>2, <2>2
<1>12. sid \in Ids
  BY <1>5
<1> QED BY <1>1, <1>7, <1>8, <1>9, <1>10, <1>11, <1>12 DEF Others, F
-----------------------------------------------------------------------------
(* Restart *)

(* An index file whose ids ascend is loaded as it is. *)
LEMMA LoadsFile ==
  ASSUME ListFacts, DiskInv, Ascending(idxFiles), NEW n \in 1 .. Len(idxFiles)
  PROVE  LoadIndexList(n) = [k \in 1 .. Len(idxFiles[n]) |-> Entry(idxFiles[n][k], n)]
<1> DEFINE f == idxFiles[n]
           t == [k \in 1 .. Len(f) |-> Entry(f[k], n)]
<1>1. f \in Seq(IndexRecord) /\ Len(f) \in Nat
  BY SeqElement, SeqLength DEF DiskInv
<1>2. \A k \in 1 .. Len(f) : Entry(f[k], n) \in GoodEntries /\ Entry(f[k], n).id = f[k].id
  BY DEF DiskInv, Entry
<1>3. \A j, k \in 1 .. Len(f) : j < k => f[j].id < f[k].id
  BY DEF Ascending
<1>4. LoadIndexList(n) = InsertAll(<<>>, t)
  BY Zenon DEF LoadIndexList
<1> HIDE DEF f
<1>5. t \in Seq(GoodEntries) /\ Len(t) = Len(f) /\ \A k \in 1 .. Len(t) : t[k].id = f[k].id
  BY <1>1, <1>2
<1> HIDE DEF t
<1>6. StrictById(t)
  BY <1>3, <1>5 DEF StrictById
<1>7. InsertAll(<<>>, t) = t
  BY <1>5, <1>6, EntriesHaveIds DEF ListFacts, InsertSortedFact
<1> QED BY <1>4, <1>7 DEF t, f

(* m is the highest of the highest ids of the first n files. *)
IsHighest(m, n) ==
  /\ m \in Nat
  /\ \A j \in 1 .. n : ReadCacheEntry(j).max <= m
  /\ m = 0 \/ \E j \in 1 .. n : m = ReadCacheEntry(j).max

Higher(a, b) == IF a >= b THEN a ELSE b

(* The recursion in MaxOnDisk. *)
LEMMA MaxRuns ==
  ASSUME ListFacts, LastFile \in Nat \ {0}, \A n \in 1 .. LastFile - 1 : ReadCacheEntry(n).max \in Nat
  PROVE  \E m : /\ IsHighest(m, LastFile - 1)
                /\ MaxOnDisk = LET l == LoadIndexList(LastFile)
                               IN  IF l # <<>> /\ l[Len(l)].id >= m THEN l[Len(l)].id ELSE m
<1> DEFINE n == LastFile - 1
           R(k) == ReadCacheEntry(k).max
           Step == [k \in 1 .. n |-> [x \in Nat |-> Higher(R(k), x)]]
           IsRun(f) == f = [k \in 0 .. n |-> IF k = 0 THEN 0 ELSE Higher(R(k), f[k - 1])]
<1>1. n \in Nat /\ 0 \in Nat /\ \A k \in 1 .. n : R(k) \in Nat
  OBVIOUS
<1> DEFINE g == CHOOSE f : IsRun(f)
<1>8. MaxOnDisk = LET l == LoadIndexList(LastFile)
                  IN  IF l # <<>> /\ l[Len(l)].id >= g[n] THEN l[Len(l)].id ELSE g[n]
  BY Zenon DEF MaxOnDisk, Higher
<1> HIDE DEF n, R
<1>2. ASSUME NEW k \in 1 .. n, NEW x \in Nat PROVE Higher(R(k), x) \in Nat
  BY <1>1 DEF Higher
<1>3. Step \in [1 .. n -> [Nat -> Nat]]
  BY <1>2
<1>4. \E h : IsRecursion(h, n, Nat, 0, Step)
  <2> HIDE DEF Step, IsRun
  <2> QED BY <1>1, <1>3, Zenon DEF ListFacts, RecursionFact
<1>5. PICK h \in [0 .. n -> Nat] : h[0] = 0 /\ \A k \in 1 .. n : h[k] = Step[k][h[k - 1]]
  <2> HIDE DEF Step
  <2> QED BY <1>4, Zenon DEF IsRecursion
<1>6. IsRun(h)
  <2>1. ASSUME NEW k \in 1 .. n PROVE h[k] = Higher(R(k), h[k - 1])
    <3>1. h[k - 1] \in Nat
      BY <1>1
    <3> QED BY <1>5, <3>1, Zenon
  <2>2. \A k \in 0 .. n : h[k] = IF k = 0 THEN 0 ELSE Higher(R(k), h[k - 1])
    BY <1>1, <1>5, <2>1
  <2> HIDE DEF Step
  <2> QED BY <2>2
<1>7. IsRun(g)
  <2> HIDE DEF IsRun
  <2> QED BY <1>6
<1> HIDE DEF g
<1>9. g[0] = 0 /\ \A k \in 1 .. n : g[k] = Higher(R(k), g[k - 1])
  <2>1. \A k \in 0 .. n : g[k] = IF k = 0 THEN 0 ELSE Higher(R(k), g[k - 1])
    BY <1>7, Zenon
  <2>2. 0 \in 0 .. n /\ \A k \in 1 .. n : k \in 0 .. n /\ k # 0
    BY <1>1
  <2> HIDE DEF IsRun
  <2> QED BY <2>1, <2>2
<1> HIDE DEF IsRun, Step
<1> DEFINE S == {k \in 0 .. n : IsHighest(g[k], k)}
<1>10. 0 \in S
  <2>1. IsHighest(g[0], 0)
    BY <1>9 DEF IsHighest
  <2> QED BY <1>1, <2>1
<1>11. ASSUME NEW k \in 1 .. n, k - 1 \in S PROVE k \in S
  <2> DEFINE a == g[k - 1]
             b == g[k]
  <2>1. /\ a \in Nat /\ \A j \in 1 .. k - 1 : R(j) <= a
        /\ a = 0 \/ \E j \in 1 .. k - 1 : a = R(j)
    BY <1>11 DEF IsHighest, R
  <2>2. b = Higher(R(k), a) /\ R(k) \in Nat
    BY <1>1, <1>9
  <2>3. k \in 0 .. n /\ k - 1 \in Nat /\ k \in 1 .. k /\ \A j \in 1 .. k : j = k \/ j \in 1 .. k - 1
    BY <1>1
  <2>4. \A j \in 1 .. k - 1 : j \in 1 .. k /\ R(j) \in Nat
    BY <1>1
  <2> HIDE DEF a, b
  <2>5. b \in Nat /\ a <= b /\ R(k) <= b /\ (b = a \/ b = R(k))
    BY <2>1, <2>2 DEF Higher
  <2>6. \A j \in 1 .. k : R(j) <= b
    <3> SUFFICES ASSUME NEW j \in 1 .. k PROVE R(j) <= b
      OBVIOUS
    <3>1. CASE j = k
      BY <2>5, <3>1
    <3>2. CASE j \in 1 .. k - 1
      <4>1. R(j) <= a /\ R(j) \in Nat
        BY <2>1, <2>4, <3>2
      <4> QED BY <2>1, <2>5, <4>1
    <3> QED BY <2>3, <3>1, <3>2
  <2>7. b = 0 \/ \E j \in 1 .. k : b = R(j)
    BY <2>1, <2>3, <2>4, <2>5, Zenon
  <2>8. IsHighest(g[k], k)
    BY <2>5, <2>6, <2>7, Zenon DEF IsHighest, b, R
  <2> QED BY <2>3, <2>8
<1>12. \A k \in 0 .. n : k \in S
  <2>1. n \in Nat /\ \A k \in 1 .. n : k - 1 \in S => k \in S
    BY <1>1, <1>11
  <2> HIDE DEF S
  <2> QED BY <1>10, <2>1, Zenon DEF ListFacts, InductionFact
<1>13. IsHighest(g[n], n)
  <2>1. n \in 0 .. n
    BY <1>1
  <2> QED BY <1>12, <2>1
<1> QED BY <1>8, <1>13, Zenon DEF n

(* The last entry of a file that is not empty. *)
LEMMA LastEntry ==
  ASSUME OInv, NEW n \in 1 .. Len(idxFiles), idxFiles[n] # <<>>
  PROVE  /\ Len(idxFiles[n]) \in 1 .. Len(idxFiles[n])
         /\ ReadCacheEntry(n).max = idxFiles[n][Len(idxFiles[n])].id
         /\ ReadCacheEntry(n).max \in Nat
         /\ \A k \in 1 .. Len(idxFiles[n]) : idxFiles[n][k].id <= ReadCacheEntry(n).max
<1> DEFINE f == idxFiles[n]
           L == Len(f)
<1>1. f \in Seq(IndexRecord)
  BY SeqElement DEF OInv, IInv, DiskInv
<1>2. L \in Nat \ {0}
  BY <1>1, EmptyList
<1>3. L \in 1 .. L
  BY <1>2
<1>4. \A k \in 1 .. L : f[k] \in IndexRecord
  BY <1>1, SeqElement
<1>5. \A k \in 1 .. L : f[k].id \in Nat
  BY <1>4, PartitionAssumption, Zenon DEF IndexRecord
<1>6. \A k \in 1 .. L : k < L => f[k].id < f[L].id
  BY <1>3 DEF OInv, OrderInv, Ascending
<1>7. ReadCacheEntry(n).max = f[L].id
  BY DEF ReadCacheEntry
<1> HIDE DEF L, f
<1>8. \A k \in 1 .. L : f[k].id <= f[L].id
  BY <1>2, <1>3, <1>5, <1>6
<1> QED BY <1>3, <1>5, <1>7, <1>8 DEF L, f

(* What initialize finds on the disk. *)
LEMMA RestartReads ==
  ASSUME ListFacts, OInv, Restart, idxFiles # <<>>
  PROVE  /\ Current' = Len(idxFiles) /\ Len(fileCache') = Len(idxFiles) - 1
         /\ \A n \in 1 .. Len(fileCache') : fileCache'[n] = ReadCacheEntry(n)
         /\ Len(list') = Len(idxFiles[Len(idxFiles)])
         /\ \A k \in 1 .. Len(list') : list'[k] = Entry(idxFiles[Len(idxFiles)][k], Len(idxFiles))
         /\ entriesCount' = Len(idxFiles[Len(idxFiles)])
         /\ totalNumberOfMessages' = Count(idxFiles, messagesPerFile) /\ totalNumberOfMessages' \in Nat
<1> DEFINE N == Len(idxFiles)
           l == Len(idxFiles[N])
<1>1. /\ fileCache' = [n \in 1 .. LastFile - 1 |-> ReadCacheEntry(n)]
      /\ list' = LoadIndexList(LastFile)
      /\ entriesCount' = Len(idxFiles[LastFile])
      /\ totalNumberOfMessages' = (LastFile - 1) * messagesPerFile + Len(idxFiles[LastFile])
  BY DEF Restart
<1>2. N \in Nat \ {0} /\ N \in 1 .. N /\ LastFile = N
  <2>1. N \in Nat \ {0}
    BY EmptyList DEF OInv, IInv, DiskInv
  <2> QED BY <2>1 DEF LastFile
<1>3. idxFiles[N] \in Seq(IndexRecord) /\ l \in Nat
  BY <1>2, SeqElement, SeqLength DEF OInv, IInv, DiskInv
<1>4. LoadIndexList(N) = [k \in 1 .. l |-> Entry(idxFiles[N][k], N)]
  BY <1>2, LoadsFile DEF OInv, IInv, OrderInv
<1> HIDE DEF N, l
<1>5. Len(list') = l /\ \A k \in 1 .. l : list'[k] = Entry(idxFiles[N][k], N)
  BY <1>1, <1>2, <1>3, <1>4
<1>6. /\ Len(fileCache') = N - 1 /\ Current' = N
      /\ \A n \in 1 .. N - 1 : fileCache'[n] = ReadCacheEntry(n)
  <2>1. N - 1 \in Nat /\ (N - 1) + 1 = N
    BY <1>2
  <2>2. Len(fileCache') = N - 1
    BY <1>1, <1>2, <2>1
  <2>3. \A n \in 1 .. N - 1 : fileCache'[n] = ReadCacheEntry(n)
    BY <1>1, <1>2
  <2> QED BY <2>1, <2>2, <2>3 DEF Current
<1>7. totalNumberOfMessages' = Count(idxFiles, messagesPerFile)
  BY <1>1, <1>2 DEF Count, N
<1>8. totalNumberOfMessages' \in Nat
  <2>1. N - 1 \in Nat /\ messagesPerFile \in Nat
    BY <1>2, PartitionAssumption
  <2>2. (N - 1) * messagesPerFile \in Nat
    BY <2>1
  <2> QED BY <1>1, <1>2, <1>3, <2>2 DEF l
<1> QED BY <1>1, <1>2, <1>5, <1>6, <1>7, <1>8 DEF N, l

(* maxMessageID is the highest id in the files. *)
LEMMA RestartFindsMax ==
  ASSUME ListFacts, OInv, Restart, idxFiles # <<>>
  PROVE  /\ maxMessageID' \in Nat
         /\ \A n \in 1 .. Len(idxFiles) : \A k \in 1 .. Len(idxFiles[n]) :
              idxFiles[n][k].id <= maxMessageID'
         /\ \/ maxMessageID' = 0
            \/ \E n \in 1 .. Len(idxFiles) : \E k \in 1 .. Len(idxFiles[n]) :
                 idxFiles[n][k].id = maxMessageID'
<1> DEFINE F == idxFiles
           N == Len(idxFiles)
           l == LoadIndexList(N)
           M == maxMessageID'
<1>1. M = MaxOnDisk
  BY DEF Restart
<1>2. N \in Nat \ {0} /\ N \in 1 .. N /\ LastFile = N
  <2>1. N \in Nat \ {0}
    BY EmptyList DEF OInv, IInv, DiskInv
  <2> QED BY <2>1 DEF LastFile
<1>3. \A n \in 1 .. N - 1 : n \in 1 .. N /\ F[n] # <<>>
  BY <1>2 DEF OInv, IInv, FilesInv
<1>4. \A n \in 1 .. N : \A k \in 1 .. Len(F[n]) : F[n][k].id \in Nat
  <2> SUFFICES ASSUME NEW n \in 1 .. N, NEW k \in 1 .. Len(F[n]) PROVE F[n][k].id \in Nat
    OBVIOUS
  <2>1. F[n] \in Seq(IndexRecord)
    BY SeqElement DEF OInv, IInv, DiskInv
  <2>2. F[n][k] \in IndexRecord
    BY <2>1, SeqElement
  <2> QED BY <2>2, PartitionAssumption, Zenon DEF IndexRecord
<1>5. l = [k \in 1 .. Len(F[N]) |-> Entry(F[N][k], N)]
  BY <1>2, LoadsFile DEF OInv, IInv, OrderInv
<1>6. F[N] \in Seq(IndexRecord)
  BY <1>2, SeqElement DEF OInv, IInv, DiskInv
<1> HIDE DEF N, F, l
<1>7. ASSUME NEW n \in 1 .. N, F[n] # <<>>
      PROVE  /\ Len(F[n]) \in 1 .. Len(F[n]) /\ ReadCacheEntry(n).max = F[n][Len(F[n])].id
             /\ ReadCacheEntry(n).max \in Nat
             /\ \A k \in 1 .. Len(F[n]) : F[n][k].id <= ReadCacheEntry(n).max
  BY <1>7, LastEntry, Zenon DEF F, N
<1>8. PICK m : /\ IsHighest(m, N - 1)
               /\ M = IF l # <<>> /\ l[Len(l)].id >= m THEN l[Len(l)].id ELSE m
  <2>1. \A n \in 1 .. N - 1 : ReadCacheEntry(n).max \in Nat
    BY <1>3, <1>7
  <2>2. \E m : /\ IsHighest(m, LastFile - 1)
               /\ MaxOnDisk = IF l # <<>> /\ l[Len(l)].id >= m THEN l[Len(l)].id ELSE m
    BY <1>2, <2>1, MaxRuns DEF l
  <2> HIDE DEF M
  <2> QED BY <1>1, <1>2, <2>2
<1> HIDE DEF M
<1>9. /\ m \in Nat /\ \A j \in 1 .. N - 1 : ReadCacheEntry(j).max <= m
      /\ m = 0 \/ \E j \in 1 .. N - 1 : m = ReadCacheEntry(j).max
  BY <1>8, Zenon DEF IsHighest
<1>10. m = 0 \/ \E n \in 1 .. N : \E k \in 1 .. Len(F[n]) : F[n][k].id = m
  <2>1. CASE m # 0
    <3>1. PICK j \in 1 .. N - 1 : m = ReadCacheEntry(j).max
      BY <1>9, <2>1, Zenon
    <3>2. j \in 1 .. N /\ F[j] # <<>>
      BY <1>3
    <3>3. Len(F[j]) \in 1 .. Len(F[j]) /\ F[j][Len(F[j])].id = m
      BY <1>7, <3>1, <3>2
    <3> QED BY <3>2, <3>3, Zenon
  <2> QED BY <2>1, Zenon
<1>11. ASSUME NEW n \in 1 .. N - 1, NEW k \in 1 .. Len(F[n]) PROVE F[n][k].id <= m
  <2>1. F[n][k].id <= ReadCacheEntry(n).max /\ ReadCacheEntry(n).max \in Nat /\ F[n][k].id \in Nat
    BY <1>3, <1>4, <1>7
  <2> QED BY <1>9, <2>1
<1>12. CASE F[N] = <<>>
  <2>1. l = <<>> /\ Len(F[N]) = 0
    BY <1>5, <1>12
  <2>2. M = m
    BY <1>8, <2>1
  <2>3. \A n \in 1 .. N : \A k \in 1 .. Len(F[n]) : n \in 1 .. N - 1
    BY <1>2, <2>1
  <2>4. \A n \in 1 .. N : \A k \in 1 .. Len(F[n]) : F[n][k].id <= M
    BY <1>11, <2>2, <2>3, Zenon
  <2> QED BY <1>9, <1>10, <2>2, <2>4, Zenon DEF M, F, N
<1>13. CASE F[N] # <<>>
  <2> DEFINE L == Len(F[N])
             x == F[N][L].id
  <2>1. L \in 1 .. L /\ x \in Nat /\ \A k \in 1 .. L : F[N][k].id <= x
    BY <1>2, <1>7, <1>13
  <2>2. L \in Nat
    BY <1>6, SeqLength
  <2>3. l # <<>> /\ Len(l) = L /\ l[L] = Entry(F[N][L], N)
    <3> HIDE DEF L
    <3>1. l \in [1 .. L -> {Entry(F[N][k], N) : k \in 1 .. L}]
      BY <1>5 DEF L
    <3> QED BY <1>5, <2>1, <2>2, <3>1 DEF L
  <2>4. l[Len(l)].id = x
    BY <2>3 DEF Entry
  <2> HIDE DEF L, x
  <2>5. M \in Nat /\ m <= M /\ x <= M /\ (M = m \/ M = x)
    BY <1>8, <1>9, <2>1, <2>3, <2>4
  <2>6. ASSUME NEW n \in 1 .. N, NEW k \in 1 .. Len(F[n]) PROVE F[n][k].id <= M
    <3>1. F[n][k].id \in Nat
      BY <1>4
    <3>2. CASE n = N
      <4>1. F[n][k].id <= x
        BY <2>1, <3>2 DEF L
      <4> QED BY <2>1, <2>5, <3>1, <4>1
    <3>3. CASE n # N
      <4>1. n \in 1 .. N - 1
        BY <1>2, <3>3
      <4>2. F[n][k].id <= m
        BY <1>11, <4>1
      <4> QED BY <1>9, <2>5, <3>1, <4>2
    <3> QED BY <3>2, <3>3
  <2>7. \E n \in 1 .. N : \E k \in 1 .. Len(F[n]) : F[n][k].id = x
    BY <1>2, <2>1, Zenon DEF L, x
  <2>8. M = 0 \/ \E n \in 1 .. N : \E k \in 1 .. Len(F[n]) : F[n][k].id = M
    BY <1>10, <2>5, <2>7, Zenon
  <2> QED BY <2>5, <2>6, <2>8, Zenon DEF M, F, N
<1> QED BY <1>12, <1>13

(* A restart. *)
LEMMA RestartIsSilent ==
  ASSUME ListFacts, OInv, Restart
  PROVE  Others' /\ Silent
<1> DEFINE N == Len(idxFiles)
<1>1. /\ idxFiles' = idxFiles /\ up' = TRUE /\ spc' = spc /\ sid' = sid
      /\ tried' = tried /\ acked' = acked /\ ~up
  BY DEF Restart, disk, store, history
<1>2. spc = "idle" /\ fileCache = <<>> /\ list = <<>> /\ entriesCount = 0
  BY <1>1 DEF OInv, IInv, StoreInv
<1>3. OrderInv'
  <2>1. OrderInv
    BY DEF OInv
  <2> QED BY <1>1, <1>2, <2>1 DEF OrderInv
<1>4. Unlisted' = 0
  BY <1>1, <1>2 DEF Unlisted
<1>5. FullBefore(idxFiles, messagesPerFile)'
  BY <1>1 DEF OInv, LayoutInv, FullBefore
<1>6. \A id \in acked' : \E n \in 1 .. Len(idxFiles') : \E k \in 1 .. Len(idxFiles'[n]) : idxFiles'[n][k].id = id
  BY <1>1 DEF OInv, CountInv
<1>7. LayoutInv' /\ CountInv'
  <2>1. CASE idxFiles = <<>>
    <3>1. /\ fileCache' = <<>> /\ list' = <<>> /\ entriesCount' = 0
          /\ totalNumberOfMessages' = totalNumberOfMessages /\ maxMessageID' = maxMessageID
      BY <1>2, <2>1 DEF Restart, counters
    <3>2. Len(idxFiles') = 0 /\ Len(fileCache') = 0 /\ Current' = 1
      BY <1>1, <2>1, <3>1 DEF Current
    <3>3. 0 < messagesPerFile /\ 0 <= messagesPerFile
      BY PartitionAssumption
    <3>4. LayoutInv'
      BY <1>1, <1>2, <1>5, <3>1, <3>2, <3>3 DEF LayoutInv
    <3>5. Count(idxFiles', messagesPerFile) = 0
      BY <1>1, <2>1 DEF Count
    <3>6. totalNumberOfMessages = 0 /\ maxMessageID = 0
      <4>1. Len(idxFiles) = 0
        BY <2>1
      <4> QED BY <1>1, <4>1 DEF OInv, CountInv
    <3>7. CountInv'
      <4>1. totalNumberOfMessages' = 0 /\ maxMessageID' = 0 /\ up' = TRUE
        BY <1>1, <3>1, <3>6, Zenon
      <4>2. totalNumberOfMessages' + Unlisted' = Count(idxFiles', messagesPerFile)
        BY <1>4, <3>5, <4>1
      <4> QED BY <1>6, <3>2, <4>1, <4>2 DEF CountInv
    <3> QED BY <3>4, <3>7
  <2>2. CASE idxFiles # <<>>
    <3>1. /\ Current' = N /\ Len(fileCache') = N - 1
          /\ \A n \in 1 .. Len(fileCache') : fileCache'[n] = ReadCacheEntry(n)
          /\ Len(list') = Len(idxFiles[N])
          /\ \A k \in 1 .. Len(list') : list'[k] = Entry(idxFiles[N][k], N)
          /\ entriesCount' = Len(idxFiles[N])
          /\ totalNumberOfMessages' = Count(idxFiles, messagesPerFile) /\ totalNumberOfMessages' \in Nat
      BY <2>2, RestartReads
    <3>2. N \in Nat \ {0} /\ N \in 1 .. N
      <4>1. N \in Nat \ {0}
        BY <2>2, EmptyList DEF OInv, IInv, DiskInv
      <4> QED BY <4>1
    <3>3. Len(idxFiles[N]) <= messagesPerFile /\ Len(idxFiles[N]) \in Nat
      BY <3>2, Lengths DEF OInv, LayoutInv, FullBefore
    <3>4. \A n \in 1 .. N : n < N => Len(idxFiles[n]) = messagesPerFile
      BY DEF OInv, LayoutInv, FullBefore
    <3>5. LayoutInv'
      <4>1. \A n \in 1 .. Len(fileCache') : fileCache'[n] = ReadCacheEntry(n)'
        BY <1>1, <3>1, Zenon DEF ReadCacheEntry
      <4>2. /\ Len(idxFiles') <= Current'
            /\ Len(idxFiles'[Current']) = Len(list') + Unlisted'
            /\ entriesCount' <= messagesPerFile
        BY <1>1, <1>4, <3>1, <3>2, <3>3
      <4>3. /\ \A k \in 1 .. Len(list') : list'[k] = Entry(idxFiles'[Current'][k], Current')
            /\ \A n \in 1 .. Len(idxFiles') : n < Current' => Len(idxFiles'[n]) = messagesPerFile
        BY <1>1, <3>1, <3>4, Zenon
      <4> QED BY <1>1, <1>2, <1>5, <4>1, <4>2, <4>3, Zenon DEF LayoutInv
    <3>6. CountInv'
      <4>1. totalNumberOfMessages' \in Nat /\ totalNumberOfMessages' + Unlisted' = Count(idxFiles', messagesPerFile)
        BY <1>1, <1>4, <3>1
      <4>2. /\ maxMessageID' \in Nat
            /\ \A n \in 1 .. Len(idxFiles') : \A k \in 1 .. Len(idxFiles'[n]) :
                 idxFiles'[n][k].id <= maxMessageID'
            /\ \/ maxMessageID' = 0
               \/ \E n \in 1 .. Len(idxFiles') : \E k \in 1 .. Len(idxFiles'[n]) :
                    idxFiles'[n][k].id = maxMessageID'
        BY <1>1, <2>2, RestartFindsMax, Zenon
      <4> QED BY <1>1, <1>6, <4>1, <4>2, Zenon DEF CountInv
    <3> QED BY <3>5, <3>6
  <2> QED BY <2>1, <2>2
<1> QED BY <1>1, <1>3, <1>7, SameFilesSameLog, Zenon DEF Others, Silent
-----------------------------------------------------------------------------
(* The invariant, and what every step is for the log *)

LEMMA OInit == Init => OInv
<1> SUFFICES ASSUME Init PROVE OInv
  OBVIOUS
<1>1. /\ idxFiles = <<>> /\ spc = "idle" /\ list = <<>> /\ fileCache = <<>> /\ entriesCount = 0
      /\ totalNumberOfMessages = 0 /\ maxMessageID = 0 /\ tried = {} /\ acked = {} /\ up = TRUE
  BY DEF Init
<1>2. Len(idxFiles) = 0 /\ Len(fileCache) = 0 /\ Len(list) = 0 /\ Current = 1
  BY <1>1 DEF Current
<1>3. 0 < messagesPerFile /\ 0 <= messagesPerFile
  BY PartitionAssumption
<1>4. OrderInv
  BY <1>1, <1>2 DEF OrderInv, Ascending
<1>5. LayoutInv
  BY <1>1, <1>2, <1>3 DEF LayoutInv, FullBefore
<1>6. CountInv
  <2>1. Count(idxFiles, messagesPerFile) = 0 /\ Unlisted = 0
    BY <1>1 DEF Count, Unlisted
  <2> QED BY <1>1, <1>2, <2>1 DEF CountInv
<1> QED BY <1>4, <1>5, <1>6, InvInit DEF OInv

(* Persist at the writing of the index entry, Ack at the end of Store, and *)
(* no change of the log in any other step.                                 *)
LEMMA OtherStep ==
  ASSUME ListFacts, InOrder, OInv, [Next]_vars
  PROVE  Others' /\ (Silent \/ WriteIndex \/ StoreReturns)
<1>1. CASE \E id \in Ids : Store(id)
  BY <1>1, StoreIsSilent
<1>2. CASE StoreFails \/ RewriteEnds \/ CreateMsgFile \/ WriteHeader \/ WriteData
  BY <1>2, StoreIsQuiet
<1>3. CASE RewriteEntry
  BY <1>3, RewriteIsQuiet
<1>4. CASE CacheAdd
  BY <1>4, CacheAddIsSilent
<1>5. CASE ListClear
  BY <1>5, ListClearIsSilent
<1>6. CASE CreateIdxFile
  BY <1>6, CreateIdxIsSilent
<1>7. CASE WriteIndex
  BY <1>7, WriteIndexPersists
<1>8. CASE StoreReturns
  BY <1>8, StoreReturnsAcks
<1>9. CASE \/ (\E r \in Requests : Fetch(r)) \/ FetchFails \/ FetchContains \/ FetchSearch
           \/ FetchLen \/ FetchGet \/ FetchMerge \/ FetchRead \/ FetchDone \/ UNCHANGED vars
  BY <1>9, FetchIsQuiet
<1>10. CASE Crash \/ FetchPanics
  BY <1>10, StopIsQuiet
<1>11. CASE Restart
  BY <1>11, RestartIsSilent
<1> QED BY <1>1, <1>2, <1>3, <1>4, <1>5, <1>6, <1>7, <1>8, <1>9, <1>10, <1>11, Zenon
        DEF Next, StoreStep, FetchStep

LEMMA OStep == ListFacts /\ InOrder /\ OInv /\ [Next]_vars => OInv'
<1> SUFFICES ASSUME ListFacts, InOrder, OInv, [Next]_vars PROVE OInv'
  OBVIOUS
<1>1. IInv'
  BY InvStep DEF OInv
<1> QED BY <1>1, OtherStep DEF OInv, Others
(* Nothing is in the log at the start. *)
LEMMA LogStartsEmpty == ListFacts /\ Init => LogOf(idxFiles) = <<>> /\ acked = {}
<1> SUFFICES ASSUME ListFacts, Init PROVE LogOf(idxFiles) = <<>> /\ acked = {}
  OBVIOUS
<1>1. idxFiles = <<>> /\ acked = {}
  BY DEF Init
<1>2. OInv
  BY OInit
<1>3. LogOf(idxFiles) \in Seq(Nat) /\ Len(LogOf(idxFiles)) = Count(idxFiles, messagesPerFile)
  <2>1. idxFiles \in Seq(Seq(IndexRecord)) /\ Ascending(idxFiles) /\ FullBefore(idxFiles, messagesPerFile)
    BY <1>2, Zenon DEF OInv, IInv, DiskInv, OrderInv, LayoutInv
  <2> QED BY <2>1, FilesLogProperties, Zenon
<1>4. Len(LogOf(idxFiles)) = 0
  BY <1>1, <1>3 DEF Count
<1>5. LogOf(idxFiles) = <<>>
  BY <1>3, <1>4, EmptyList
<1> QED BY <1>1, <1>5

(* An id is indexed if it is the id of an entry. *)
LEMMA IndexedIds ==
  /\ \A n \in 1 .. Len(idxFiles) : \A k \in 1 .. Len(idxFiles[n]) : idxFiles[n][k].id \in Indexed
  /\ \A id \in Indexed : \E n \in 1 .. Len(idxFiles) : \E k \in 1 .. Len(idxFiles[n]) :
       id = idxFiles[n][k].id
<1>1. ASSUME NEW n \in 1 .. Len(idxFiles), NEW k \in 1 .. Len(idxFiles[n])
      PROVE  idxFiles[n][k].id \in Indexed
  <2>1. idxFiles[n][k].id \in IdsOf(idxFiles[n])
    BY DEF IdsOf
  <2> QED BY <2>1 DEF Indexed
<1>2. ASSUME NEW id \in Indexed
      PROVE  \E n \in 1 .. Len(idxFiles) : \E k \in 1 .. Len(idxFiles[n]) : id = idxFiles[n][k].id
  <2>1. PICK n \in 1 .. Len(idxFiles) : id \in IdsOf(idxFiles[n])
    BY DEF Indexed
  <2> QED BY <2>1 DEF IdsOf
<1> QED BY <1>1, <1>2

LEMMA InvIndexesAcked == OInv => AckedIsIndexed
<1> SUFFICES ASSUME OInv, NEW id \in acked PROVE id \in Indexed
  BY DEF AckedIsIndexed
<1>1. PICK n \in 1 .. Len(idxFiles) : \E k \in 1 .. Len(idxFiles[n]) : idxFiles[n][k].id = id
  BY DEF OInv, CountInv
<1> QED BY <1>1, IndexedIds

LEMMA InvMatchesDisk == ListFacts /\ OInv => MemoryMatchesDisk
<1> SUFFICES ASSUME ListFacts, OInv, up, spc = "idle", open
             PROVE  /\ Len(fileCache) = LastFile - 1
                    /\ \A n \in 1 .. LastFile - 1 :
                         /\ fileCache[n] = ReadCacheEntry(n)
                         /\ Len(idxFiles[n]) = messagesPerFile
                    /\ list = LoadIndexList(LastFile)
                    /\ entriesCount = Len(list)
                    /\ totalNumberOfMessages = Cardinality(Indexed)
                    /\ Indexed # {} => maxMessageID \in Indexed /\ \A id \in Indexed : id <= maxMessageID
  BY DEF MemoryMatchesDisk
<1> DEFINE N == Len(idxFiles)
           L == Len(list)
<1>1. /\ Current = N /\ N \in Nat /\ N \in 1 .. N /\ Len(fileCache) = N - 1 /\ LastFile = N
      /\ Len(fileCache) \in Nat
  <2>1. Current <= N /\ N <= Current
    BY DEF OInv, IInv, FilesInv, LayoutInv
  <2>2. N \in Nat /\ Len(fileCache) \in Nat
    BY Lengths DEF OInv
  <2> QED BY <2>1, <2>2 DEF Current, LastFile
<1>2. /\ \A n \in 1 .. N - 1 : fileCache[n] = ReadCacheEntry(n)
      /\ \A n \in 1 .. N - 1 : Len(idxFiles[n]) = messagesPerFile
  <2>1. \A n \in 1 .. Len(fileCache) : fileCache[n] = ReadCacheEntry(n)
    BY Zenon DEF OInv, LayoutInv
  <2>2. \A n \in 1 .. N : n < Current => Len(idxFiles[n]) = messagesPerFile
    BY Zenon DEF OInv, LayoutInv
  <2>3. \A n \in 1 .. N - 1 : n \in 1 .. N /\ n < Current
    BY <1>1
  <2> QED BY <1>1, <2>1, <2>2, <2>3, Zenon
<1>3. list = LoadIndexList(N)
  <2>1. LoadIndexList(N) = [k \in 1 .. Len(idxFiles[N]) |-> Entry(idxFiles[N][k], N)]
    BY <1>1, LoadsFile DEF OInv, IInv, OrderInv
  <2>2. Len(idxFiles[N]) = L + Unlisted /\ \A k \in 1 .. L : list[k] = Entry(idxFiles[N][k], N)
    BY <1>1 DEF OInv, LayoutInv
  <2>3. list \in Seq(GoodEntries)
    BY DEF OInv, IInv, ListInv, IsGoodList
  <2>4. L \in Nat /\ list \in [1 .. L -> GoodEntries]
    BY <2>3, SeqLength
  <2>5. Len(idxFiles[N]) = L
    BY <2>2, <2>4 DEF Unlisted
  <2>6. list = [k \in 1 .. L |-> Entry(idxFiles[N][k], N)]
    <3> HIDE DEF L, N
    <3> QED BY <2>2, <2>4, Zenon
  <2> QED BY <2>1, <2>5, <2>6
<1>4. entriesCount = L
  BY DEF OInv, IInv, ListInv
<1>5. totalNumberOfMessages = Cardinality(Indexed)
  <2>1. Cardinality(Indexed) = Count(idxFiles, messagesPerFile)
    BY CountProperties, Zenon DEF OInv, IInv, OrderInv, LayoutInv
  <2> QED BY <2>1 DEF OInv, CountInv, Unlisted
<1>6. \A id \in Indexed : id <= maxMessageID
  <2> SUFFICES ASSUME NEW id \in Indexed PROVE id <= maxMessageID
    OBVIOUS
  <2>1. PICK n \in 1 .. N : \E k \in 1 .. Len(idxFiles[n]) : id = idxFiles[n][k].id
    BY IndexedIds
  <2> QED BY <2>1 DEF OInv, CountInv
<1>7. Indexed # {} => maxMessageID \in Indexed
  <2> SUFFICES ASSUME NEW id \in Indexed PROVE maxMessageID \in Indexed
    OBVIOUS
  <2>1. id \in Nat \ {0}
    <3>1. PICK n \in 1 .. N : \E k \in 1 .. Len(idxFiles[n]) : id = idxFiles[n][k].id
      BY IndexedIds
    <3> QED BY <3>1, PartitionAssumption, Zenon DEF OInv, OrderInv
  <2>2. maxMessageID # 0 /\ maxMessageID \in Nat
    BY <1>6, <2>1 DEF OInv, CountInv
  <2>3. \E n \in 1 .. N : \E k \in 1 .. Len(idxFiles[n]) : idxFiles[n][k].id = maxMessageID
    BY <2>2, Zenon DEF OInv, CountInv
  <2> QED BY <2>3, IndexedIds
<1> QED BY <1>1, <1>2, <1>3, <1>4, <1>5, <1>6, <1>7
=============================================================================
