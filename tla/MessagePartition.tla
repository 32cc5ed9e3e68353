-------------------------- MODULE MessagePartition --------------------------
(***************************************************************************)
(* One partition of the file message store                                 *)
(* (server/store/filestore/message_partition.go and cache.go): the files   *)
(* on disk, the structures in memory, one Store at a time (it holds the    *)
(* partition's lock), one fetch goroutine (which takes only the locks of   *)
(* the file cache and of the index list), crashes and restarts.            *)
(*                                                                         *)
(* A message file is a sequence of cells: the file header, then a header   *)
(* cell (size and id) and a data cell per message; an offset counts cells. *)
(* An index file is a sequence of [id, offset]. File number n here is file *)
(* n - 1 in the code. Every write to a file is a step of its own, so a     *)
(* crash or an I/O error may come between any two of them.                 *)
(*                                                                         *)
(* A definition that stands right before another one, with the same        *)
(* parameters and a name that extends its name, is a mutation: it is used  *)
(* only to show that a property notices the change.                        *)
(***************************************************************************)
EXTENDS IndexListOps

CONSTANTS
  Ids,              \* message ids handed to Store
  Requests,         \* fetch requests
  messagesPerFile,
  InOrder,          \* callers store ids in ascending order (store.go:8-12)
  IOErrors,         \* file operations may fail
  MaxCrashes        \* bound of the model

ASSUME PartitionAssumption ==
  /\ Ids \subseteq Nat \ {0}
  /\ \A r \in Requests : r \in [start : Nat, end : Nat, dir : {-1, 0, 1}, count : Int]
  /\ messagesPerFile \in Nat \ {0}
  /\ InOrder \in BOOLEAN
  /\ IOErrors \in BOOLEAN
  /\ MaxCrashes \in Nat

VARIABLES
  msgFiles,      \* disk: cells of each .msg file
  idxFiles,      \* disk: entries of each .idx file
  up,            \* the process runs
  open,          \* appendFile and indexFile are not nil
  appendFilePosition,
  entriesCount,
  totalNumberOfMessages,
  maxMessageID,
  list,          \* p.list
  fileCache,     \* p.fileCache.entries
  spc,           \* where the Store in progress is
  sid,           \* its message id
  pos,           \* position reached by rewriteSortedIdxFile
  fpc,           \* where the fetch goroutine is
  req,           \* its request
  entries,       \* potentialEntries, later the fetch list
  prev,          \* prev of calculateFetchList
  walked,        \* potentialEntries of the extract on p.list
  currentPos,    \* currentPos of that extract
  got,           \* [id, data] pushed to the requester
  tried,         \* history: ids handed to Store
  acked,         \* history: ids whose Store returned nil
  ackedAtFetch,  \* history: acked when the fetch started
  panicked,      \* a nil index entry was dereferenced
  crashes,
  ioFailed       \* history: a file operation has failed

disk == <<msgFiles, idxFiles>>
counters == <<appendFilePosition, entriesCount, totalNumberOfMessages, maxMessageID>>
store == <<spc, sid, pos>>
fetch == <<fpc, req, entries, prev, walked, currentPos, got, ackedAtFetch>>
history == <<tried, acked>>
faults == <<up, panicked, crashes, ioFailed>>
vars == <<disk, faults, open, counters, list, fileCache, store, fetch, history>>

FileHeader == [kind |-> "file", id |-> 0]
Header(id) == [kind |-> "header", id |-> id]
Data(id) == [kind |-> "data", id |-> id]
Cells == {FileHeader} \union {Header(id) : id \in Ids} \union {Data(id) : id \in Ids}
NoRequest == [start |-> 0, end |-> 0, dir |-> 1, count |-> 0]

Entry(e, n) == [id |-> e.id, offset |-> e.offset, file |-> n]
IsEntry(e) == e.id \in Ids /\ e.offset \in Nat /\ e.file \in Nat

Init ==
  /\ msgFiles = <<>> /\ idxFiles = <<>>
  /\ up = TRUE /\ open = FALSE /\ panicked = FALSE /\ crashes = 0 /\ ioFailed = FALSE
  /\ appendFilePosition = 0 /\ entriesCount = 0
  /\ totalNumberOfMessages = 0 /\ maxMessageID = 0
  /\ list = <<>> /\ fileCache = <<>>
  /\ spc = "idle" /\ sid = 0 /\ pos = 0
  /\ fpc = "idle" /\ req = NoRequest /\ entries = <<>> /\ prev = FALSE
  /\ walked = <<>> /\ currentPos = 0 /\ got = <<>> /\ ackedAtFetch = {}
  /\ tried = {} /\ acked = {}
-----------------------------------------------------------------------------
(* Store *)

\* The file that is being appended to: position fileCache.length().
Current == Len(fileCache) + 1

Goto(l) == spc' = l /\ UNCHANGED <<sid, pos>>

RolloverDue == entriesCount = messagesPerFile

Store(id) ==
  /\ up /\ spc = "idle"
  /\ id \notin tried /\ (InOrder => \A i \in tried : i < id)
  /\ tried' = tried \union {id}
  /\ sid' = id
  /\ pos' = 1
  /\ IF RolloverDue
     THEN spc' = "rewrite" /\ open' = FALSE
     ELSE spc' = (IF open THEN "header" ELSE "createMsg") /\ UNCHANGED open
  /\ UNCHANGED <<disk, faults, counters, list, fileCache, fetch, acked>>

\* "Sorted list is not sorted": ends the rewriting, without an error.
NotAscending == pos \in 2 .. Len(list) /\ list[pos - 1].id >= list[pos].id

WriteAtTruncates(file, k, e) == Append(SubSeq(file, 1, k - 1), e)
WriteAt(file, k, e) == IF k <= Len(file) THEN [file EXCEPT ![k] = e] ELSE Append(file, e)

RewriteEntry ==
  /\ spc = "rewrite" /\ pos <= Len(list) /\ ~NotAscending
  /\ idxFiles' = [idxFiles EXCEPT ![Current] =
                    WriteAt(@, pos, [id |-> list[pos].id, offset |-> list[pos].offset])]
  /\ pos' = pos + 1
  /\ UNCHANGED <<msgFiles, faults, open, counters, list, fileCache, spc, sid, fetch, history>>

RewriteEnds ==
  /\ spc = "rewrite" /\ (pos > Len(list) \/ NotAscending)
  /\ Goto("cacheAdd")
  /\ UNCHANGED <<disk, faults, open, counters, list, fileCache, fetch, history>>

\* Between RLock and RUnlock of calculateFetchList; an error returns without RUnlock.
CacheRLockedNever == FALSE
CacheRLocked == fpc \in {"contains", "search", "len", "get", "merge"}

CacheAdd ==
  /\ spc = "cacheAdd" /\ ~CacheRLocked
  /\ fileCache' = Append(fileCache, [min |-> list[1].id, max |-> list[Len(list)].id])
  /\ Goto("clear")
  /\ UNCHANGED <<disk, faults, open, counters, list, fetch, history>>

ListClear ==
  /\ spc = "clear"
  /\ list' = <<>>
  /\ entriesCount' = 0
  /\ Goto("createMsg")
  /\ UNCHANGED <<disk, faults, open, appendFilePosition, totalNumberOfMessages, maxMessageID,
                 fileCache, fetch, history>>

CreateMsgFile ==
  /\ spc = "createMsg"
  /\ msgFiles' = IF Len(msgFiles) < Current THEN Append(msgFiles, <<FileHeader>>)
                 ELSE IF msgFiles[Current] = <<>> THEN [msgFiles EXCEPT ![Current] = <<FileHeader>>]
                 ELSE msgFiles
  /\ Goto("createIdx")
  /\ UNCHANGED <<idxFiles, faults, open, counters, list, fileCache, fetch, history>>

SizeOnOpen == Len(msgFiles[Current])

CreateIdxFile ==
  /\ spc = "createIdx"
  /\ idxFiles' = IF Len(idxFiles) < Current THEN Append(idxFiles, <<>>) ELSE idxFiles
  /\ open' = TRUE
  /\ appendFilePosition' = SizeOnOpen
  /\ Goto("header")
  /\ UNCHANGED <<msgFiles, faults, entriesCount, totalNumberOfMessages, maxMessageID,
                 list, fileCache, fetch, history>>

WriteCell(from, cell, to) ==
  /\ spc = from
  /\ msgFiles' = [msgFiles EXCEPT ![Current] = Append(@, cell)]
  /\ Goto(to)
  /\ UNCHANGED <<idxFiles, faults, open, counters, list, fileCache, fetch, history>>

WriteHeader == WriteCell("header", Header(sid), "data")
WriteData == WriteCell("data", Data(sid), "index")

messageOffsetOfHeader == appendFilePosition
messageOffset == appendFilePosition + 1

WriteIndex ==
  /\ spc = "index"
  /\ idxFiles' = [idxFiles EXCEPT ![Current] =
                    WriteAt(@, entriesCount + 1, [id |-> sid, offset |-> messageOffset])]
  /\ Goto("finish")
  /\ UNCHANGED <<msgFiles, faults, open, counters, list, fileCache, fetch, history>>

MaxAfter(id) == IF id > maxMessageID THEN id ELSE maxMessageID

StoreReturns ==
  /\ spc = "finish"
  /\ list' = InsertElem(list, [id |-> sid, offset |-> messageOffset, file |-> Current])
  /\ entriesCount' = entriesCount + 1
  /\ totalNumberOfMessages' = totalNumberOfMessages + 1
  /\ appendFilePosition' = appendFilePosition + 2
  /\ maxMessageID' = MaxAfter(sid)
  /\ acked' = acked \union {sid}
  /\ Goto("idle")
  /\ UNCHANGED <<disk, faults, open, fileCache, fetch, tried>>

\* A file operation fails: Store returns the error. When the index file cannot be
\* opened the message file is removed, and the next write finds no open file.
StoreFails ==
  /\ IOErrors
  /\ spc \in {"rewrite", "createMsg", "createIdx", "header", "data", "index"}
  /\ msgFiles' = IF spc = "createIdx" THEN [msgFiles EXCEPT ![Current] = <<>>] ELSE msgFiles
  /\ ioFailed' = TRUE
  /\ Goto("idle")
  /\ UNCHANGED <<idxFiles, up, panicked, crashes, open, counters, list, fileCache, fetch, history>>
-----------------------------------------------------------------------------
(* Fetch *)

LoadIndexList(n) ==
  InsertAll(<<>>, [k \in 1 .. Len(idxFiles[n]) |-> Entry(idxFiles[n][k], n)])

\* cacheEntry.Contains
CacheContainsStrict(c, r) ==
  \/ r.start = 0
  \/ r.start >= c.min /\ (r.dir >= 0 => r.start < c.max)
CacheContains(c, r) ==
  \/ r.start = 0
  \/ r.start >= c.min /\ (r.dir >= 0 => r.start <= c.max)

\* No direction means forward, and Contains turns a request that starts at 0
\* into a forward one.
Directed(r) ==
  IF r.dir = 0 \/ (r.start = 0 /\ fileCache # <<>>)
  THEN [start |-> r.start, end |-> r.end, dir |-> 1, count |-> r.count]
  ELSE r

\* The loop of calculateFetchList over the cached files.
ScanCache(r) ==
  LET Scan[i \in 0 .. Len(fileCache)] ==
        IF i = 0 THEN [entries |-> <<>>, prev |-> FALSE]
        ELSE LET s == Scan[i - 1]
             IN  IF CacheContains(fileCache[i], r) \/ (s.prev /\ Len(s.entries) < r.count)
                 THEN [entries |-> InsertAll(s.entries, Extract(LoadIndexList(i), r)), prev |-> TRUE]
                 ELSE [entries |-> s.entries, prev |-> FALSE]
  IN  Scan[Len(fileCache)]

UsesList(r, s, l) == ListContains(l, r.start) \/ (s.prev /\ Len(s.entries) < r.count)

\* calculateFetchList when nothing changes while it runs.
CalculateFetchList(r0) ==
  LET r == Directed(r0)
      s == ScanCache(r)
  IN  Extract(IF UsesList(r, s, list) THEN InsertAll(s.entries, Extract(list, r)) ELSE s.entries, r)

StoreRest == <<disk, open, counters, list, fileCache, store, history>>
FetchRest == <<StoreRest, faults>>

Fetch(r) ==
  /\ up /\ fpc = "idle"
  /\ req' = Directed(r)
  /\ entries' = ScanCache(Directed(r)).entries
  /\ prev' = ScanCache(Directed(r)).prev
  /\ walked' = <<>> /\ currentPos' = 0 /\ got' = <<>>
  /\ ackedAtFetch' = acked
  /\ fpc' = "contains"
  /\ UNCHANGED FetchRest

FetchContains ==
  /\ fpc = "contains"
  /\ fpc' = IF UsesList(req, [entries |-> entries, prev |-> prev], list) THEN "search" ELSE "merge"
  /\ UNCHANGED <<FetchRest, req, entries, prev, walked, currentPos, got, ackedAtFetch>>

FetchSearch ==
  /\ fpc = "search"
  /\ currentPos' = StartPos(list, req.start)
  /\ fpc' = "len"
  /\ UNCHANGED <<FetchRest, req, entries, prev, walked, got, ackedAtFetch>>

FetchLen ==
  /\ fpc = "len"
  /\ fpc' = IF Len(walked) < req.count /\ currentPos \in 1 .. Len(list) THEN "get" ELSE "merge"
  /\ UNCHANGED <<FetchRest, req, entries, prev, walked, currentPos, got, ackedAtFetch>>

FetchGet ==
  /\ fpc = "get" /\ currentPos <= Len(list)
  /\ walked' = InsertElem(walked, list[currentPos])
  /\ currentPos' = currentPos + req.dir
  /\ fpc' = IF ReachesEnd(list, currentPos, req) THEN "merge" ELSE "len"
  /\ UNCHANGED <<FetchRest, req, entries, prev, got, ackedAtFetch>>

FetchMerge ==
  /\ fpc = "merge"
  /\ entries' = Extract(InsertAll(entries, walked), req)
  /\ fpc' = "read"
  /\ UNCHANGED <<FetchRest, req, prev, walked, currentPos, got, ackedAtFetch>>

Readable(e) == e.offset < Len(msgFiles[e.file])
ReadData(e) == msgFiles[e.file][e.offset + 1]

\* fetchByFetchlist pushes the messages up to the first that cannot be read.
FetchRead ==
  /\ fpc = "read"
  /\ LET Reached == {k \in 1 .. Len(entries) : \A j \in 1 .. k : Readable(entries[j])}
     IN  got' = [k \in 1 .. Cardinality(Reached) |->
                   [id |-> entries[k].id, data |-> ReadData(entries[k])]]
  /\ fpc' = "done"
  /\ UNCHANGED <<FetchRest, req, entries, prev, walked, currentPos, ackedAtFetch>>

FetchDone ==
  /\ fpc = "done"
  /\ fpc' = "idle"
  /\ req' = NoRequest /\ entries' = <<>> /\ prev' = FALSE /\ walked' = <<>>
  /\ currentPos' = 0 /\ got' = <<>> /\ ackedAtFetch' = {}
  /\ UNCHANGED FetchRest

\* An index file of the cache cannot be read: the error goes to ErrorC and the
\* read lock of the file cache stays taken.
FetchFails ==
  /\ IOErrors /\ fpc = "contains"
  /\ \E n \in 1 .. Len(fileCache) : CacheContains(fileCache[n], req)
  /\ fpc' = "leaked"
  /\ ioFailed' = TRUE
  /\ UNCHANGED <<StoreRest, up, panicked, crashes, req, entries, prev, walked, currentPos, got,
                 ackedAtFetch>>
-----------------------------------------------------------------------------
(* Crash and restart *)

Stopped ==
  /\ open' = FALSE
  /\ appendFilePosition' = 0 /\ entriesCount' = 0
  /\ totalNumberOfMessages' = 0 /\ maxMessageID' = 0
  /\ list' = <<>> /\ fileCache' = <<>>
  /\ spc' = "idle" /\ sid' = 0 /\ pos' = 0
  /\ fpc' = "idle" /\ req' = NoRequest /\ entries' = <<>> /\ prev' = FALSE
  /\ walked' = <<>> /\ currentPos' = 0 /\ got' = <<>> /\ ackedAtFetch' = {}
  /\ up' = FALSE
  /\ UNCHANGED <<disk, history>>

Crash ==
  /\ up /\ crashes < MaxCrashes
  /\ crashes' = crashes + 1
  /\ UNCHANGED <<panicked, ioFailed>>
  /\ Stopped

\* extract dereferences the entry for its log line before it looks whether it is nil.
FetchPanics ==
  /\ fpc = "get" /\ currentPos > Len(list)
  /\ panicked' = TRUE
  /\ UNCHANGED <<crashes, ioFailed>>
  /\ Stopped

LastFile == Len(idxFiles)

\* readCacheEntryFromIdxFile
ReadCacheEntry(n) == [min |-> idxFiles[n][1].id, max |-> idxFiles[n][Len(idxFiles[n])].id]

MaxOnDiskLastFileOnly ==
  LET l == LoadIndexList(LastFile) IN IF l = <<>> THEN 0 ELSE l[Len(l)].id
MaxOnDisk ==
  LET l == LoadIndexList(LastFile)
      m[n \in 0 .. LastFile - 1] ==
        IF n = 0 THEN 0
        ELSE IF ReadCacheEntry(n).max >= m[n - 1] THEN ReadCacheEntry(n).max ELSE m[n - 1]
  IN  IF l # <<>> /\ l[Len(l)].id >= m[LastFile - 1] THEN l[Len(l)].id ELSE m[LastFile - 1]

\* newMessagePartition and initialize, with readIdxFiles.
Restart ==
  /\ ~up
  /\ up' = TRUE
  /\ IF idxFiles = <<>>
     THEN UNCHANGED <<fileCache, list, counters>>
     ELSE /\ fileCache' = [n \in 1 .. LastFile - 1 |-> ReadCacheEntry(n)]
          /\ list' = LoadIndexList(LastFile)
          /\ entriesCount' = Len(idxFiles[LastFile])
          /\ totalNumberOfMessages' = (LastFile - 1) * messagesPerFile + Len(idxFiles[LastFile])
          /\ maxMessageID' = MaxOnDisk
          /\ UNCHANGED appendFilePosition
  /\ UNCHANGED <<disk, open, store, fetch, history, panicked, crashes, ioFailed>>
-----------------------------------------------------------------------------
StoreStep ==
  \/ RewriteEntry \/ RewriteEnds \/ CacheAdd \/ ListClear
  \/ CreateMsgFile \/ CreateIdxFile \/ WriteHeader \/ WriteData \/ WriteIndex \/ StoreReturns

FetchStep ==
  \/ FetchContains \/ FetchSearch \/ FetchLen \/ FetchGet \/ FetchPanics
  \/ FetchMerge \/ FetchRead \/ FetchDone

Next ==
  \/ \E id \in Ids : Store(id)
  \/ StoreStep
  \/ StoreFails
  \/ \E r \in Requests : Fetch(r)
  \/ FetchStep
  \/ FetchFails
  \/ Crash
  \/ Restart

Spec == Init /\ [][Next]_vars
-----------------------------------------------------------------------------
(* Properties *)

\* Every variable has the type the code gives it.
TypeOK ==
  /\ \A n \in 1 .. Len(msgFiles) : msgFiles[n] \in Seq(Cells)
  /\ \A n \in 1 .. Len(idxFiles) : \A k \in 1 .. Len(idxFiles[n]) :
       idxFiles[n][k].id \in Ids /\ idxFiles[n][k].offset \in Nat
  /\ <<up, open, panicked, prev>> \in BOOLEAN \X BOOLEAN \X BOOLEAN \X BOOLEAN
  /\ appendFilePosition \in Nat /\ totalNumberOfMessages \in Nat
  /\ entriesCount \in 0 .. messagesPerFile
  /\ maxMessageID \in Ids \union {0}
  /\ \A k \in 1 .. Len(list) : IsEntry(list[k])
  /\ \A n \in 1 .. Len(fileCache) : fileCache[n].min \in Ids /\ fileCache[n].max \in Ids
  /\ spc \in {"idle", "rewrite", "cacheAdd", "clear", "createMsg", "createIdx",
             "header", "data", "index", "finish"}
  /\ sid \in Ids \union {0} /\ pos \in 0 .. messagesPerFile + 1
  /\ fpc \in {"idle", "contains", "search", "len", "get", "merge", "read", "done",
              "leaked"}
  /\ currentPos \in Nat
  /\ \A k \in 1 .. Len(entries) : IsEntry(entries[k])
  /\ \A k \in 1 .. Len(walked) : IsEntry(walked[k])
  /\ \A k \in 1 .. Len(got) : got[k].id \in Ids /\ got[k].data \in Cells
  /\ tried \subseteq Ids /\ acked \subseteq tried /\ ackedAtFetch \subseteq acked
  /\ crashes \in 0 .. MaxCrashes /\ ioFailed \in BOOLEAN

IdsOf(s) == {s[k].id : k \in 1 .. Len(s)}
Indexed == UNION {IdsOf(idxFiles[n]) : n \in 1 .. Len(idxFiles)}

\* While the append files are open and no Store runs, the memory describes the disk:
\* list is the last index file, the file cache the ones before it, maxMessageID the
\* highest id, totalNumberOfMessages the number of entries; after initialize too.
MemoryMatchesDisk ==
  up /\ spc = "idle" /\ open =>
    /\ Len(fileCache) = LastFile - 1
    /\ \A n \in 1 .. LastFile - 1 :
         /\ fileCache[n] = ReadCacheEntry(n)
         /\ Len(idxFiles[n]) = messagesPerFile
    /\ list = LoadIndexList(LastFile)
    /\ entriesCount = Len(list)
    /\ totalNumberOfMessages = Cardinality(Indexed)
    /\ Indexed # {} => maxMessageID \in Indexed /\ \A id \in Indexed : id <= maxMessageID

Sel(S, r) ==
  {id \in S : IF r.dir = 1 THEN Cardinality({i \in S : i < id}) < r.count
              ELSE Cardinality({i \in S : i > id}) < r.count}

\* The messages a request asks for: from start in its direction, up to end.
Asked(r) ==
  Sel({id \in Indexed : /\ r.dir = 1 => id >= r.start
                        /\ r.dir = -1 => id <= r.start
                        /\ r.end > 0 => id <= r.end}, r)

WellFormedRequests ==
  {r \in [start : Indexed \union {0}, end : Indexed \union {0}, dir : {1, -1},
          count : 1 .. Cardinality(Ids)] :
     /\ r.end > 0 => r.dir = 1 /\ r.start <= r.end
     /\ r.start = 0 => r.dir = 1}

\* When no Store and no fetch runs, calculateFetchList finds exactly the messages asked for, each
\* once and in order, over all files, if start (and end) are ids of stored messages
\* (or absent). As long as no file operation fails.
FetchListExact ==
  ~ioFailed /\ up /\ spc = "idle" /\ fpc = "idle" =>
    \A r \in WellFormedRequests :
      LET l == CalculateFetchList(r)
      IN  /\ IdsOf(l) = Asked(r)
          /\ \A k \in 1 .. Len(l) - 1 : l[k].id < l[k + 1].id

\* A fetch hands over, for each id, the data that was stored with that id, although store
\* computes the offsets from its own count of the bytes written: also after a crash in
\* the middle of a Store, and while a Store changes the list, the cache and the files,
\* as long as no write fails.
FetchedIsStored == ~ioFailed => \A k \in 1 .. Len(got) : got[k].data = Data(got[k].id)

\* A fetch from a stored id, or from the beginning, returns every message asked for
\* that was acknowledged before the fetch began, also when the list moves to the file
\* cache between the steps of calculateFetchList and extract, unless a file operation
\* failed.
FetchSeesAcked ==
  ~ioFailed /\ fpc = "done" /\ req.dir = 1 /\ req.start \in ackedAtFetch \union {0} =>
    LET wanted == {id \in ackedAtFetch : id >= req.start}
    IN  Cardinality(wanted) <= req.count /\ req.end = 0 => wanted \subseteq IdsOf(got)
-----------------------------------------------------------------------------
(* Stronger statements, which the code does not keep *)

\* A message whose Store returned without an error is in an index file: not so after a
\* crash in the middle of rewriteSortedIdxFile, if the ids came out of order.
AckedIsIndexed == acked \subseteq Indexed

\* "Receive all message with message ids >= 42" (README.md:327): nothing below start.
FetchIsFromStart == fpc = "done" /\ req.dir = 1 => \A k \in 1 .. Len(got) : got[k].id >= req.start

\* "Receive all message with message ids >= 42" (README.md:327): everything from start
\* on, also when no stored message has the id start.
FetchReachesAll ==
  fpc = "done" /\ req.dir = 1 => {id \in ackedAtFetch : id >= req.start} \subseteq IdsOf(got)

\* "Receive all message with message ids >= 42" (README.md:327): no acknowledged message
\* is left out between two that the fetch returns.
FetchHasNoHole ==
  fpc = "done" /\ req.dir = 1 /\ req.start = 0 =>
    \A i \in acked : (\E k \in 1 .. Len(got) : i <= got[k].id) => i \in IdsOf(got)

\* "a message only gets delivered once" (README.md:436): a fetch returns an id once.
FetchedOnce == \A j, k \in 1 .. Len(got) : got[j].id = got[k].id => j = k

\* extract handles "Error in retrieving from list.Got nil entry" (index_list.go:224):
\* a list that became shorter does not bring the process down.
NilEntryIsHandled == ~panicked

\* "Direction == 0: Only the Message with StartId" (fetch_request.go:42).
OneMessageOnly ==
  up /\ spc = "idle" =>
    \A id \in Indexed :
      IdsOf(CalculateFetchList([start |-> id, end |-> 0, dir |-> 0, count |-> Cardinality(Ids)])) = {id}

\* "EndID is the message sequence id to finish" (fetch_request.go:38).
FetchEndsAtEnd ==
  fpc = "done" /\ req.dir = 1 /\ req.end > 0 => \A k \in 1 .. Len(got) : got[k].id <= req.end
=============================================================================
