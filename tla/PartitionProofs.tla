-------------------------- MODULE PartitionProofs --------------------------
(***************************************************************************)
(* The inductive invariant of module MessagePartition, for every set of    *)
(* ids and of requests, every file size, callers in any order, any number  *)
(* of crashes, with and without I/O errors; and what follows from it.      *)
(***************************************************************************)
EXTENDS MessagePartition, IndexListFacts, TLAPS

IndexRecord == [id : Ids, offset : Nat]
IndexEntry == [id : Ids, offset : Nat, file : Nat]

(* The cell an entry points to holds the message with the id of the entry. *)
PointsToData(e) ==
  /\ e.file \in 1 .. Len(msgFiles)
  /\ e.offset + 1 \in 1 .. Len(msgFiles[e.file])
  /\ msgFiles[e.file][e.offset + 1] = Data(e.id)

GoodEntries == {e \in IndexEntry : ioFailed \/ PointsToData(e)}

IsGoodList(s) == s \in Seq(GoodEntries) /\ SortedById(s)

(* The index files point to the messages of the file with their number.    *)
DiskInv ==
  /\ msgFiles \in Seq(Seq(Cells))
  /\ idxFiles \in Seq(Seq(IndexRecord))
  /\ Len(idxFiles) <= Len(msgFiles)
  /\ \A n \in 1 .. Len(idxFiles) : \A k \in 1 .. Len(idxFiles[n]) :
       Entry(idxFiles[n][k], n) \in GoodEntries

(* Every cached file has an index file with entries, and so has the file   *)
(* before any other; the append file is there when it is needed.           *)
FilesInv ==
  /\ fileCache \in Seq([min : Ids, max : Ids])
  /\ Len(fileCache) <= Len(idxFiles)
  /\ \A n \in 1 .. Len(idxFiles) : n < Len(idxFiles) \/ n < Current => idxFiles[n] # <<>>
  /\ spc = "createIdx" => Current <= Len(msgFiles)
  /\ open \/ spc \in {"rewrite", "cacheAdd", "header", "data", "index", "finish"} =>
       Current <= Len(idxFiles)
  /\ spc = "finish" => idxFiles[Current] # <<>>

(* The list is that of the append file, up to the moment it is cleared.    *)
ListInv ==
  /\ IsGoodList(list)
  /\ entriesCount \in Nat
  /\ spc # "clear" =>
       /\ entriesCount = Len(list)
       /\ \A k \in 1 .. Len(list) : list[k].file = Current
       /\ list # <<>> => Current <= Len(idxFiles) /\ idxFiles[Current] # <<>>
  /\ spc \in {"rewrite", "cacheAdd"} => list # <<>>

StoreInv ==
  /\ sid \in Ids \union {0} /\ pos \in Nat /\ appendFilePosition \in Nat
  /\ spc \in {"idle", "rewrite", "cacheAdd", "clear", "createMsg", "createIdx",
             "header", "data", "index", "finish"}
  /\ spc # "idle" => sid \in Ids
  /\ spc = "rewrite" => pos > 0
  /\ spc \in {"rewrite", "cacheAdd", "clear", "createMsg", "createIdx"} => ~open
  /\ open \in BOOLEAN /\ up \in BOOLEAN /\ ioFailed \in BOOLEAN
  /\ ~up => /\ ~open /\ spc = "idle" /\ fileCache = <<>> /\ list = <<>> /\ entriesCount = 0

(* store's own count of the bytes written is the size of the append file.  *)
PositionInv ==
  ~ioFailed =>
    /\ open /\ spc \in {"idle", "header"} => appendFilePosition = Len(msgFiles[Current])
    /\ spc = "header" => open
    /\ spc = "data" => appendFilePosition + 1 = Len(msgFiles[Current])
    /\ spc \in {"index", "finish"} =>
         /\ appendFilePosition + 2 = Len(msgFiles[Current])
         /\ msgFiles[Current][appendFilePosition + 2] = Data(sid)

FetchInv ==
  /\ IsRequest(req)
  /\ IsGoodList(entries)
  /\ IsGoodList(walked)
  /\ fpc = "get" => currentPos \in Nat /\ currentPos > 0
  /\ FetchedIsStored

IInv == DiskInv /\ FilesInv /\ ListInv /\ StoreInv /\ PositionInv /\ FetchInv
-----------------------------------------------------------------------------
(* Lemmas about the entries and the lists of entries *)

(* Sequences are functions on an initial interval of the numbers. *)
LEMMA SeqLength ==
  ASSUME NEW S, NEW s \in Seq(S)
  PROVE  Len(s) \in Nat /\ s \in [1 .. Len(s) -> S] /\ DOMAIN s = 1 .. Len(s)
OBVIOUS

LEMMA SeqElement == ASSUME NEW S, NEW s \in Seq(S), NEW k \in 1 .. Len(s) PROVE s[k] \in S
OBVIOUS

LEMMA EmptyList ==
  ASSUME NEW S
  PROVE  /\ <<>> \in Seq(S) /\ Len(<<>>) = 0
         /\ \A s \in Seq(S) : s # <<>> => Len(s) \in Nat \ {0}
OBVIOUS

LEMMA FunctionIsSeq == ASSUME NEW S, NEW n \in Nat, NEW f \in [1 .. n -> S]
                       PROVE  f \in Seq(S) /\ Len(f) = n
OBVIOUS

(* A sequence over a set is one over any larger set. *)
LEMMA SeqOfSubset == ASSUME NEW S, NEW T, S \subseteq T PROVE Seq(S) \subseteq Seq(T)
<1> SUFFICES ASSUME NEW s \in Seq(S) PROVE s \in Seq(T)
  OBVIOUS
<1>1. Len(s) \in Nat /\ s \in [1 .. Len(s) -> S]
  BY SeqLength
<1>2. s \in [1 .. Len(s) -> T]
  BY <1>1
<1> QED BY <1>1, <1>2, FunctionIsSeq

(* The ids of entries are numbers. *)
LEMMA EntriesHaveIds == HaveIds(IndexEntry) /\ HaveIds(GoodEntries)
BY PartitionAssumption, Zenon DEF HaveIds, GoodEntries, IndexEntry

(* A good entry in a good list. *)
LEMMA GoodInsert ==
  ASSUME ListFacts, NEW s, IsGoodList(s), NEW e \in GoodEntries
  PROVE  /\ IsGoodList(InsertElem(s, e)) /\ Len(InsertElem(s, e)) = Len(s) + 1
         /\ Elements(InsertElem(s, e)) = Elements(s) \union {e}
BY EntriesHaveIds DEF IsGoodList, ListFacts, InsertElemFact

(* The message files of the next state extend those of this one. *)
FilesGrow ==
  \A n \in 1 .. Len(msgFiles) :
    /\ n \in 1 .. Len(msgFiles')
    /\ \A i \in 1 .. Len(msgFiles[n]) :
         i \in 1 .. Len(msgFiles'[n]) /\ msgFiles'[n][i] = msgFiles[n][i]

(* Good entries stay good when files are only appended to. *)
LEMMA GoodStaysGood ==
  (ioFailed => ioFailed') /\ (ioFailed' \/ FilesGrow) => GoodEntries \subseteq GoodEntries'
<1> SUFFICES ASSUME ioFailed => ioFailed', ioFailed' \/ FilesGrow, NEW e \in GoodEntries
             PROVE  e \in GoodEntries'
  OBVIOUS
<1>1. e \in IndexEntry /\ (ioFailed \/ PointsToData(e))
  BY DEF GoodEntries
<1>2. CASE ioFailed'
  BY <1>1, <1>2 DEF GoodEntries, IndexEntry
<1>3. CASE ~ioFailed' /\ FilesGrow
  <2>1. PointsToData(e)
    BY <1>1, <1>3
  <2>2. PointsToData(e)'
    BY <1>3, <2>1, Zenon DEF FilesGrow, PointsToData, Data
  <2> QED BY <1>1, <2>2 DEF GoodEntries, IndexEntry
<1> QED BY <1>2, <1>3

(* Good lists stay good lists with them. *)
LEMMA GoodListStaysGood ==
  GoodEntries \subseteq GoodEntries' => \A s : IsGoodList(s) => (s \in Seq(GoodEntries') /\ SortedById(s))
<1> SUFFICES ASSUME GoodEntries \subseteq GoodEntries'
             PROVE  \A s : IsGoodList(s) => (s \in Seq(GoodEntries') /\ SortedById(s))
  OBVIOUS
<1>1. Seq(GoodEntries) \subseteq Seq(GoodEntries')
  BY SeqOfSubset
<1> QED BY <1>1 DEF IsGoodList

(* loadIndexList: as many entries as the file has, all with its number. *)
LEMMA LoadIndexListProperties ==
  ASSUME ListFacts, DiskInv, NEW n \in 1 .. Len(idxFiles)
  PROVE  /\ IsGoodList(LoadIndexList(n))
         /\ Len(LoadIndexList(n)) = Len(idxFiles[n])
         /\ \A k \in 1 .. Len(LoadIndexList(n)) : LoadIndexList(n)[k].file = n
<1> DEFINE f == idxFiles[n]
           t == [k \in 1 .. Len(f) |-> Entry(f[k], n)]
           l == LoadIndexList(n)
<1>1. f \in Seq(IndexRecord) /\ Len(f) \in Nat
  BY SeqElement, SeqLength DEF DiskInv
<1>2. \A k \in 1 .. Len(f) : Entry(f[k], n) \in GoodEntries /\ Entry(f[k], n).file = n
  BY DEF DiskInv, Entry
<1> HIDE DEF f
<1>3. t \in Seq(GoodEntries) /\ Len(t) = Len(f) /\ \A k \in 1 .. Len(t) : t[k].file = n
  BY <1>1, <1>2
<1>4. l = InsertAll(<<>>, t)
  BY Zenon DEF LoadIndexList, f
<1> HIDE DEF t, l
<1>5. /\ l \in Seq(GoodEntries) /\ SortedById(l)
      /\ Len(l) = Len(t) /\ Elements(l) = Elements(t)
  BY <1>3, <1>4, EntriesHaveIds DEF ListFacts, InsertAllIntoEmptyFact
<1>6. \A e \in Elements(t) : e.file = n
  BY <1>3 DEF Elements
<1>7. \A k \in 1 .. Len(l) : l[k] \in Elements(l)
  BY DEF Elements
<1> QED BY <1>3, <1>5, <1>6, <1>7 DEF IsGoodList, l, f

(* A request that is made forward is a request. *)
LEMMA DirectedIsRequest == \A r \in Requests : IsRequest(Directed(r))
<1> SUFFICES ASSUME NEW r \in Requests PROVE IsRequest(Directed(r))
  OBVIOUS
<1>1. /\ r.start \in Nat /\ r.end \in Nat /\ r.count \in Int
      /\ r.dir = 1 \/ r.dir = 0 \/ r.dir = -1
  BY PartitionAssumption
<1>2. CASE r.dir = 0 \/ (r.start = 0 /\ fileCache # <<>>)
  <2>1. Directed(r) = [start |-> r.start, end |-> r.end, dir |-> 1, count |-> r.count]
    BY <1>2, Zenon DEF Directed
  <2> QED BY <1>1, <2>1 DEF IsRequest
<1>3. CASE ~(r.dir = 0 \/ (r.start = 0 /\ fileCache # <<>>))
  <2>1. Directed(r) = r
    BY <1>3, Zenon DEF Directed
  <2> QED BY <1>1, <1>3, <2>1 DEF IsRequest
<1> QED BY <1>2, <1>3

(* The scan of the cached files collects a good list. *)
LEMMA ScanCacheProperties ==
  ASSUME ListFacts, DiskInv, FilesInv, NEW r, IsRequest(r)
  PROVE  IsGoodList(ScanCache(r).entries)
<1> DEFINE n == Len(fileCache)
           V == {x \in [entries : Seq(GoodEntries), prev : BOOLEAN] : SortedById(x.entries)}
           v0 == [entries |-> <<>>, prev |-> FALSE]
           File(i, s) ==
             IF CacheContains(fileCache[i], r) \/ (s.prev /\ Len(s.entries) < r.count)
             THEN [entries |-> InsertAll(s.entries, Extract(LoadIndexList(i), r)), prev |-> TRUE]
             ELSE [entries |-> s.entries, prev |-> FALSE]
           Step == [i \in 1 .. n |-> [x \in V |-> File(i, x)]]
           IsRun(g) == g = [i \in 0 .. n |-> IF i = 0 THEN v0 ELSE File(i, g[i - 1])]
<1>1. n \in Nat /\ Len(idxFiles) \in Nat /\ n <= Len(idxFiles) /\ v0 \in V
  BY SeqLength DEF FilesInv, DiskInv, SortedById
<1>2. ASSUME NEW i \in 1 .. n, NEW x \in V PROVE File(i, x) \in V
  <2> DEFINE l == LoadIndexList(i)
             e == Extract(l, r)
             a == InsertAll(x.entries, e)
  <2>1. l \in Seq(GoodEntries) /\ SortedById(l)
    <3>1. i \in 1 .. Len(idxFiles)
      BY <1>1
    <3> QED BY <3>1, LoadIndexListProperties DEF IsGoodList
  <2>2. x.entries \in Seq(GoodEntries) /\ SortedById(x.entries)
    OBVIOUS
  <2> HIDE DEF l
  <2>3. e \in Seq(GoodEntries)
    BY <2>1, EntriesHaveIds DEF ListFacts, ExtractFact
  <2> HIDE DEF e
  <2>4. a \in Seq(GoodEntries) /\ SortedById(a)
    BY <2>2, <2>3, EntriesHaveIds DEF ListFacts, InsertAllFact
  <2> HIDE DEF a
  <2> DEFINE c == CacheContains(fileCache[i], r) \/ (x.prev /\ Len(x.entries) < r.count)
  <2>5. File(i, x) = IF c THEN [entries |-> a, prev |-> TRUE] ELSE [entries |-> x.entries, prev |-> FALSE]
    BY Zenon DEF a, e, l
  <2> HIDE DEF c, File
  <2> QED BY <2>2, <2>4, <2>5
<1> HIDE DEF File
<1>3. Step \in [1 .. n -> [V -> V]]
  <2> HIDE DEF V
  <2> QED BY <1>2
<1>4. \E g : IsRecursion(g, n, V, v0, Step)
  <2>1. n \in Nat
    BY <1>1
  <2>2. v0 \in V
    BY <1>1
  <2> HIDE DEF V, Step, n, IsRun, v0
  <2> QED BY <1>3, <2>1, <2>2, Zenon DEF ListFacts, RecursionFact
<1>5. PICK h \in [0 .. n -> V] : h[0] = v0 /\ \A k \in 1 .. n : h[k] = Step[k][h[k - 1]]
  <2> HIDE DEF V, Step, n, v0
  <2> QED BY <1>4, Zenon DEF IsRecursion
<1> HIDE DEF v0
<1>6. IsRun(h)
  <2>1. ASSUME NEW k \in 1 .. n PROVE h[k] = File(k, h[k - 1])
    <3>1. h[k - 1] \in V
      <4>1. k - 1 \in 0 .. n
        BY <1>1
      <4> HIDE DEF V, n
      <4> QED BY <4>1
    <3> HIDE DEF V
    <3> QED BY <1>5, <3>1, Zenon
  <2>2. \A k \in 0 .. n : h[k] = IF k = 0 THEN v0 ELSE File(k, h[k - 1])
    BY <1>1, <1>5, <2>1
  <2> HIDE DEF Step, V
  <2> QED BY <2>2
<1> DEFINE g == CHOOSE f : IsRun(f)
<1>7. IsRun(g)
  <2> HIDE DEF IsRun
  <2> QED BY <1>6
<1>8. ScanCache(r) = g[n]
  BY Zenon DEF ScanCache, File, v0
<1> HIDE DEF g
<1>9. g[0] = v0 /\ \A k \in 1 .. n : g[k] = File(k, g[k - 1])
  <2> HIDE DEF V
  <2>1. \A k \in 0 .. n : g[k] = IF k = 0 THEN v0 ELSE File(k, g[k - 1])
    <3> HIDE DEF n
    <3> QED BY <1>7, Zenon
  <2>2. 0 \in 0 .. n /\ \A k \in 1 .. n : k \in 0 .. n /\ k # 0
    BY <1>1
  <2> HIDE DEF n, IsRun
  <2> QED BY <2>1, <2>2
<1>10. g[n] \in V
  <2> DEFINE S == {k \in 0 .. n : g[k] \in V}
  <2> HIDE DEF V
  <2>1. 0 \in S
    BY <1>1, <1>9
  <2>2. ASSUME NEW k \in 1 .. n, k - 1 \in S PROVE k \in S
    BY <1>1, <1>2, <1>9, <2>2
  <2>3. \A k \in 0 .. n : k \in S
    <3>1. \A k \in 1 .. n : k - 1 \in S => k \in S
      BY <2>2
    <3>2. n \in Nat
      BY <1>1
    <3> HIDE DEF S, n
    <3> QED BY <2>1, <3>1, <3>2, Zenon DEF ListFacts, InductionFact
  <2>4. n \in 0 .. n
    BY <1>1
  <2> QED BY <2>3, <2>4
<1> HIDE DEF n, g
<1> QED BY <1>8, <1>10 DEF IsGoodList
-----------------------------------------------------------------------------
(* What a step that leaves some of the variables alone keeps *)

(* The numbers that the conjuncts of the invariant compare. *)
LEMMA Lengths ==
  ASSUME IInv
  PROVE  /\ Len(msgFiles) \in Nat /\ Len(idxFiles) \in Nat /\ Len(fileCache) \in Nat
         /\ Len(list) \in Nat /\ Current \in Nat /\ Current > 0
         /\ \A n \in 1 .. Len(idxFiles) : idxFiles[n] \in Seq(IndexRecord) /\ Len(idxFiles[n]) \in Nat
         /\ \A n \in 1 .. Len(msgFiles) : msgFiles[n] \in Seq(Cells) /\ Len(msgFiles[n]) \in Nat
         /\ \A k \in 1 .. Len(list) : list[k] \in GoodEntries
<1>1. /\ msgFiles \in Seq(Seq(Cells)) /\ idxFiles \in Seq(Seq(IndexRecord))
      /\ fileCache \in Seq([min : Ids, max : Ids]) /\ list \in Seq(GoodEntries)
  BY DEF IInv, DiskInv, FilesInv, ListInv, IsGoodList
<1>2. /\ Len(msgFiles) \in Nat /\ Len(idxFiles) \in Nat /\ Len(fileCache) \in Nat
      /\ Len(list) \in Nat
  BY <1>1, SeqLength
<1>3. Current \in Nat /\ Current > 0
  BY <1>2 DEF Current
<1>4. /\ \A n \in 1 .. Len(idxFiles) : idxFiles[n] \in Seq(IndexRecord)
      /\ \A n \in 1 .. Len(msgFiles) : msgFiles[n] \in Seq(Cells)
      /\ \A k \in 1 .. Len(list) : list[k] \in GoodEntries
  BY <1>1, SeqElement
<1>5. /\ \A n \in 1 .. Len(idxFiles) : Len(idxFiles[n]) \in Nat
      /\ \A n \in 1 .. Len(msgFiles) : Len(msgFiles[n]) \in Nat
  BY <1>4, SeqLength
<1> QED BY <1>2, <1>3, <1>4, <1>5

(* A step that leaves the fetch goroutine alone. *)
LEMMA FetchUntouched ==
  FetchInv /\ UNCHANGED fetch /\ GoodEntries \subseteq GoodEntries' /\ (ioFailed => ioFailed')
    => FetchInv'
<1> SUFFICES ASSUME FetchInv, UNCHANGED fetch, GoodEntries \subseteq GoodEntries',
                    ioFailed => ioFailed'
             PROVE  FetchInv'
  OBVIOUS
<1>1. \A s : IsGoodList(s) => (s \in Seq(GoodEntries') /\ SortedById(s))
  BY GoodListStaysGood, Zenon
<1>2. /\ req' = req /\ entries' = entries /\ walked' = walked /\ fpc' = fpc
      /\ currentPos' = currentPos /\ got' = got
  BY DEF fetch
<1>3. IsGoodList(entries)' /\ IsGoodList(walked)'
  BY <1>1, <1>2 DEF FetchInv, IsGoodList
<1>4. FetchedIsStored'
  BY <1>2 DEF FetchInv, FetchedIsStored, Data
<1> QED BY <1>2, <1>3, <1>4 DEF FetchInv, IsRequest

(* A step of the fetch goroutine. *)
LEMMA StoreUntouched ==
  IInv /\ UNCHANGED FetchRest =>
    /\ GoodEntries' = GoodEntries /\ ioFailed' = ioFailed
    /\ DiskInv' /\ FilesInv' /\ ListInv' /\ StoreInv' /\ PositionInv'
<1> SUFFICES ASSUME IInv, UNCHANGED FetchRest
             PROVE  /\ GoodEntries' = GoodEntries /\ ioFailed' = ioFailed
                    /\ DiskInv' /\ FilesInv' /\ ListInv' /\ StoreInv' /\ PositionInv'
  OBVIOUS
<1>1. /\ msgFiles' = msgFiles /\ idxFiles' = idxFiles /\ up' = up /\ open' = open
      /\ appendFilePosition' = appendFilePosition /\ entriesCount' = entriesCount
      /\ list' = list /\ fileCache' = fileCache /\ spc' = spc /\ sid' = sid /\ pos' = pos
      /\ ioFailed' = ioFailed
  BY DEF FetchRest, StoreRest, disk, counters, store, history, faults
<1>2. GoodEntries' = GoodEntries
  BY <1>1 DEF GoodEntries, PointsToData
<1>3. DiskInv'
  BY <1>1, <1>2 DEF IInv, DiskInv
<1>4. FilesInv'
  BY <1>1 DEF IInv, FilesInv, Current
<1>5. ListInv'
  BY <1>1, <1>2 DEF IInv, ListInv, IsGoodList, Current
<1>6. StoreInv'
  BY <1>1 DEF IInv, StoreInv
<1>7. PositionInv'
  BY <1>1 DEF IInv, PositionInv, Current
<1> QED BY <1>1, <1>2, <1>3, <1>4, <1>5, <1>6, <1>7

(* The empty list and the request of an idle goroutine. *)
LEMMA NothingFetched == IsGoodList(<<>>) /\ IsGoodList(<<>>)' /\ IsRequest(NoRequest)
BY DEF IsGoodList, SortedById, IsRequest, NoRequest

(* The invariant holds initially. *)
LEMMA InvInit == Init => IInv
<1> SUFFICES ASSUME Init PROVE IInv
  OBVIOUS
<1>1. DiskInv
  BY DEF Init, DiskInv
<1>2. FilesInv
  BY DEF Init, FilesInv
<1>3. ListInv
  BY NothingFetched DEF Init, ListInv
<1>4. StoreInv
  BY Zenon DEF Init, StoreInv
<1>6. PositionInv
  BY Zenon DEF Init, PositionInv
<1>5. FetchInv
  BY NothingFetched DEF Init, FetchInv, FetchedIsStored
<1> QED BY <1>1, <1>2, <1>3, <1>4, <1>5, <1>6 DEF IInv
-----------------------------------------------------------------------------
(* The steps of the fetch goroutine *)

(* The scan of the cached files gives a good list. *)
LEMMA FetchBegins == ListFacts => \A r \in Requests : IInv /\ Fetch(r) => IInv'
<1> SUFFICES ASSUME ListFacts, NEW r \in Requests, IInv, Fetch(r) PROVE IInv'
  OBVIOUS
<1>1. /\ GoodEntries' = GoodEntries
      /\ DiskInv' /\ FilesInv' /\ ListInv' /\ StoreInv' /\ PositionInv'
  BY StoreUntouched DEF Fetch
<1> DEFINE d == Directed(r)
<1>2. IsRequest(d)
  BY DirectedIsRequest
<1> HIDE DEF d
<1>3. IsGoodList(ScanCache(d).entries)
  BY <1>2, ScanCacheProperties DEF IInv
<1>4. /\ req' = d /\ entries' = ScanCache(d).entries /\ walked' = <<>>
      /\ got' = <<>> /\ fpc' = "contains"
  BY Zenon DEF Fetch, d
<1>5. IsGoodList(entries)' /\ IsGoodList(walked)'
  BY <1>1, <1>3, <1>4, NothingFetched DEF IsGoodList
<1>6. FetchedIsStored'
  BY <1>4 DEF FetchedIsStored
<1>7. FetchInv'
  BY <1>2, <1>4, <1>5, <1>6 DEF FetchInv
<1> QED BY <1>1, <1>7 DEF IInv

(* Steps that change neither the lists nor what was fetched. *)
LEMMA FetchLooks == IInv /\ (FetchContains \/ FetchSearch \/ FetchLen) => IInv'
<1> SUFFICES ASSUME IInv, FetchContains \/ FetchSearch \/ FetchLen PROVE IInv'
  OBVIOUS
<1>1. /\ GoodEntries' = GoodEntries /\ ioFailed' = ioFailed
      /\ DiskInv' /\ FilesInv' /\ ListInv' /\ StoreInv' /\ PositionInv'
  BY StoreUntouched DEF FetchContains, FetchSearch, FetchLen
<1>2. /\ req' = req /\ entries' = entries /\ walked' = walked /\ got' = got
  BY DEF FetchContains, FetchSearch, FetchLen
<1>3. IsGoodList(entries)' /\ IsGoodList(walked)' /\ IsRequest(req)' /\ FetchedIsStored'
  BY <1>1, <1>2 DEF IInv, FetchInv, IsGoodList, FetchedIsStored, Data
<1>4. fpc' = "get" => currentPos' \in Nat /\ currentPos' > 0
  <2>1. CASE FetchContains \/ FetchSearch
    BY <2>1 DEF FetchContains, FetchSearch
  <2>2. CASE FetchLen
    <3>1. Len(list) \in Nat
      BY Lengths
    <3> QED BY <2>2, <3>1 DEF FetchLen
  <2> QED BY <2>1, <2>2
<1>5. FetchInv'
  BY <1>3, <1>4 DEF FetchInv
<1> QED BY <1>1, <1>5 DEF IInv

(* The entry that is walked over is one of the list, hence good. *)
LEMMA FetchGets == ListFacts /\ IInv /\ FetchGet => IInv'
<1> SUFFICES ASSUME ListFacts, IInv, FetchGet PROVE IInv'
  OBVIOUS
<1>1. /\ GoodEntries' = GoodEntries /\ ioFailed' = ioFailed
      /\ DiskInv' /\ FilesInv' /\ ListInv' /\ StoreInv' /\ PositionInv'
  BY StoreUntouched DEF FetchGet
<1>2. /\ req' = req /\ entries' = entries /\ got' = got /\ fpc' # "get"
      /\ walked' = InsertElem(walked, list[currentPos])
  BY DEF FetchGet
<1>3. list[currentPos] \in GoodEntries
  <2>1. currentPos \in 1 .. Len(list)
    BY Lengths DEF IInv, FetchInv, FetchGet
  <2> QED BY <2>1, Lengths
<1>4. IsGoodList(walked)'
  <2>1. IsGoodList(walked)
    BY DEF IInv, FetchInv
  <2>2. IsGoodList(InsertElem(walked, list[currentPos]))
    BY <1>3, <2>1, GoodInsert, Zenon
  <2> QED BY <1>1, <1>2, <2>2 DEF IsGoodList
<1>5. IsGoodList(entries)' /\ IsRequest(req)' /\ FetchedIsStored'
  BY <1>1, <1>2 DEF IInv, FetchInv, IsGoodList, FetchedIsStored, Data
<1>6. FetchInv'
  BY <1>2, <1>4, <1>5 DEF FetchInv
<1> QED BY <1>1, <1>6 DEF IInv

(* Merging and extracting keep the list good. *)
LEMMA FetchMerges == ListFacts /\ IInv /\ FetchMerge => IInv'
<1> SUFFICES ASSUME ListFacts, IInv, FetchMerge PROVE IInv'
  OBVIOUS
<1>1. /\ GoodEntries' = GoodEntries /\ ioFailed' = ioFailed
      /\ DiskInv' /\ FilesInv' /\ ListInv' /\ StoreInv' /\ PositionInv'
  BY StoreUntouched DEF FetchMerge
<1> DEFINE a == InsertAll(entries, walked)
           x == Extract(a, req)
<1>2. /\ req' = req /\ walked' = walked /\ got' = got /\ fpc' # "get" /\ entries' = x
  BY DEF FetchMerge
<1>3. /\ entries \in Seq(GoodEntries) /\ SortedById(entries) /\ walked \in Seq(GoodEntries)
      /\ IsRequest(req)
  BY DEF IInv, FetchInv, IsGoodList
<1>4. a \in Seq(GoodEntries) /\ SortedById(a)
  BY <1>3, EntriesHaveIds DEF ListFacts, InsertAllFact
<1> HIDE DEF a
<1>5. x \in Seq(GoodEntries) /\ SortedById(x)
  BY <1>3, <1>4, EntriesHaveIds DEF ListFacts, ExtractFact
<1> HIDE DEF x
<1>6. IsGoodList(entries)'
  BY <1>1, <1>2, <1>5 DEF IsGoodList
<1>7. IsGoodList(walked)' /\ IsRequest(req)' /\ FetchedIsStored'
  BY <1>1, <1>2 DEF IInv, FetchInv, IsGoodList, FetchedIsStored, Data
<1>8. FetchInv'
  BY <1>2, <1>6, <1>7 DEF FetchInv
<1> QED BY <1>1, <1>8 DEF IInv

(* A good entry is read as the data of its message. *)
LEMMA FetchReads == ListFacts /\ IInv /\ FetchRead => IInv'
<1> SUFFICES ASSUME ListFacts, IInv, FetchRead PROVE IInv'
  OBVIOUS
<1>1. /\ GoodEntries' = GoodEntries /\ ioFailed' = ioFailed
      /\ DiskInv' /\ FilesInv' /\ ListInv' /\ StoreInv' /\ PositionInv'
  BY StoreUntouched DEF FetchRead
<1> DEFINE N == Len(entries)
           R == {k \in 1 .. N : \A j \in 1 .. k : Readable(entries[j])}
           c == Cardinality(R)
<1>2. /\ req' = req /\ entries' = entries /\ walked' = walked /\ fpc' # "get"
      /\ got' = [k \in 1 .. c |-> [id |-> entries[k].id, data |-> ReadData(entries[k])]]
  BY DEF FetchRead
<1>3. N \in Nat /\ \A k \in 1 .. N : entries[k] \in GoodEntries
  BY SeqLength, SeqElement DEF IInv, FetchInv, IsGoodList
<1>4. c \in Nat /\ c <= N
  <2>1. R \subseteq 1 .. N
    OBVIOUS
  <2> HIDE DEF N, R
  <2> QED BY <1>3, <2>1, Zenon DEF ListFacts, SubsetFact
<1> HIDE DEF c, R, N
<1>5. Len(got') = c /\ \A k \in 1 .. c : got'[k] = [id |-> entries[k].id, data |-> ReadData(entries[k])]
  BY <1>2, <1>4
<1>6. ~ioFailed => \A k \in 1 .. N : ReadData(entries[k]) = Data(entries[k].id)
  BY <1>3 DEF GoodEntries, PointsToData, ReadData
<1>7. FetchedIsStored'
  <2>1. SUFFICES ASSUME ~ioFailed, NEW k \in 1 .. c PROVE got'[k].data = Data(got'[k].id)
    BY <1>1, <1>5, Zenon DEF FetchedIsStored, Data
  <2>2. ReadData(entries[k]) = Data(entries[k].id)
    BY <1>3, <1>4, <1>6, <2>1
  <2> QED BY <1>5, <2>2
<1>8. IsGoodList(entries)' /\ IsGoodList(walked)' /\ IsRequest(req)'
  BY <1>1, <1>2 DEF IInv, FetchInv, IsGoodList
<1>9. FetchInv'
  BY <1>2, <1>7, <1>8 DEF FetchInv
<1> QED BY <1>1, <1>9 DEF IInv

(* The goroutine forgets what it fetched. *)
LEMMA FetchEnds == IInv /\ FetchDone => IInv'
<1> SUFFICES ASSUME IInv, FetchDone PROVE IInv'
  OBVIOUS
<1>1. DiskInv' /\ FilesInv' /\ ListInv' /\ StoreInv' /\ PositionInv'
  BY StoreUntouched DEF FetchDone
<1>2. /\ req' = NoRequest /\ entries' = <<>> /\ walked' = <<>> /\ got' = <<>> /\ fpc' # "get"
  BY DEF FetchDone
<1>3. FetchInv'
  BY <1>2, NothingFetched DEF FetchInv, IsGoodList, FetchedIsStored
<1> QED BY <1>1, <1>3 DEF IInv

(* An I/O error makes every entry a good one: nothing is said any more. *)
LEMMA FetchHasFailed == IInv /\ FetchFails => IInv'
<1> SUFFICES ASSUME IInv, FetchFails PROVE IInv'
  OBVIOUS
<1>1. /\ msgFiles' = msgFiles /\ idxFiles' = idxFiles /\ up' = up /\ open' = open
      /\ appendFilePosition' = appendFilePosition /\ entriesCount' = entriesCount
      /\ list' = list /\ fileCache' = fileCache /\ spc' = spc /\ sid' = sid /\ pos' = pos
      /\ ioFailed' = TRUE /\ req' = req /\ entries' = entries /\ walked' = walked
      /\ got' = got /\ fpc' # "get"
  BY DEF FetchFails, StoreRest, disk, counters, store, history
<1>2. GoodEntries \subseteq GoodEntries'
  BY <1>1, GoodStaysGood
<1>3. \A s : IsGoodList(s) => (s \in Seq(GoodEntries') /\ SortedById(s))
  BY <1>2, GoodListStaysGood, Zenon
<1>4. DiskInv'
  <2>1. \A n \in 1 .. Len(idxFiles) : \A k \in 1 .. Len(idxFiles[n]) :
          Entry(idxFiles[n][k], n) \in GoodEntries'
    BY <1>2 DEF IInv, DiskInv
  <2> QED BY <1>1, <2>1 DEF IInv, DiskInv
<1>5. FilesInv' /\ StoreInv' /\ PositionInv'
  BY <1>1 DEF IInv, FilesInv, StoreInv, PositionInv, Current
<1>6. ListInv'
  BY <1>1, <1>3 DEF IInv, ListInv, IsGoodList, Current
<1>7. FetchInv'
  BY <1>1, <1>3 DEF IInv, FetchInv, IsGoodList, FetchedIsStored
<1> QED BY <1>4, <1>5, <1>6, <1>7 DEF IInv
-----------------------------------------------------------------------------
(* Crash and restart *)

(* A crash leaves the files and forgets the memory. *)
LEMMA StopKeeps == IInv /\ (Crash \/ FetchPanics) => IInv'
<1> SUFFICES ASSUME IInv, Stopped, ioFailed' = ioFailed PROVE IInv'
  BY DEF Crash, FetchPanics
<1>1. /\ msgFiles' = msgFiles /\ idxFiles' = idxFiles /\ up' = FALSE /\ open' = FALSE
      /\ appendFilePosition' = 0 /\ entriesCount' = 0
      /\ list' = <<>> /\ fileCache' = <<>> /\ spc' = "idle" /\ sid' = 0 /\ pos' = 0
      /\ req' = NoRequest /\ entries' = <<>> /\ walked' = <<>> /\ got' = <<>> /\ fpc' = "idle"
  BY DEF Stopped, disk
<1>2. GoodEntries' = GoodEntries
  BY <1>1 DEF GoodEntries, PointsToData
<1>3. DiskInv'
  BY <1>1, <1>2 DEF IInv, DiskInv
<1>4. FilesInv'
  <2>1. Len(fileCache') = 0 /\ Current' = 1 /\ Len(idxFiles) \in Nat /\ Current \in Nat /\ Current >= 1
    BY <1>1, Lengths DEF Current
  <2>2. \A n \in 1 .. Len(idxFiles) : n < Len(idxFiles) \/ n < 1 => idxFiles[n] # <<>>
    BY <2>1 DEF IInv, FilesInv
  <2> QED BY <1>1, <2>1, <2>2 DEF FilesInv
<1>5. ListInv'
  <2>1. Len(list') = 0
    BY <1>1
  <2> QED BY <1>1, <2>1, NothingFetched DEF ListInv, IsGoodList
<1>6. StoreInv'
  BY <1>1, Zenon DEF IInv, StoreInv
<1>7. PositionInv'
  BY <1>1 DEF PositionInv
<1>8. FetchInv'
  BY <1>1, NothingFetched DEF FetchInv, IsGoodList, FetchedIsStored
<1> QED BY <1>3, <1>4, <1>5, <1>6, <1>7, <1>8 DEF IInv

(* initialize reads the list of the last index file and the limits of the others. *)
LEMMA RestartLoads == ListFacts /\ IInv /\ Restart => IInv'
<1> SUFFICES ASSUME ListFacts, IInv, Restart PROVE IInv'
  OBVIOUS
<1>1. /\ msgFiles' = msgFiles /\ idxFiles' = idxFiles /\ up' = TRUE /\ ioFailed' = ioFailed
      /\ open' = open /\ appendFilePosition' = appendFilePosition /\ spc' = spc /\ sid' = sid
      /\ pos' = pos /\ ~up /\ UNCHANGED fetch
  BY DEF Restart, disk, store, counters
<1>2. open = FALSE /\ spc = "idle" /\ fileCache = <<>> /\ list = <<>> /\ entriesCount = 0
  BY <1>1 DEF IInv, StoreInv
<1>3. GoodEntries' = GoodEntries
  BY <1>1 DEF GoodEntries, PointsToData
<1>4. DiskInv'
  BY <1>1, <1>3 DEF IInv, DiskInv
<1>5. FetchInv'
  BY <1>1, <1>3, FetchUntouched DEF IInv
<1>6. PositionInv'
  BY <1>1, <1>2 DEF PositionInv
<1>7. CASE idxFiles = <<>>
  <2>1. fileCache' = fileCache /\ list' = list /\ entriesCount' = entriesCount
    BY <1>7 DEF Restart, counters
  <2>2. FilesInv'
    BY <1>1, <1>2, <2>1 DEF IInv, FilesInv, Current
  <2>3. ListInv'
    BY <1>1, <1>2, <1>3, <2>1 DEF IInv, ListInv, IsGoodList, Current
  <2>4. StoreInv'
    BY <1>1, <2>1 DEF IInv, StoreInv
  <2> QED BY <1>4, <1>5, <1>6, <2>2, <2>3, <2>4 DEF IInv
<1>8. CASE idxFiles # <<>>
  <2> DEFINE F == Len(idxFiles)
             c == [n \in 1 .. F - 1 |-> ReadCacheEntry(n)]
             l == LoadIndexList(F)
  <2>1. fileCache' = c /\ list' = l /\ entriesCount' = Len(idxFiles[F])
    BY <1>8 DEF Restart, LastFile
  <2>2. F \in Nat /\ F > 0 /\ F \in 1 .. F
    <3>1. idxFiles \in Seq(Seq(IndexRecord))
      BY DEF IInv, DiskInv
    <3> QED BY <1>8, <3>1, EmptyList, SeqLength
  <2>3. IsGoodList(l) /\ Len(l) = Len(idxFiles[F]) /\ \A k \in 1 .. Len(l) : l[k].file = F
    BY <2>2, LoadIndexListProperties DEF IInv
  <2>4. \A n \in 1 .. F - 1 : idxFiles[n] # <<>>
    BY <2>2 DEF IInv, FilesInv
  <2>5. \A n \in 1 .. F - 1 : ReadCacheEntry(n) \in [min : Ids, max : Ids]
    <3> SUFFICES ASSUME NEW n \in 1 .. F - 1 PROVE ReadCacheEntry(n) \in [min : Ids, max : Ids]
      OBVIOUS
    <3>1. idxFiles[n] \in Seq(IndexRecord) /\ Len(idxFiles[n]) \in Nat
      BY <2>2, Lengths
    <3>2. Len(idxFiles[n]) > 0
      BY <2>4, <3>1, EmptyList
    <3>3. idxFiles[n][1] \in IndexRecord /\ idxFiles[n][Len(idxFiles[n])] \in IndexRecord
      BY <3>1, <3>2, SeqElement
    <3> QED BY <3>3 DEF ReadCacheEntry, IndexRecord
  <2> HIDE DEF l
  <2>6. c \in Seq([min : Ids, max : Ids]) /\ Len(c) = F - 1
    BY <2>2, <2>5
  <2> HIDE DEF c
  <2>7. Len(fileCache') = F - 1 /\ Current' = F
    BY <2>1, <2>2, <2>6 DEF Current
  <2> HIDE DEF F
  <2>8. FilesInv'
    BY <1>1, <1>2, <2>1, <2>2, <2>4, <2>6, <2>7 DEF FilesInv, F
  <2>9. ListInv'
    <3>1. IsGoodList(list)'
      BY <1>3, <2>1, <2>3 DEF IsGoodList
    <3>2. idxFiles[F] \in Seq(IndexRecord) /\ Len(idxFiles[F]) \in Nat
      BY <2>2, Lengths DEF F
    <3>3. list' # <<>> => idxFiles[F] # <<>>
      <4>1. list' \in Seq(GoodEntries)
        BY <2>1, <2>3 DEF IsGoodList
      <4> QED BY <2>1, <2>3, <3>2, <4>1, EmptyList
    <3> QED BY <1>1, <1>2, <2>1, <2>2, <2>3, <2>7, <3>1, <3>2, <3>3 DEF ListInv, F
  <2>10. StoreInv'
    BY <1>1, <2>1 DEF IInv, StoreInv
  <2> QED BY <1>4, <1>5, <1>6, <2>8, <2>9, <2>10 DEF IInv
<1> QED BY <1>7, <1>8
-----------------------------------------------------------------------------
(* The steps of Store *)

(* w is f with an e written into it or behind it. *)
IsWritten(w, S, f, e) ==
  /\ w \in Seq(S) /\ w # <<>>
  /\ \A j \in 1 .. Len(w) : w[j] = e \/ (j \in 1 .. Len(f) /\ w[j] = f[j])

(* A write into an index file replaces or appends one entry. *)
LEMMA WriteAtProperties ==
  ASSUME NEW S, NEW f \in Seq(S), NEW k \in Nat, k > 0, NEW e \in S
  PROVE  IsWritten(WriteAt(f, k, e), S, f, e)
<1>1. Len(f) \in Nat
  BY SeqLength
<1>2. CASE k <= Len(f)
  <2>1. WriteAt(f, k, e) = [f EXCEPT ![k] = e]
    BY <1>2 DEF WriteAt
  <2>2. f \in [1 .. Len(f) -> S]
    BY SeqLength
  <2>3. k \in 1 .. Len(f)
    BY <1>1, <1>2
  <2> DEFINE w == [f EXCEPT ![k] = e]
  <2>4. w \in [1 .. Len(f) -> S] /\ w[k] = e /\ \A j \in 1 .. Len(f) : j # k => w[j] = f[j]
    BY <2>2, <2>3
  <2> HIDE DEF w
  <2>5. w \in Seq(S) /\ Len(w) = Len(f)
    <3>1. w \in [1 .. Len(f) -> S]
      BY <2>4
    <3> QED BY <1>1, <3>1, FunctionIsSeq, Zenon
  <2>6. w # <<>>
    BY <2>3, <2>5
  <2> QED BY <1>1, <1>2, <2>1, <2>4, <2>5, <2>6 DEF w, IsWritten
<1>3. CASE ~(k <= Len(f))
  <2>1. WriteAt(f, k, e) = Append(f, e)
    BY <1>3 DEF WriteAt
  <2>2. /\ Append(f, e) \in Seq(S) /\ Len(Append(f, e)) = Len(f) + 1
        /\ \A j \in 1 .. Len(f) : Append(f, e)[j] = f[j]
        /\ Append(f, e)[Len(f) + 1] = e /\ Append(f, e) # <<>>
    BY <1>1
  <2> QED BY <1>1, <1>3, <2>1, <2>2 DEF IsWritten
<1> QED BY <1>2, <1>3

(* Writing an entry that is good into the current index file. *)
LEMMA IndexWritten ==
  ASSUME IInv, Current <= Len(idxFiles),
         NEW r \in IndexRecord, Entry(r, Current) \in GoodEntries, NEW k \in Nat, k > 0,
         idxFiles' = [idxFiles EXCEPT ![Current] = WriteAt(@, k, r)],
         msgFiles' = msgFiles, ioFailed' = ioFailed
  PROVE  /\ GoodEntries' = GoodEntries /\ DiskInv'
         /\ Len(idxFiles') = Len(idxFiles) /\ idxFiles'[Current] # <<>>
         /\ \A n \in 1 .. Len(idxFiles) : n # Current => idxFiles'[n] = idxFiles[n]
<1> DEFINE C == Current
           w == WriteAt(idxFiles[C], k, r)
<1>1. /\ C \in 1 .. Len(idxFiles) /\ Len(idxFiles) \in Nat /\ idxFiles[C] \in Seq(IndexRecord)
      /\ idxFiles \in [1 .. Len(idxFiles) -> Seq(IndexRecord)]
  <2>1. C \in 1 .. Len(idxFiles) /\ Len(idxFiles) \in Nat /\ idxFiles[C] \in Seq(IndexRecord)
    BY Lengths
  <2>2. idxFiles \in Seq(Seq(IndexRecord))
    BY DEF IInv, DiskInv
  <2>3. idxFiles \in [1 .. Len(idxFiles) -> Seq(IndexRecord)]
    BY <2>2, SeqLength, Zenon
  <2> QED BY <2>1, <2>3
<1>2. /\ w \in Seq(IndexRecord) /\ w # <<>>
      /\ \A j \in 1 .. Len(w) : w[j] = r \/ (j \in 1 .. Len(idxFiles[C]) /\ w[j] = idxFiles[C][j])
  <2> DEFINE f == idxFiles[C]
  <2>1. f \in Seq(IndexRecord)
    BY <1>1
  <2> HIDE DEF f
  <2>2. IsWritten(WriteAt(f, k, r), IndexRecord, f, r)
    BY <2>1, WriteAtProperties, Zenon
  <2> QED BY <2>2, Zenon DEF f, IsWritten
<1> HIDE DEF w
<1>3. idxFiles' = [idxFiles EXCEPT ![C] = w]
  BY DEF w
<1> HIDE DEF C
<1>4. /\ idxFiles' \in [1 .. Len(idxFiles) -> Seq(IndexRecord)] /\ idxFiles'[C] = w
      /\ \A n \in 1 .. Len(idxFiles) : n # C => idxFiles'[n] = idxFiles[n]
  BY <1>1, <1>2, <1>3, Zenon
<1>5. idxFiles' \in Seq(Seq(IndexRecord)) /\ Len(idxFiles') = Len(idxFiles)
  <2> DEFINE m == idxFiles'
  <2>1. Len(idxFiles) \in Nat /\ m \in [1 .. Len(idxFiles) -> Seq(IndexRecord)]
    BY <1>1, <1>4, Zenon
  <2> HIDE DEF m
  <2>2. m \in Seq(Seq(IndexRecord)) /\ Len(m) = Len(idxFiles)
    BY <2>1, FunctionIsSeq, Zenon
  <2> QED BY <2>2, Zenon DEF m
<1>6. GoodEntries' = GoodEntries
  BY DEF GoodEntries, PointsToData
<1>7. \A n \in 1 .. Len(idxFiles') : \A j \in 1 .. Len(idxFiles'[n]) :
        Entry(idxFiles'[n][j], n) \in GoodEntries
  <2> SUFFICES ASSUME NEW n \in 1 .. Len(idxFiles), NEW j \in 1 .. Len(idxFiles'[n])
               PROVE  Entry(idxFiles'[n][j], n) \in GoodEntries
    BY <1>5
  <2>1. \A m \in 1 .. Len(idxFiles) : \A i \in 1 .. Len(idxFiles[m]) :
          Entry(idxFiles[m][i], m) \in GoodEntries
    BY Zenon DEF IInv, DiskInv
  <2>2. CASE n # C
    BY <1>4, <2>1, <2>2
  <2>3. CASE n = C
    BY <1>2, <1>4, <2>1, <2>3 DEF C
  <2> QED BY <2>2, <2>3
<1>8. DiskInv'
  BY <1>5, <1>6, <1>7 DEF IInv, DiskInv
<1> QED BY <1>2, <1>4, <1>5, <1>6, <1>8, Zenon DEF C

(* Store begins: at a rollover the files are closed first. *)
LEMMA StoreBegins == \A id \in Ids : IInv /\ Store(id) => IInv'
<1> SUFFICES ASSUME NEW id \in Ids, IInv, Store(id) PROVE IInv'
  OBVIOUS
<1>1. /\ msgFiles' = msgFiles /\ idxFiles' = idxFiles /\ up' = up /\ ioFailed' = ioFailed
      /\ appendFilePosition' = appendFilePosition /\ entriesCount' = entriesCount
      /\ list' = list /\ fileCache' = fileCache /\ sid' = id /\ pos' = 1 /\ UNCHANGED fetch
      /\ up /\ spc = "idle"
  BY DEF Store, disk, faults, counters
<1>2. \/ entriesCount = messagesPerFile /\ spc' = "rewrite" /\ open' = FALSE
      \/ spc' = "header" /\ open' = open /\ open
      \/ spc' = "createMsg" /\ open' = open /\ ~open
  BY DEF Store, RolloverDue
<1>3. GoodEntries' = GoodEntries
  BY <1>1 DEF GoodEntries, PointsToData
<1>4. DiskInv' /\ FetchInv'
  BY <1>1, <1>3, FetchUntouched DEF IInv, DiskInv
<1>5. spc' = "rewrite" => list # <<>>
  BY <1>1, <1>2, PartitionAssumption DEF IInv, ListInv
<1>6. spc' = "rewrite" => Current <= Len(idxFiles)
  BY <1>1, <1>5 DEF IInv, ListInv
<1>7. FilesInv'
  BY <1>1, <1>2, <1>6 DEF IInv, FilesInv, Current
<1>8. ListInv'
  BY <1>1, <1>2, <1>3, <1>5 DEF IInv, ListInv, IsGoodList, Current
<1>9. StoreInv'
  <2>1. open \in BOOLEAN /\ up \in BOOLEAN /\ ioFailed \in BOOLEAN
    BY DEF IInv, StoreInv
  <2>2. /\ spc' \in {"rewrite", "header", "createMsg"}
        /\ spc' \in {"rewrite", "createMsg"} => ~open'
    BY <1>2
  <2>3. open' \in BOOLEAN /\ up' \in BOOLEAN /\ ioFailed' \in BOOLEAN /\ up'
    BY <1>1, <1>2, <2>1, Zenon
  <2>4. sid' \in Ids \union {0} /\ pos' \in Nat /\ pos' > 0 /\ appendFilePosition' \in Nat
    BY <1>1 DEF IInv, StoreInv
  <2> QED BY <1>1, <2>2, <2>3, <2>4 DEF StoreInv
<1>10. PositionInv'
  BY <1>1, <1>2 DEF IInv, PositionInv, Current
<1> QED BY <1>4, <1>7, <1>8, <1>9, <1>10 DEF IInv

(* rewriteSortedIdxFile writes an entry of the list, of the current file. *)
LEMMA RewriteKeeps == IInv /\ RewriteEntry => IInv'
<1> SUFFICES ASSUME IInv, RewriteEntry PROVE IInv'
  OBVIOUS
<1>1. /\ msgFiles' = msgFiles /\ up' = up /\ ioFailed' = ioFailed /\ open' = open
      /\ appendFilePosition' = appendFilePosition /\ entriesCount' = entriesCount
      /\ list' = list /\ fileCache' = fileCache /\ sid' = sid /\ pos' = pos + 1
      /\ UNCHANGED fetch /\ spc = "rewrite" /\ spc' = "rewrite" /\ pos <= Len(list)
  BY DEF RewriteEntry, faults, counters
<1> DEFINE r == [id |-> list[pos].id, offset |-> list[pos].offset]
<1>2. pos \in Nat /\ pos > 0 /\ pos \in 1 .. Len(list) /\ Current <= Len(idxFiles)
  BY <1>1, Lengths DEF IInv, StoreInv, FilesInv
<1>3. list[pos] \in GoodEntries /\ list[pos].file = Current
  BY <1>1, <1>2, Lengths DEF IInv, ListInv
<1>4. r \in IndexRecord /\ Entry(r, Current) = list[pos]
  BY <1>3 DEF GoodEntries, IndexEntry, IndexRecord, Entry
<1>5. idxFiles' = [idxFiles EXCEPT ![Current] = WriteAt(@, pos, r)]
  BY DEF RewriteEntry
<1> HIDE DEF r
<1>6. /\ GoodEntries' = GoodEntries /\ DiskInv'
      /\ Len(idxFiles') = Len(idxFiles) /\ idxFiles'[Current] # <<>>
      /\ \A n \in 1 .. Len(idxFiles) : n # Current => idxFiles'[n] = idxFiles[n]
  BY <1>1, <1>2, <1>3, <1>4, <1>5, IndexWritten, Zenon
<1>7. FetchInv'
  BY <1>1, <1>6, FetchUntouched DEF IInv
<1>8. FilesInv'
  BY <1>1, <1>2, <1>6 DEF IInv, FilesInv, Current
<1>9. ListInv'
  BY <1>1, <1>2, <1>6 DEF IInv, ListInv, IsGoodList, Current
<1>10. StoreInv'
  BY <1>1, <1>2 DEF IInv, StoreInv
<1>11. PositionInv'
  BY <1>1 DEF IInv, PositionInv, Current
<1> QED BY <1>6, <1>7, <1>8, <1>9, <1>10, <1>11 DEF IInv

(* The end of the rewriting. *)
LEMMA RewriteEndKeeps == IInv /\ RewriteEnds => IInv'
<1> SUFFICES ASSUME IInv, RewriteEnds PROVE IInv'
  OBVIOUS
<1>1. /\ msgFiles' = msgFiles /\ idxFiles' = idxFiles /\ up' = up /\ ioFailed' = ioFailed
      /\ open' = open /\ appendFilePosition' = appendFilePosition /\ entriesCount' = entriesCount
      /\ list' = list /\ fileCache' = fileCache /\ sid' = sid /\ pos' = pos
      /\ UNCHANGED fetch /\ spc = "rewrite" /\ spc' = "cacheAdd"
  BY DEF RewriteEnds, Goto, disk, faults, counters
<1>2. GoodEntries' = GoodEntries
  BY <1>1 DEF GoodEntries, PointsToData
<1>3. DiskInv' /\ FetchInv'
  BY <1>1, <1>2, FetchUntouched DEF IInv, DiskInv
<1>4. FilesInv'
  BY <1>1 DEF IInv, FilesInv, Current
<1>5. ListInv'
  BY <1>1, <1>2 DEF IInv, ListInv, IsGoodList, Current
<1>6. StoreInv'
  BY <1>1 DEF IInv, StoreInv
<1>7. PositionInv'
  BY <1>1 DEF IInv, PositionInv, Current
<1> QED BY <1>3, <1>4, <1>5, <1>6, <1>7 DEF IInv

(* The list goes to the cache: its file has entries. *)
LEMMA CacheAddKeeps == IInv /\ CacheAdd => IInv'
<1> SUFFICES ASSUME IInv, CacheAdd PROVE IInv'
  OBVIOUS
<1> DEFINE c == [min |-> list[1].id, max |-> list[Len(list)].id]
<1>1. /\ msgFiles' = msgFiles /\ idxFiles' = idxFiles /\ up' = up /\ ioFailed' = ioFailed
      /\ open' = open /\ appendFilePosition' = appendFilePosition /\ entriesCount' = entriesCount
      /\ list' = list /\ fileCache' = Append(fileCache, c) /\ sid' = sid /\ pos' = pos
      /\ UNCHANGED fetch /\ spc = "cacheAdd" /\ spc' = "clear"
  BY DEF CacheAdd, Goto, disk, faults, counters
<1>2. GoodEntries' = GoodEntries
  BY <1>1 DEF GoodEntries, PointsToData
<1>3. DiskInv' /\ FetchInv'
  BY <1>1, <1>2, FetchUntouched DEF IInv, DiskInv
<1>4. c \in [min : Ids, max : Ids]
  <2>1. list # <<>> /\ list \in Seq(GoodEntries)
    BY <1>1 DEF IInv, ListInv, IsGoodList
  <2>2. Len(list) \in Nat /\ Len(list) > 0
    BY <2>1, EmptyList, SeqLength
  <2>3. list[1] \in GoodEntries /\ list[Len(list)] \in GoodEntries
    BY <2>1, <2>2, SeqElement
  <2> QED BY <2>3 DEF GoodEntries, IndexEntry
<1> HIDE DEF c
<1>5. Current <= Len(idxFiles) /\ idxFiles[Current] # <<>> /\ open = FALSE
  BY <1>1 DEF IInv, ListInv, StoreInv
<1>6. /\ fileCache' \in Seq([min : Ids, max : Ids])
      /\ Len(fileCache') = Len(fileCache) + 1 /\ Current' = Current + 1 /\ Len(fileCache') = Current
  <2>1. fileCache \in Seq([min : Ids, max : Ids]) /\ Len(fileCache) \in Nat
    BY SeqLength DEF IInv, FilesInv
  <2> QED BY <1>1, <1>4, <2>1 DEF Current
<1>7. FilesInv'
  <2>1. \A n \in 1 .. Len(idxFiles) : n < Len(idxFiles) \/ n < Current + 1 => idxFiles[n] # <<>>
    BY <1>5, Lengths DEF IInv, FilesInv
  <2> QED BY <1>1, <1>5, <1>6, <2>1 DEF FilesInv
<1>8. ListInv'
  BY <1>1, <1>2 DEF IInv, ListInv, IsGoodList
<1>9. StoreInv'
  BY <1>1, <1>5 DEF IInv, StoreInv
<1>10. PositionInv'
  BY <1>1, <1>5 DEF PositionInv
<1> QED BY <1>3, <1>7, <1>8, <1>9, <1>10 DEF IInv

(* The list of the new file is empty. *)
LEMMA ListClearKeeps == IInv /\ ListClear => IInv'
<1> SUFFICES ASSUME IInv, ListClear PROVE IInv'
  OBVIOUS
<1>1. /\ msgFiles' = msgFiles /\ idxFiles' = idxFiles /\ up' = up /\ ioFailed' = ioFailed
      /\ open' = open /\ appendFilePosition' = appendFilePosition /\ entriesCount' = 0
      /\ list' = <<>> /\ fileCache' = fileCache /\ sid' = sid /\ pos' = pos
      /\ UNCHANGED fetch /\ spc = "clear" /\ spc' = "createMsg"
  BY DEF ListClear, Goto, disk, faults
<1>2. GoodEntries' = GoodEntries
  BY <1>1 DEF GoodEntries, PointsToData
<1>3. DiskInv' /\ FetchInv'
  BY <1>1, <1>2, FetchUntouched DEF IInv, DiskInv
<1>4. FilesInv'
  BY <1>1 DEF IInv, FilesInv, Current
<1>5. ListInv'
  BY <1>1, NothingFetched DEF ListInv, IsGoodList
<1>6. StoreInv'
  BY <1>1 DEF IInv, StoreInv
<1>7. PositionInv'
  BY <1>1 DEF IInv, StoreInv, PositionInv
<1> QED BY <1>3, <1>4, <1>5, <1>6, <1>7 DEF IInv

(* Writing to the message files. *)
LEMMA MessagesWritten ==
  ASSUME IInv, FilesGrow, msgFiles' \in Seq(Seq(Cells)), idxFiles' = idxFiles, ioFailed' = ioFailed
  PROVE  DiskInv' /\ GoodEntries \subseteq GoodEntries' /\ Len(idxFiles) <= Len(msgFiles')
<1>1. GoodEntries \subseteq GoodEntries'
  BY GoodStaysGood
<1>2. Len(idxFiles) <= Len(msgFiles')
  <2>1. Len(idxFiles) \in Nat /\ Len(msgFiles) \in Nat /\ Len(msgFiles') \in Nat
    BY Lengths, SeqLength
  <2>2. Len(idxFiles) <= Len(msgFiles)
    BY DEF IInv, DiskInv
  <2> QED BY <2>1, <2>2 DEF FilesGrow
<1>3. \A n \in 1 .. Len(idxFiles) : \A k \in 1 .. Len(idxFiles[n]) :
        Entry(idxFiles[n][k], n) \in GoodEntries'
  BY <1>1 DEF IInv, DiskInv
<1>4. DiskInv'
  BY <1>2, <1>3 DEF IInv, DiskInv
<1> QED BY <1>1, <1>2, <1>4

(* createNextAppendFiles writes the file header into a new or empty file. *)
LEMMA CreateMsgKeeps == IInv /\ CreateMsgFile => IInv'
<1> SUFFICES ASSUME IInv, CreateMsgFile PROVE IInv'
  OBVIOUS
<1> DEFINE C == Current
           h == <<FileHeader>>
<1>1. /\ idxFiles' = idxFiles /\ up' = up /\ ioFailed' = ioFailed
      /\ open' = open /\ appendFilePosition' = appendFilePosition /\ entriesCount' = entriesCount
      /\ list' = list /\ fileCache' = fileCache /\ sid' = sid /\ pos' = pos
      /\ UNCHANGED fetch /\ spc = "createMsg" /\ spc' = "createIdx"
  BY DEF CreateMsgFile, Goto, faults, counters
<1>2. /\ msgFiles \in Seq(Seq(Cells)) /\ Len(msgFiles) \in Nat /\ Len(idxFiles) \in Nat
      /\ Len(idxFiles) <= Len(msgFiles) /\ C \in Nat /\ C > 0 /\ C <= Len(idxFiles) + 1
  BY Lengths DEF IInv, DiskInv, FilesInv, Current
<1>3. \/ Len(msgFiles) < C /\ msgFiles' = Append(msgFiles, h)
      \/ ~(Len(msgFiles) < C) /\ msgFiles[C] = <<>> /\ msgFiles' = [msgFiles EXCEPT ![C] = h]
      \/ ~(Len(msgFiles) < C) /\ msgFiles' = msgFiles
  BY DEF CreateMsgFile
<1>4. h \in Seq(Cells)
  BY DEF Cells
<1> HIDE DEF h, C
<1>5. msgFiles' \in Seq(Seq(Cells)) /\ FilesGrow /\ C <= Len(msgFiles')
  <2>1. CASE Len(msgFiles) < C /\ msgFiles' = Append(msgFiles, h)
    <3>1. /\ msgFiles' \in Seq(Seq(Cells)) /\ Len(msgFiles') = Len(msgFiles) + 1
          /\ \A n \in 1 .. Len(msgFiles) : msgFiles'[n] = msgFiles[n]
      BY <1>2, <1>4, <2>1
    <3> QED BY <1>2, <2>1, <3>1 DEF FilesGrow
  <2>2. CASE ~(Len(msgFiles) < C) /\ msgFiles[C] = <<>> /\ msgFiles' = [msgFiles EXCEPT ![C] = h]
    <3>1. C \in 1 .. Len(msgFiles) /\ msgFiles \in [1 .. Len(msgFiles) -> Seq(Cells)]
      BY <1>2, <2>2, SeqLength
    <3>2. /\ msgFiles' \in [1 .. Len(msgFiles) -> Seq(Cells)]
          /\ \A n \in 1 .. Len(msgFiles) : n # C => msgFiles'[n] = msgFiles[n]
      BY <1>4, <2>2, <3>1
    <3>3. msgFiles' \in Seq(Seq(Cells)) /\ Len(msgFiles') = Len(msgFiles)
      <4>1. Len(msgFiles) \in Nat /\ msgFiles' \in [1 .. Len(msgFiles) -> Seq(Cells)]
        BY <1>2, <3>2
      <4> QED BY <4>1, FunctionIsSeq, Zenon
    <3>4. Len(msgFiles[C]) = 0
      BY <2>2
    <3>5. FilesGrow
      <4>1. ASSUME NEW n \in 1 .. Len(msgFiles), NEW i \in 1 .. Len(msgFiles[n])
            PROVE  i \in 1 .. Len(msgFiles'[n]) /\ msgFiles'[n][i] = msgFiles[n][i]
        BY <3>2, <3>4
      <4> QED BY <3>3, <4>1 DEF FilesGrow
    <3> QED BY <1>2, <2>2, <3>3, <3>5
  <2>3. CASE ~(Len(msgFiles) < C) /\ msgFiles' = msgFiles
    BY <1>2, <2>3 DEF FilesGrow
  <2> QED BY <1>3, <2>1, <2>2, <2>3
<1>6. DiskInv' /\ GoodEntries \subseteq GoodEntries'
  BY <1>1, <1>5, MessagesWritten
<1>7. FetchInv'
  BY <1>1, <1>6, FetchUntouched DEF IInv
<1>8. FilesInv'
  BY <1>1, <1>5 DEF IInv, FilesInv, StoreInv, Current, C
<1>9. ListInv'
  BY <1>1, <1>6, GoodListStaysGood DEF IInv, ListInv, IsGoodList, Current
<1>10. StoreInv'
  BY <1>1 DEF IInv, StoreInv
<1>11. PositionInv'
  BY <1>1 DEF IInv, StoreInv, PositionInv
<1> QED BY <1>6, <1>7, <1>8, <1>9, <1>10, <1>11 DEF IInv

(* The files are open: the position is the size of the message file. *)
LEMMA CreateIdxKeeps == IInv /\ CreateIdxFile => IInv'
<1> SUFFICES ASSUME IInv, CreateIdxFile PROVE IInv'
  OBVIOUS
<1> DEFINE C == Current
<1>1. /\ msgFiles' = msgFiles /\ up' = up /\ ioFailed' = ioFailed
      /\ open' = TRUE /\ appendFilePosition' = Len(msgFiles[C]) /\ entriesCount' = entriesCount
      /\ list' = list /\ fileCache' = fileCache /\ sid' = sid /\ pos' = pos
      /\ UNCHANGED fetch /\ spc = "createIdx" /\ spc' = "header"
  BY DEF CreateIdxFile, Goto, faults, SizeOnOpen
<1>2. /\ idxFiles \in Seq(Seq(IndexRecord)) /\ Len(msgFiles) \in Nat /\ Len(idxFiles) \in Nat
      /\ Len(idxFiles) <= Len(msgFiles) /\ C \in Nat /\ C > 0 /\ C <= Len(idxFiles) + 1
      /\ C <= Len(msgFiles) /\ C = Len(fileCache) + 1 /\ Len(fileCache) \in Nat
  BY <1>1, Lengths DEF IInv, DiskInv, FilesInv, Current
<1>3. \/ Len(idxFiles) < C /\ idxFiles' = Append(idxFiles, <<>>)
      \/ ~(Len(idxFiles) < C) /\ idxFiles' = idxFiles
  BY DEF CreateIdxFile
<1>4. C' = C
  BY <1>1 DEF Current
<1> HIDE DEF C
<1>5. GoodEntries' = GoodEntries
  BY <1>1 DEF GoodEntries, PointsToData
<1>6. Len(msgFiles[C]) \in Nat
  BY <1>2, Lengths
<1>7. FetchInv'
  BY <1>1, <1>5, FetchUntouched DEF IInv
<1>8. StoreInv'
  BY <1>1, <1>6 DEF IInv, StoreInv
<1>9. PositionInv'
  BY <1>1, <1>4 DEF PositionInv, C
<1>10. /\ idxFiles' \in Seq(Seq(IndexRecord)) /\ C <= Len(idxFiles') /\ Len(idxFiles') <= Len(msgFiles)
       /\ Len(idxFiles) <= Len(idxFiles') /\ Len(idxFiles') \in Nat
       /\ \A n \in 1 .. Len(idxFiles) : idxFiles'[n] = idxFiles[n]
       /\ \A n \in 1 .. Len(idxFiles') : n <= Len(idxFiles) \/ (n = C /\ idxFiles'[n] = <<>>)
  <2>1. CASE Len(idxFiles) < C /\ idxFiles' = Append(idxFiles, <<>>)
    <3>1. /\ idxFiles' \in Seq(Seq(IndexRecord)) /\ Len(idxFiles') = Len(idxFiles) + 1
          /\ \A n \in 1 .. Len(idxFiles) : idxFiles'[n] = idxFiles[n]
          /\ idxFiles'[Len(idxFiles) + 1] = <<>>
      BY <1>2, <2>1
    <3> QED BY <1>2, <2>1, <3>1
  <2>2. CASE ~(Len(idxFiles) < C) /\ idxFiles' = idxFiles
    BY <1>2, <2>2
  <2> QED BY <1>3, <2>1, <2>2
<1>11. DiskInv'
  <2>1. ASSUME NEW n \in 1 .. Len(idxFiles'), NEW k \in 1 .. Len(idxFiles'[n])
        PROVE  Entry(idxFiles'[n][k], n) \in GoodEntries
    <3>1. CASE n <= Len(idxFiles)
      <4>1. n \in 1 .. Len(idxFiles) /\ idxFiles'[n] = idxFiles[n]
        BY <1>2, <1>10, <3>1
      <4> QED BY <4>1 DEF IInv, DiskInv
    <3>2. CASE idxFiles'[n] = <<>>
      <4>1. Len(idxFiles'[n]) = 0
        BY <3>2
      <4> QED BY <4>1
    <3> QED BY <1>10, <3>1, <3>2
  <2> QED BY <1>1, <1>5, <1>10, <2>1 DEF IInv, DiskInv
<1>12. FilesInv'
  <2>1. ASSUME NEW n \in 1 .. Len(idxFiles'), n < Len(idxFiles') \/ n < C
        PROVE  idxFiles'[n] # <<>>
    <3>1. n \in 1 .. Len(idxFiles) /\ (n < Len(idxFiles) \/ n < C)
      BY <1>2, <1>3, <1>10, <2>1
    <3>2. idxFiles[n] # <<>>
      BY <3>1 DEF IInv, FilesInv, C
    <3> QED BY <1>10, <3>1, <3>2
  <2> QED BY <1>1, <1>2, <1>4, <1>10, <2>1 DEF IInv, FilesInv, C
<1>13. ListInv'
  <2>1. list # <<>> => C <= Len(idxFiles') /\ idxFiles'[C] # <<>>
    <3>1. list # <<>> => C <= Len(idxFiles) /\ idxFiles[C] # <<>>
      BY <1>1 DEF IInv, ListInv, C
    <3> QED BY <1>2, <1>10, <3>1
  <2> QED BY <1>1, <1>4, <1>5, <2>1 DEF IInv, ListInv, IsGoodList, C
<1> QED BY <1>7, <1>8, <1>9, <1>11, <1>12, <1>13 DEF IInv

(* A cell is appended to the message file. *)
LEMMA CellWritten ==
  ASSUME IInv, NEW cell \in Cells, Current <= Len(msgFiles),
         msgFiles' = [msgFiles EXCEPT ![Current] = Append(@, cell)],
         idxFiles' = idxFiles, ioFailed' = ioFailed
  PROVE  /\ DiskInv' /\ GoodEntries \subseteq GoodEntries'
         /\ Len(msgFiles'[Current]) = Len(msgFiles[Current]) + 1
         /\ msgFiles'[Current][Len(msgFiles[Current]) + 1] = cell
<1> DEFINE C == Current
           f == msgFiles[C]
           w == Append(f, cell)
<1>1. /\ C \in 1 .. Len(msgFiles) /\ Len(msgFiles) \in Nat /\ f \in Seq(Cells)
      /\ msgFiles \in [1 .. Len(msgFiles) -> Seq(Cells)]
  BY Lengths, SeqLength DEF IInv, DiskInv
<1>2. msgFiles' = [msgFiles EXCEPT ![C] = w]
  OBVIOUS
<1> HIDE DEF f, C
<1>3. /\ w \in Seq(Cells) /\ Len(w) = Len(f) + 1 /\ w[Len(f) + 1] = cell
      /\ Len(f) \in Nat /\ \A i \in 1 .. Len(f) : w[i] = f[i]
  BY <1>1
<1> HIDE DEF w
<1>4. /\ msgFiles' \in [1 .. Len(msgFiles) -> Seq(Cells)] /\ msgFiles'[C] = w
      /\ \A n \in 1 .. Len(msgFiles) : n # C => msgFiles'[n] = msgFiles[n]
  BY <1>1, <1>2, <1>3, Zenon
<1>5. msgFiles' \in Seq(Seq(Cells)) /\ Len(msgFiles') = Len(msgFiles)
  <2>1. Len(msgFiles) \in Nat /\ msgFiles' \in [1 .. Len(msgFiles) -> Seq(Cells)]
    BY <1>1, <1>4
  <2> DEFINE m == msgFiles'
  <2> HIDE DEF m
  <2>2. m \in [1 .. Len(msgFiles) -> Seq(Cells)]
    BY <2>1 DEF m
  <2>3. m \in Seq(Seq(Cells)) /\ Len(m) = Len(msgFiles)
    BY <2>1, <2>2, FunctionIsSeq, Zenon
  <2> QED BY <2>3 DEF m
<1>6. FilesGrow
  <2>1. ASSUME NEW n \in 1 .. Len(msgFiles), NEW i \in 1 .. Len(msgFiles[n])
        PROVE  i \in 1 .. Len(msgFiles'[n]) /\ msgFiles'[n][i] = msgFiles[n][i]
    <3>1. CASE n # C
      BY <1>4, <3>1
    <3>2. CASE n = C
      <4>1. i \in 1 .. Len(f)
        BY <3>2 DEF f
      <4>2. i \in 1 .. Len(w) /\ w[i] = f[i]
        BY <1>3, <4>1
      <4> QED BY <1>4, <3>2, <4>2 DEF f
    <3> QED BY <3>1, <3>2
  <2> QED BY <1>5, <2>1 DEF FilesGrow
<1>7. DiskInv' /\ GoodEntries \subseteq GoodEntries'
  BY <1>5, <1>6, MessagesWritten
<1> QED BY <1>3, <1>4, <1>7 DEF f, C

(* The header and the data of the message move the end of the file. *)
LEMMA WriteKeeps == IInv /\ (WriteHeader \/ WriteData) => IInv'
<1> SUFFICES ASSUME IInv, WriteHeader \/ WriteData PROVE IInv'
  OBVIOUS
<1> DEFINE C == Current
<1>1. /\ idxFiles' = idxFiles /\ up' = up /\ ioFailed' = ioFailed
      /\ open' = open /\ appendFilePosition' = appendFilePosition /\ entriesCount' = entriesCount
      /\ list' = list /\ fileCache' = fileCache /\ sid' = sid /\ pos' = pos
      /\ UNCHANGED fetch
      /\ \/ spc = "header" /\ spc' = "data"
         \/ spc = "data" /\ spc' = "index"
  BY DEF WriteHeader, WriteData, WriteCell, Goto, faults, counters
<1>2. PICK cell \in Cells : /\ msgFiles' = [msgFiles EXCEPT ![C] = Append(@, cell)]
                            /\ spc = "data" => cell = Data(sid)
  <2>1. sid \in Ids
    BY <1>1 DEF IInv, StoreInv
  <2>2. Header(sid) \in Cells /\ Data(sid) \in Cells
    BY <2>1 DEF Cells
  <2>3. CASE WriteHeader
    BY <2>2, <2>3, Zenon DEF WriteHeader, WriteCell
  <2>4. CASE WriteData
    BY <2>2, <2>4, Zenon DEF WriteData, WriteCell
  <2> QED BY <2>3, <2>4
<1>3. C <= Len(msgFiles) /\ C \in 1 .. Len(msgFiles)
  <2>1. C <= Len(idxFiles) /\ Len(idxFiles) <= Len(msgFiles)
    BY <1>1 DEF IInv, DiskInv, FilesInv
  <2> QED BY <2>1, Lengths
<1>4. /\ DiskInv' /\ GoodEntries \subseteq GoodEntries'
      /\ Len(msgFiles'[C]) = Len(msgFiles[C]) + 1
      /\ msgFiles'[C][Len(msgFiles[C]) + 1] = cell
  <2>1. msgFiles' = [msgFiles EXCEPT ![Current] = Append(@, cell)] /\ Current <= Len(msgFiles)
    BY <1>2, <1>3
  <2>2. idxFiles' = idxFiles /\ ioFailed' = ioFailed
    BY <1>1
  <2> QED BY <2>1, <2>2, CellWritten, Zenon
<1>5. FetchInv'
  BY <1>1, <1>4, FetchUntouched DEF IInv
<1>6. FilesInv'
  BY <1>1 DEF IInv, FilesInv, Current
<1>7. ListInv'
  BY <1>1, <1>4, GoodListStaysGood DEF IInv, ListInv, IsGoodList, Current
<1>8. StoreInv'
  BY <1>1 DEF IInv, StoreInv
<1>9. PositionInv'
  <2>1. C' = C /\ Data(sid)' = Data(sid)
    BY <1>1 DEF Current, Data
  <2>2. appendFilePosition \in Nat /\ Len(msgFiles[C]) \in Nat
    BY <1>3, Lengths DEF IInv, StoreInv
  <2>3. CASE spc = "header"
    <3>1. ~ioFailed => appendFilePosition = Len(msgFiles[C])
      BY <2>3 DEF IInv, PositionInv
    <3> QED BY <1>1, <1>4, <2>1, <2>2, <2>3, <3>1 DEF PositionInv
  <2>4. CASE spc = "data"
    <3>1. ~ioFailed => appendFilePosition + 1 = Len(msgFiles[C])
      BY <2>4 DEF IInv, PositionInv
    <3> QED BY <1>1, <1>2, <1>4, <2>1, <2>2, <2>4, <3>1 DEF PositionInv
  <2> QED BY <1>1, <2>3, <2>4
<1> QED BY <1>4, <1>5, <1>6, <1>7, <1>8, <1>9 DEF IInv

(* The offset that store computes is that of the data it wrote. *)
LEMMA OffsetIsGood ==
  ASSUME IInv, spc \in {"index", "finish"}
  PROVE  [id |-> sid, offset |-> messageOffset, file |-> Current] \in GoodEntries
<1>1. sid \in Ids /\ appendFilePosition \in Nat /\ messageOffset \in Nat
  BY DEF IInv, StoreInv, messageOffset
<1>2. Current \in 1 .. Len(msgFiles) /\ Current \in Nat /\ Len(msgFiles[Current]) \in Nat
  <2>1. Current <= Len(idxFiles) /\ Len(idxFiles) <= Len(msgFiles)
    BY DEF IInv, DiskInv, FilesInv
  <2> QED BY <2>1, Lengths
<1>3. ~ioFailed => /\ messageOffset + 1 = Len(msgFiles[Current])
                   /\ msgFiles[Current][messageOffset + 1] = Data(sid)
  <2>1. messageOffset + 1 = appendFilePosition + 2
    BY <1>1 DEF messageOffset
  <2> QED BY <2>1 DEF IInv, PositionInv
<1>4. ~ioFailed => messageOffset + 1 \in 1 .. Len(msgFiles[Current])
  BY <1>1, <1>2, <1>3
<1> HIDE DEF messageOffset
<1> QED BY <1>1, <1>2, <1>3, <1>4 DEF GoodEntries, IndexEntry, PointsToData

(* The index entry of the message. *)
LEMMA WriteIndexKeeps == IInv /\ WriteIndex => IInv'
<1> SUFFICES ASSUME IInv, WriteIndex PROVE IInv'
  OBVIOUS
<1> DEFINE r == [id |-> sid, offset |-> messageOffset]
<1>1. /\ msgFiles' = msgFiles /\ up' = up /\ ioFailed' = ioFailed /\ open' = open
      /\ appendFilePosition' = appendFilePosition /\ entriesCount' = entriesCount
      /\ list' = list /\ fileCache' = fileCache /\ sid' = sid /\ pos' = pos
      /\ UNCHANGED fetch /\ spc = "index" /\ spc' = "finish"
  BY DEF WriteIndex, Goto, faults, counters
<1>2. entriesCount + 1 \in Nat /\ entriesCount + 1 > 0 /\ Current <= Len(idxFiles)
  <2>1. entriesCount \in Nat
    BY DEF IInv, ListInv
  <2>2. Current <= Len(idxFiles)
    BY <1>1 DEF IInv, FilesInv
  <2> QED BY <2>1, <2>2
<1>3. r \in IndexRecord /\ Entry(r, Current) \in GoodEntries
  <2>1. Entry(r, Current) = [id |-> sid, offset |-> messageOffset, file |-> Current]
    BY DEF Entry
  <2>2. sid \in Ids /\ messageOffset \in Nat
    BY <1>1 DEF IInv, StoreInv, messageOffset
  <2> QED BY <1>1, <2>1, <2>2, OffsetIsGood DEF IndexRecord
<1>4. idxFiles' = [idxFiles EXCEPT ![Current] = WriteAt(@, entriesCount + 1, r)]
  BY DEF WriteIndex
<1> HIDE DEF r
<1> DEFINE k == entriesCount + 1
<1> HIDE DEF k
<1>5. k \in Nat /\ k > 0 /\ idxFiles' = [idxFiles EXCEPT ![Current] = WriteAt(@, k, r)]
  BY <1>2, <1>4 DEF k
<1>6. /\ GoodEntries' = GoodEntries /\ DiskInv'
      /\ Len(idxFiles') = Len(idxFiles) /\ idxFiles'[Current] # <<>>
      /\ \A n \in 1 .. Len(idxFiles) : n # Current => idxFiles'[n] = idxFiles[n]
  BY <1>1, <1>2, <1>3, <1>5, IndexWritten, Zenon
<1>7. FetchInv'
  BY <1>1, <1>6, FetchUntouched DEF IInv
<1>8. FilesInv'
  BY <1>1, <1>2, <1>6 DEF IInv, FilesInv, Current
<1>9. ListInv'
  BY <1>1, <1>2, <1>6 DEF IInv, ListInv, IsGoodList, Current
<1>10. StoreInv'
  BY <1>1, <1>2 DEF IInv, StoreInv
<1>11. PositionInv'
  BY <1>1 DEF IInv, PositionInv, Current, Data
<1> QED BY <1>6, <1>7, <1>8, <1>9, <1>10, <1>11 DEF IInv

(* The entry goes into the list, the position behind the message. *)
LEMMA ReturnKeeps == ListFacts /\ IInv /\ StoreReturns => IInv'
<1> SUFFICES ASSUME ListFacts, IInv, StoreReturns PROVE IInv'
  OBVIOUS
<1> DEFINE e == [id |-> sid, offset |-> messageOffset, file |-> Current]
<1>1. /\ msgFiles' = msgFiles /\ idxFiles' = idxFiles /\ up' = up /\ ioFailed' = ioFailed
      /\ open' = open /\ appendFilePosition' = appendFilePosition + 2
      /\ entriesCount' = entriesCount + 1 /\ list' = InsertElem(list, e)
      /\ fileCache' = fileCache /\ sid' = sid /\ pos' = pos
      /\ UNCHANGED fetch /\ spc = "finish" /\ spc' = "idle"
  BY DEF StoreReturns, Goto, disk, faults
<1>2. e \in GoodEntries /\ e.file = Current
  BY <1>1, OffsetIsGood
<1>3. GoodEntries' = GoodEntries
  BY <1>1 DEF GoodEntries, PointsToData
<1>4. DiskInv' /\ FetchInv'
  BY <1>1, <1>3, FetchUntouched DEF IInv, DiskInv
<1>5. FilesInv'
  BY <1>1 DEF IInv, FilesInv, Current
<1> HIDE DEF e
<1>6. ListInv'
  <2>1. /\ list \in Seq(GoodEntries) /\ SortedById(list) /\ entriesCount = Len(list) /\ Len(list) \in Nat
        /\ \A k \in 1 .. Len(list) : list[k].file = Current
        /\ Current <= Len(idxFiles) /\ idxFiles[Current] # <<>>
    BY <1>1, SeqLength DEF IInv, ListInv, FilesInv, IsGoodList
  <2>2. /\ list' \in Seq(GoodEntries) /\ SortedById(list') /\ Len(list') = Len(list) + 1
        /\ Elements(list') = Elements(list) \union {e}
    <3> DEFINE n == InsertElem(list, e)
    <3>1. /\ n \in Seq(GoodEntries) /\ SortedById(n) /\ Len(n) = Len(list) + 1
          /\ Elements(n) = Elements(list) \union {e}
      BY <1>2, <2>1, GoodInsert, Zenon DEF IsGoodList
    <3> HIDE DEF n
    <3>2. list' = n
      BY <1>1 DEF n
    <3> QED BY <3>1, <3>2
  <2>3. \A x \in Elements(list') : x.file = Current
    BY <1>2, <2>1, <2>2, Zenon DEF Elements
  <2>4. \A k \in 1 .. Len(list') : list'[k].file = Current
    BY <2>3 DEF Elements
  <2>5. Current' = Current
    BY <1>1 DEF Current
  <2>6. IsGoodList(list)'
    BY <1>3, <2>2, Zenon DEF IsGoodList
  <2>7. entriesCount' = Len(list') /\ entriesCount' \in Nat /\ Current <= Len(idxFiles') /\ idxFiles'[Current] # <<>>
    <3>1. entriesCount' = entriesCount + 1 /\ entriesCount = Len(list) /\ Len(list) \in Nat
      BY <1>1, <2>1, Zenon
    <3>2. entriesCount' = Len(list') /\ entriesCount' \in Nat
      BY <2>2, <3>1
    <3> QED BY <1>1, <2>1, <3>2, Zenon
  <2> QED BY <1>1, <2>4, <2>5, <2>6, <2>7, Zenon DEF ListInv
<1>7. StoreInv'
  <2>1. up
    BY <1>1 DEF IInv, StoreInv
  <2> QED BY <1>1, <2>1 DEF IInv, StoreInv
<1>8. PositionInv'
  BY <1>1 DEF IInv, PositionInv, Current
<1> QED BY <1>4, <1>5, <1>6, <1>7, <1>8 DEF IInv

(* A failed file operation: from now on nothing is said of what is fetched. *)
LEMMA StoreHasFailed == IInv /\ StoreFails => IInv'
<1> SUFFICES ASSUME IInv, StoreFails PROVE IInv'
  OBVIOUS
<1> DEFINE C == Current
<1>1. /\ idxFiles' = idxFiles /\ up' = up /\ ioFailed' = TRUE /\ open' = open
      /\ appendFilePosition' = appendFilePosition /\ entriesCount' = entriesCount
      /\ list' = list /\ fileCache' = fileCache /\ sid' = sid /\ pos' = pos
      /\ UNCHANGED fetch /\ spc' = "idle" /\ spc # "clear"
      /\ \/ spc = "createIdx" /\ msgFiles' = [msgFiles EXCEPT ![C] = <<>>]
         \/ msgFiles' = msgFiles
  BY DEF StoreFails, Goto, counters
<1>2. GoodEntries \subseteq GoodEntries'
  BY <1>1, GoodStaysGood
<1>3. msgFiles' \in Seq(Seq(Cells)) /\ Len(msgFiles') = Len(msgFiles)
  <2>1. msgFiles \in Seq(Seq(Cells))
    BY DEF IInv, DiskInv
  <2>2. CASE spc = "createIdx" /\ msgFiles' = [msgFiles EXCEPT ![C] = <<>>]
    <3>1. C \in 1 .. Len(msgFiles) /\ Len(msgFiles) \in Nat
      BY <2>2, Lengths DEF IInv, FilesInv
    <3>2. msgFiles \in [1 .. Len(msgFiles) -> Seq(Cells)] /\ <<>> \in Seq(Cells)
      BY <2>1, SeqLength
    <3>3. msgFiles' \in [1 .. Len(msgFiles) -> Seq(Cells)]
      BY <2>2, <3>1, <3>2
    <3>4. Len(msgFiles) \in Nat
      BY <3>1
    <3> QED BY <3>3, <3>4, FunctionIsSeq, Zenon
  <2> QED BY <1>1, <2>1, <2>2
<1>4. DiskInv'
  <2>1. \A n \in 1 .. Len(idxFiles) : \A k \in 1 .. Len(idxFiles[n]) :
          Entry(idxFiles[n][k], n) \in GoodEntries'
    BY <1>2 DEF IInv, DiskInv
  <2> QED BY <1>1, <1>3, <2>1 DEF IInv, DiskInv
<1>5. FilesInv'
  BY <1>1, <1>3 DEF IInv, FilesInv, Current
<1>6. ListInv'
  BY <1>1, <1>2, GoodListStaysGood DEF IInv, ListInv, IsGoodList, Current
<1>7. StoreInv'
  <2>1. up
    BY DEF IInv, StoreInv, StoreFails
  <2> QED BY <1>1, <2>1 DEF IInv, StoreInv
<1>8. PositionInv'
  BY <1>1 DEF PositionInv
<1>9. FetchInv'
  BY <1>1, <1>2, FetchUntouched DEF IInv
<1> QED BY <1>4, <1>5, <1>6, <1>7, <1>8, <1>9 DEF IInv

(* A step that changes nothing. *)
LEMMA StutterKeeps == IInv /\ UNCHANGED vars => IInv'
<1> SUFFICES ASSUME IInv, UNCHANGED vars PROVE IInv'
  OBVIOUS
<1>1. UNCHANGED FetchRest /\ UNCHANGED fetch
  BY DEF vars, FetchRest, StoreRest
<1>2. /\ GoodEntries' = GoodEntries /\ ioFailed' = ioFailed
      /\ DiskInv' /\ FilesInv' /\ ListInv' /\ StoreInv' /\ PositionInv'
  BY <1>1, StoreUntouched
<1>3. FetchInv'
  BY <1>1, <1>2, FetchUntouched DEF IInv
<1> QED BY <1>2, <1>3 DEF IInv
-----------------------------------------------------------------------------
(* The theorem *)

(* The invariant is inductive. *)
LEMMA InvStep == ListFacts /\ IInv /\ [Next]_vars => IInv'
<1> SUFFICES ASSUME ListFacts, IInv, [Next]_vars PROVE IInv'
  OBVIOUS
<1>1. ASSUME NEW id \in Ids, Store(id) PROVE IInv'
  BY <1>1, StoreBegins
<1>2. CASE StoreStep
  BY <1>2, RewriteKeeps, RewriteEndKeeps, CacheAddKeeps, ListClearKeeps, CreateMsgKeeps,
     CreateIdxKeeps, WriteKeeps, WriteIndexKeeps, ReturnKeeps DEF StoreStep
<1>3. CASE StoreFails
  BY <1>3, StoreHasFailed
<1>4. ASSUME NEW r \in Requests, Fetch(r) PROVE IInv'
  BY <1>4, FetchBegins
<1>5. CASE FetchStep
  BY <1>5, FetchLooks, FetchGets, StopKeeps, FetchMerges, FetchReads, FetchEnds DEF FetchStep
<1>6. CASE FetchFails
  BY <1>6, FetchHasFailed
<1>7. CASE Crash
  BY <1>7, StopKeeps
<1>8. CASE Restart
  BY <1>8, RestartLoads
<1>9. CASE UNCHANGED vars
  BY <1>9, StutterKeeps
<1> QED BY <1>1, <1>2, <1>3, <1>4, <1>5, <1>6, <1>7, <1>8, <1>9 DEF Next

=============================================================================
