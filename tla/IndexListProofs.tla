-------------------------- MODULE IndexListProofs --------------------------
(***************************************************************************)
(* Theorems about the sorted list of module IndexList: after any sequence  *)
(* of inserts and clears, for every set of entries and requests.           *)
(***************************************************************************)
EXTENDS IndexList, IndexListOpsProofs

(* The list is sorted, and holds what was inserted since the last clear.   *)
IInv ==
  /\ TypeOK
  /\ SortedById(items)
  /\ Elements(items) = {x \in Entries : inserted[x] > 0}

(* Inserts and clears keep that. *)
LEMMA ListInv == Spec => []IInv
<1>0. HaveIds(Entries)
  BY EntriesAssumption DEF HaveIds
<1>1. Init => IInv
  BY DEF Init, IInv, TypeOK, SortedById, Elements
<1>2. IInv /\ [Next]_vars => IInv'
  <2> SUFFICES ASSUME IInv, [Next]_vars PROVE IInv'
    OBVIOUS
  <2>1. ASSUME NEW e \in Entries, Insert(e) PROVE IInv'
    <3>1. items' = InsertElem(items, e) /\ inserted' = [inserted EXCEPT ![e] = @ + 1]
      BY <2>1 DEF Insert
    <3>2. items \in Seq(Entries) /\ SortedById(items) /\ inserted \in [Entries -> Nat]
      BY DEF IInv, TypeOK
    <3>3. /\ InsertElem(items, e) \in Seq(Entries)
          /\ SortedById(InsertElem(items, e))
          /\ Elements(InsertElem(items, e)) = Elements(items) \union {e}
      BY <1>0, <3>2, InsertElemProperties
    <3>4. /\ inserted' \in [Entries -> Nat]
          /\ {x \in Entries : inserted'[x] > 0} = {x \in Entries : inserted[x] > 0} \union {e}
      BY <3>1, <3>2
    <3>5. Elements(items) = {x \in Entries : inserted[x] > 0}
      BY DEF IInv
    <3>6. Elements(items') = {x \in Entries : inserted'[x] > 0}
      BY <3>1, <3>3, <3>4, <3>5, Zenon
    <3>7. items' \in Seq(Entries) /\ SortedById(items')
      BY <3>1, <3>3
    <3> QED BY <3>4, <3>6, <3>7 DEF IInv, TypeOK
  <2>2. CASE Clear
    BY <2>2 DEF Clear, IInv, TypeOK, SortedById, Elements
  <2>3. CASE UNCHANGED vars
    BY <2>3 DEF vars, IInv, TypeOK
  <2> QED BY <2>1, <2>2, <2>3 DEF Next
<1> QED BY <1>1, <1>2, PTL DEF Spec

(* The ids of the list are those inserted since the last clear. *)
LEMMA IdsAreInserted == IInv => Inserted = {items[j].id : j \in 1 .. Len(items)}
<1> SUFFICES ASSUME IInv PROVE Inserted = {items[j].id : j \in 1 .. Len(items)}
  OBVIOUS
<1>1. Inserted = {x.id : x \in Elements(items)}
  BY Zenon DEF IInv, Inserted
<1> QED BY <1>1 DEF Elements

(* The list of the file store is sorted by id after any sequence of        *)
(* inserts and clears, for every set of entries.                           *)
THEOREM AlwaysSorted == Spec => []Sorted
<1>1. IInv => Sorted
  BY DEF IInv, Sorted, SortedById
<1> QED BY <1>1, ListInv, PTL

(* search finds an id if and only if it was inserted since the last clear, *)
(* and otherwise bestIndex is a closest entry: for lists of every length,  *)
(* with equal ids or without.                                              *)
THEOREM AlwaysFindsClosest == Spec => []SearchFindsClosest
<1>1. IInv => SearchFindsClosest
  <2> SUFFICES ASSUME IInv, NEW req \in Requests
               PROVE  LET r == Search(items, req.start) IN
                      /\ r.found <=> req.start \in Inserted
                      /\ r.found => items[r.pos].id = req.start
                      /\ ~r.found /\ items # <<>> =>
                           \A id \in Inserted : Distance(items[r.best].id, req.start)
                                                   <= Distance(id, req.start)
    BY Zenon DEF SearchFindsClosest
  <2> DEFINE r == Search(items, req.start)
  <2>1. HaveIds(Entries) /\ items \in Seq(Entries) /\ SortedById(items) /\ req.start \in Nat
    BY EntriesAssumption, RequestsAssumption DEF HaveIds, IInv, TypeOK
  <2>2. /\ r.found \in BOOLEAN
        /\ r.found => r.pos \in 1 .. Len(items) /\ items[r.pos].id = req.start
        /\ ~r.found => \A j \in 1 .. Len(items) : items[j].id # req.start
        /\ ~r.found /\ Len(items) > 0 =>
             \A j \in 1 .. Len(items) :
               Distance(items[r.best].id, req.start) <= Distance(items[j].id, req.start)
    BY <2>1, SearchProperties
  <2>3. items # <<>> => Len(items) > 0
    BY <2>1, NoEntries, ListLength
  <2>4. Inserted = {items[j].id : j \in 1 .. Len(items)}
    BY IdsAreInserted
  <2> HIDE DEF r
  <2>5. CASE r.found
    <3>1. req.start \in Inserted
      BY <2>2, <2>4, <2>5, Zenon
    <3> QED BY <2>2, <2>5, <3>1, Zenon DEF r
  <2>6. CASE ~r.found
    <3>1. req.start \notin Inserted
      BY <2>2, <2>4, <2>6, Zenon
    <3>2. ASSUME items # <<>>, NEW id \in Inserted
          PROVE  Distance(items[r.best].id, req.start) <= Distance(id, req.start)
      <4>1. PICK j \in 1 .. Len(items) : id = items[j].id
        BY <2>4, Zenon
      <4> QED BY <2>2, <2>3, <2>6, <3>2, <4>1, Zenon
    <3> QED BY <2>2, <2>6, <3>1, <3>2, Zenon DEF r
  <2> QED BY <2>5, <2>6
<1> QED BY <1>1, ListInv, PTL
-----------------------------------------------------------------------------
(* extract *)

(* What ExtractTakesRun says of one request, by name. *)
IsBefore(req, x, y) == IF req.dir = 1 THEN x < y ELSE x > y
AheadOf(s, req, x) ==
  {y \in Ids(s) : IsBefore(req, y, x) /\ ~IsBefore(req, y, s[StartPos(s, req.start)].id)}
Wanted(s, req) ==
  {x \in Ids(s) : /\ ~IsBefore(req, x, s[StartPos(s, req.start)].id)
                  /\ Cardinality(AheadOf(s, req, x)) < req.count
                  /\ req.end > 0 => \A y \in AheadOf(s, req, x) : y < req.end}

(* The size of an interval. *)
LEMMA IntervalSize ==
  \A a, b \in Int : a <= b + 1 => IsFiniteSet(a .. b) /\ Cardinality(a .. b) = b - a + 1
<1> SUFFICES ASSUME NEW a \in Int, NEW b \in Int, a <= b + 1
             PROVE  IsFiniteSet(a .. b) /\ Cardinality(a .. b) = b - a + 1
  OBVIOUS
<1>1. IsFiniteSet(a .. b) /\ Cardinality(a .. b) = IF a > b THEN 0 ELSE b - a + 1
  BY FS_Interval
<1> QED BY <1>1

(* A sorted list with as many ids as entries has no two equal ids. *)
LEMMA DistinctIsStrict ==
  ASSUME NEW s \in Seq(Entries), SortedById(s), Cardinality(Ids(s)) = Len(s)
  PROVE  StrictById(s)
<1> DEFINE n == Len(s)
           f == [i \in 1 .. n |-> s[i].id]
<1>1. n \in Nat /\ \A i \in 1 .. n : s[i].id \in Nat
  BY ListLength, ListElement, EntriesAssumption
<1>2. f \in Surjection(1 .. n, Ids(s))
  BY DEF Surjection, Ids
<1>3. IsFiniteSet(1 .. n) /\ Cardinality(1 .. n) = n
  BY <1>1, IntervalSize
<1>4. f \in Injection(1 .. n, Ids(s))
  <2> HIDE DEF f, n
  <2>1. Cardinality(Ids(s)) = Cardinality(1 .. n)
    BY <1>3 DEF n
  <2> QED BY <1>2, <1>3, <2>1, FS_Surjection
<1>5. \A i, j \in 1 .. n : s[i].id = s[j].id => i = j
  BY <1>4 DEF Injection, IsInjective
<1> QED BY <1>1, <1>5 DEF SortedById, StrictById

(* On a list without equal ids, the ids in front of the k-th one of the    *)
(* walk are those of the k positions visited before it.                    *)
LEMMA AheadIsWalked ==
  ASSUME NEW s \in Seq(Entries), SortedById(s), StrictById(s), Len(s) > 0,
         NEW req \in Requests, NEW k \in 0 .. Len(s) - 1, WalkPos(s, req, k) \in 1 .. Len(s)
  PROVE  LET x == s[WalkPos(s, req, k)].id
         IN  /\ x \in Ids(s)
             /\ ~IsBefore(req, x, s[StartPos(s, req.start)].id)
             /\ \A j \in 0 .. k - 1 : WalkPos(s, req, j) \in 1 .. Len(s)
             /\ AheadOf(s, req, x) = {s[WalkPos(s, req, j)].id : j \in 0 .. k - 1}
             /\ Cardinality(AheadOf(s, req, x)) = k
<1> DEFINE n == Len(s)
           p == StartPos(s, req.start)
           At(j) == WalkPos(s, req, j)
           x == s[At(k)].id
           from == s[p].id
<1>1. /\ n \in Nat /\ \A i \in 1 .. n : s[i].id \in Nat
      /\ \A i, j \in 1 .. n : i < j => s[i].id < s[j].id
  BY ListLength, ListElement, EntriesAssumption DEF StrictById
<1>2. req.start \in Nat /\ (req.dir = 1 \/ req.dir = -1)
  BY RequestsAssumption
<1>3. p \in 1 .. n
  BY <1>2, EntriesAssumption, StartPosProperties DEF HaveIds
<1>4. At(k) \in 1 .. n
  OBVIOUS
<1>5. \A j \in 0 .. n - 1 : At(j) = IF req.dir = 1 THEN p + j ELSE p - j
  BY <1>2, <1>3 DEF WalkPos
<1> HIDE DEF n, p, At
<1>6. \A j \in 0 .. k - 1 : j \in 0 .. n - 1
  BY <1>1 DEF n
<1>0. k \in 0 .. n - 1
  BY DEF n
<1>7. \A j \in 0 .. k - 1 : At(j) \in 1 .. n
  <2>1. CASE req.dir = 1
    BY <1>1, <1>3, <1>4, <1>5, <1>6, <1>0, <2>1
  <2>2. CASE req.dir = -1
    BY <1>1, <1>3, <1>4, <1>5, <1>6, <1>0, <2>2
  <2> QED BY <1>2, <2>1, <2>2
<1>8. \A i, j \in 1 .. n : IsBefore(req, s[i].id, s[j].id) <=> IF req.dir = 1 THEN i < j ELSE i > j
  <2> SUFFICES ASSUME NEW i \in 1 .. n, NEW j \in 1 .. n
               PROVE  IsBefore(req, s[i].id, s[j].id) <=> IF req.dir = 1 THEN i < j ELSE i > j
    OBVIOUS
  <2>1. (s[i].id < s[j].id <=> i < j) /\ (s[i].id > s[j].id <=> i > j)
    BY <1>1
  <2> QED BY <2>1 DEF IsBefore
<1>9. ~IsBefore(req, x, from)
  BY <1>2, <1>3, <1>4, <1>5, <1>0, <1>8
<1>10. \A i \in 1 .. n : IsBefore(req, s[i].id, x) /\ ~IsBefore(req, s[i].id, from)
                         <=> \E j \in 0 .. k - 1 : i = At(j)
  <2> SUFFICES ASSUME NEW i \in 1 .. n
               PROVE  IsBefore(req, s[i].id, x) /\ ~IsBefore(req, s[i].id, from)
                      <=> \E j \in 0 .. k - 1 : i = At(j)
    OBVIOUS
  <2>1. CASE req.dir = 1
    <3>1. IsBefore(req, s[i].id, x) /\ ~IsBefore(req, s[i].id, from) <=> i < p + k /\ i >= p
      BY <1>1, <1>3, <1>4, <1>5, <1>0, <1>8, <2>1
    <3>2. ASSUME i < p + k, i >= p PROVE \E j \in 0 .. k - 1 : i = At(j)
      <4>1. i - p \in 0 .. k - 1 /\ i = p + (i - p)
        BY <1>3, <3>2
      <4>2. At(i - p) = p + (i - p)
        BY <1>5, <1>6, <2>1, <4>1
      <4> QED BY <4>1, <4>2
    <3>3. ASSUME NEW j \in 0 .. k - 1, i = At(j) PROVE i < p + k /\ i >= p
      BY <1>3, <1>5, <1>6, <2>1, <3>3
    <3> QED BY <3>1, <3>2, <3>3
  <2>2. CASE req.dir = -1
    <3>1. IsBefore(req, s[i].id, x) /\ ~IsBefore(req, s[i].id, from) <=> i > p - k /\ i <= p
      BY <1>1, <1>3, <1>4, <1>5, <1>0, <1>8, <2>2
    <3>2. ASSUME i > p - k, i <= p PROVE \E j \in 0 .. k - 1 : i = At(j)
      <4>1. p - i \in 0 .. k - 1 /\ i = p - (p - i)
        BY <1>3, <3>2
      <4>2. At(p - i) = p - (p - i)
        BY <1>5, <1>6, <2>2, <4>1
      <4> QED BY <4>1, <4>2
    <3>3. ASSUME NEW j \in 0 .. k - 1, i = At(j) PROVE i > p - k /\ i <= p
      BY <1>3, <1>5, <1>6, <2>2, <3>3
    <3> QED BY <3>1, <3>2, <3>3
  <2> QED BY <1>2, <2>1, <2>2
<1> DEFINE T == {s[At(j)].id : j \in 0 .. k - 1}
<1>11. Ids(s) = {s[i].id : i \in 1 .. n}
  BY DEF Ids, n
<1>12. AheadOf(s, req, x) = T
  <2>1. AheadOf(s, req, x) = {y \in Ids(s) : IsBefore(req, y, x) /\ ~IsBefore(req, y, from)}
    BY Zenon DEF AheadOf, p
  <2> HIDE DEF x, from
  <2>2. ASSUME NEW y \in AheadOf(s, req, x) PROVE y \in T
    <3>1. PICK i \in 1 .. n : y = s[i].id
      BY <1>11, <2>1
    <3>2. PICK j \in 0 .. k - 1 : i = At(j)
      BY <1>10, <2>1, <3>1
    <3> QED BY <3>1, <3>2
  <2>3. ASSUME NEW j \in 0 .. k - 1 PROVE s[At(j)].id \in AheadOf(s, req, x)
    <3>1. At(j) \in 1 .. n
      BY <1>7
    <3> QED BY <1>10, <1>11, <2>1, <3>1
  <2> QED BY <2>2, <2>3
<1>13. Cardinality(T) = k
  <2> DEFINE f == [j \in 0 .. k - 1 |-> s[At(j)].id]
  <2>1. f \in Surjection(0 .. k - 1, T)
    BY DEF Surjection
  <2>2. \A i, j \in 0 .. k - 1 : At(i) = At(j) => i = j
    BY <1>2, <1>3, <1>5, <1>6
  <2>3. \A i, j \in 1 .. n : s[i].id = s[j].id => i = j
    BY <1>1
  <2>4. \A i, j \in 0 .. k - 1 : s[At(i)].id = s[At(j)].id => i = j
    BY <1>7, <2>2, <2>3
  <2>5. f \in Injection(0 .. k - 1, T)
    BY <2>4 DEF Injection, IsInjective
  <2>6. IsFiniteSet(0 .. k - 1) /\ Cardinality(0 .. k - 1) = k
    <3> DEFINE b == k - 1
    <3>1. 0 \in Int /\ b \in Int /\ 0 <= b + 1 /\ b - 0 + 1 = k
      BY <1>0
    <3> HIDE DEF b
    <3>2. IsFiniteSet(0 .. b) /\ Cardinality(0 .. b) = b - 0 + 1
      BY <3>1, IntervalSize, Zenon
    <3> QED BY <3>1, <3>2, Zenon DEF b
  <2> HIDE DEF f, T
  <2> QED BY <2>1, <2>5, <2>6, FS_Surjection
<1>14. x \in Ids(s)
  BY <1>4, <1>11
<1> HIDE DEF x, from, T
<1>15. Cardinality(AheadOf(s, req, x)) = k
  BY <1>12, <1>13
<1> QED BY <1>7, <1>9, <1>12, <1>14, <1>15 DEF x, from, n, p, At, T

(* extract takes, in order, the first req.count ids on the requested side  *)
(* of the closest one, up to and including the first that reaches EndID:   *)
(* for every list without equal ids and every request.                     *)
THEOREM AlwaysExtractsRun == Spec => []ExtractTakesRun
<1>1. IInv => ExtractTakesRun
  <2>1. ASSUME IInv, NEW req \in Requests, DistinctIds, items # <<>>
        PROVE  /\ Ids(Extract(items, req)) = Wanted(items, req)
               /\ \A i, j \in 1 .. Len(Extract(items, req)) :
                    i < j => Extract(items, req)[i].id < Extract(items, req)[j].id
    <3> DEFINE s == items
               n == Len(s)
               p == StartPos(s, req.start)
               At(j) == WalkPos(s, req, j)
               res == Extract(s, req)
    <3>1. s \in Seq(Entries) /\ SortedById(s) /\ HaveIds(Entries) /\ IsRequest(req)
      BY <2>1, EntriesAssumption, RequestsAssumption DEF IInv, TypeOK, HaveIds, IsRequest
    <3>2. n \in Nat /\ n > 0 /\ req.end \in Nat /\ req.count \in Int /\ (req.dir = 1 \/ req.dir = -1)
      BY <2>1, <3>1, NoEntries, ListLength DEF IsRequest
    <3>3. StrictById(s)
      BY <2>1, <3>1, DistinctIsStrict DEF DistinctIds
    <3>4. /\ \A i \in 1 .. n : s[i].id \in Nat
          /\ \A i, j \in 1 .. n : i < j => s[i].id < s[j].id
      BY <3>1, <3>3, ListElement DEF HaveIds, StrictById
    <3>5. res \in Seq(Entries) /\ StrictById(res) /\ Elements(res) = {s[At(k)] : k \in Walk(s, req)}
      BY <3>1, <3>3, ExtractProperties
    <3>6. p \in 1 .. n
      BY <3>1, <3>2, StartPosProperties DEF IsRequest
    <3>7. \A j \in 0 .. n - 1 : At(j) = IF req.dir = 1 THEN p + j ELSE p - j
      BY <3>2, <3>6 DEF WalkPos
    <3>8. Ids(res) = {s[At(k)].id : k \in Walk(s, req)}
      <4> HIDE DEF At, s
      <4>1. Ids(res) = {x.id : x \in Elements(res)}
        BY DEF Ids, Elements
      <4> HIDE DEF res
      <4> QED BY <3>5, <4>1
    <3>9. ASSUME NEW k \in 0 .. n - 1, At(k) \in 1 .. n
          PROVE  s[At(k)].id \in Wanted(s, req) <=> k \in Walk(s, req)
      <4> DEFINE x == s[At(k)].id
      <4>1. /\ x \in Ids(s)
            /\ ~IsBefore(req, x, s[p].id)
            /\ \A j \in 0 .. k - 1 : At(j) \in 1 .. n
            /\ AheadOf(s, req, x) = {s[At(j)].id : j \in 0 .. k - 1}
            /\ Cardinality(AheadOf(s, req, x)) = k
        BY <3>1, <3>2, <3>3, <3>9, AheadIsWalked
      <4> HIDE DEF x, At, s
      <4>2. x \in Wanted(s, req) <=>
              k < req.count /\ (req.end > 0 => \A y \in AheadOf(s, req, x) : y < req.end)
        <5> HIDE DEF n
        <5>1. s[StartPos(s, req.start)].id = s[p].id
          OBVIOUS
        <5> QED BY <4>1, <5>1 DEF Wanted
      <4>3. (req.end > 0 => \A y \in AheadOf(s, req, x) : y < req.end)
            <=> \A j \in 0 .. k - 1 : ~ReachesEnd(s, At(j), req)
        <5>1. \A j \in 0 .. k - 1 : ~ReachesEnd(s, At(j), req) <=> (req.end > 0 => s[At(j)].id < req.end)
          BY <3>2, <3>4, <4>1 DEF ReachesEnd
        <5> QED BY <4>1, <5>1
      <4>4. k \in Walk(s, req) <=> k < req.count /\ \A j \in 0 .. k - 1 : ~ReachesEnd(s, At(j), req)
        BY <3>9 DEF Walk, At
      <4> QED BY <4>2, <4>3, <4>4 DEF x, At
    <3>10. ASSUME NEW x \in Ids(s), ~IsBefore(req, x, s[p].id)
           PROVE  \E k \in 0 .. n - 1 : At(k) \in 1 .. n /\ x = s[At(k)].id
      <4>1. PICK i \in 1 .. n : x = s[i].id
        BY DEF Ids
      <4>2. CASE req.dir = 1
        <5>1. i >= p
          BY <3>4, <3>6, <3>10, <4>1, <4>2 DEF IsBefore
        <5>2. i - p \in 0 .. n - 1 /\ p + (i - p) = i
          BY <3>2, <3>6, <5>1
        <5>3. At(i - p) = i
          <6> HIDE DEF At, p, n
          <6> QED BY <3>7, <4>2, <5>2
        <5> HIDE DEF At, p, n
        <5> QED BY <4>1, <5>2, <5>3
      <4>3. CASE req.dir = -1
        <5>1. i <= p
          BY <3>4, <3>6, <3>10, <4>1, <4>3 DEF IsBefore
        <5>2. p - i \in 0 .. n - 1 /\ p - (p - i) = i
          BY <3>2, <3>6, <5>1
        <5>3. At(p - i) = i
          <6> HIDE DEF At, p, n
          <6> QED BY <3>7, <4>3, <5>2
        <5> HIDE DEF At, p, n
        <5> QED BY <4>1, <5>2, <5>3
      <4> QED BY <3>2, <4>2, <4>3
    <3>11. ASSUME NEW x \in Wanted(s, req) PROVE x \in Ids(res)
      <4>1. x \in Ids(s) /\ ~IsBefore(req, x, s[p].id)
        BY DEF Wanted
      <4> HIDE DEF At, s, n, p, res
      <4>2. PICK k \in 0 .. n - 1 : At(k) \in 1 .. n /\ x = s[At(k)].id
        BY <3>10, <4>1
      <4> QED BY <3>8, <3>9, <4>2
    <3>12. ASSUME NEW k \in Walk(s, req) PROVE s[At(k)].id \in Wanted(s, req)
      <4>1. k \in 0 .. n - 1 /\ At(k) \in 1 .. n
        BY DEF Walk
      <4> HIDE DEF At, s, n
      <4> QED BY <3>9, <4>1
    <3>13. Ids(res) = Wanted(s, req)
      <4> HIDE DEF At, s, n, p, res
      <4> QED BY <3>8, <3>11, <3>12
    <3> QED BY <3>5, <3>13 DEF StrictById
  <2> SUFFICES ASSUME IInv PROVE ExtractTakesRun
    OBVIOUS
  <2>2. \A req \in Requests : DistinctIds /\ items # <<>> =>
          /\ Ids(Extract(items, req)) = Wanted(items, req)
          /\ \A i, j \in 1 .. Len(Extract(items, req)) :
               i < j => Extract(items, req)[i].id < Extract(items, req)[j].id
    BY <2>1
  <2> QED BY <2>2, Zenon DEF ExtractTakesRun, Wanted, AheadOf, IsBefore
<1> QED BY <1>1, ListInv, PTL
=============================================================================
