------------------------------ MODULE IndexList ------------------------------
(***************************************************************************)
(* The sorted list of index entries (indexList in                          *)
(* server/store/filestore/index_list.go) as a state machine: any sequence  *)
(* of inserts and clears, with every search and extract asked of the       *)
(* result. Its algorithms are in module IndexListOps.                      *)
(***************************************************************************)
EXTENDS IndexListOps

CONSTANTS
  Entries,   \* index entries
  Requests,  \* fetch requests asked of the list
  MaxLen     \* bound of the model: longest list

ASSUME EntriesAssumption == \A e \in Entries : e.id \in Nat

ASSUME RequestsAssumption ==
  \A r \in Requests : r.start \in Nat /\ r.end \in Nat /\ r.count \in Int /\ r.dir \in {1, -1}

VARIABLES
  items,     \* l.items
  inserted   \* history: how often each entry was inserted since the last clear

vars == <<items, inserted>>
-----------------------------------------------------------------------------
(* The list *)

TypeOK ==
  /\ items \in Seq(Entries)
  /\ inserted \in [Entries -> Nat]

Init == items = <<>> /\ inserted = [e \in Entries |-> 0]

Insert(e) ==
  /\ Len(items) < MaxLen
  /\ items' = InsertElem(items, e)
  /\ inserted' = [inserted EXCEPT ![e] = @ + 1]

Clear ==
  /\ items' = <<>>
  /\ inserted' = [e \in Entries |-> 0]

Next == Clear \/ \E e \in Entries : Insert(e)

Spec == Init /\ [][Next]_vars
-----------------------------------------------------------------------------
(* Properties *)

(* Whatever the order of the inserts, the list is sorted by id. *)
Sorted ==
  \A i, j \in 1 .. Len(items) : i < j => items[i].id <= items[j].id

Ids(s) == {s[i].id : i \in 1 .. Len(s)}
Inserted == {e.id : e \in {x \in Entries : inserted[x] > 0}}

(* search finds an id if and only if it was inserted since the last clear, *)
(* whatever the order and the number of the inserts; if not, bestIndex is  *)
(* a closest entry, although the search looks at few of them.              *)
SearchFindsClosest ==
  \A req \in Requests :
    LET r == Search(items, req.start) IN
    /\ r.found <=> req.start \in Inserted
    /\ r.found => items[r.pos].id = req.start
    /\ ~r.found /\ items # <<>> =>
         \A id \in Inserted : Distance(items[r.best].id, req.start)
                                 <= Distance(id, req.start)

DistinctIds == Cardinality(Ids(items)) = Len(items)

(* On a list with distinct ids, extract returns, in order, the first       *)
(* req.count ids on the requested side of the closest one, up to and       *)
(* including the first one that reaches EndID.                             *)
ExtractTakesRun ==
  \A req \in Requests : DistinctIds /\ items # <<>> =>
    LET from   == items[StartPos(items, req.start)].id
        Before(x, y) == IF req.dir = 1 THEN x < y ELSE x > y
        Ahead(x) == {y \in Ids(items) : Before(y, x) /\ ~Before(y, from)}
        wanted == {x \in Ids(items) :
                     /\ ~Before(x, from)
                     /\ Cardinality(Ahead(x)) < req.count
                     /\ req.end > 0 => \A y \in Ahead(x) : y < req.end}
        result == Extract(items, req)
    IN  /\ Ids(result) = wanted
        /\ \A i, j \in 1 .. Len(result) : i < j => result[i].id < result[j].id
=============================================================================
