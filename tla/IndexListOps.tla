---------------------------- MODULE IndexListOps ----------------------------
(***************************************************************************)
(* The algorithms of the sorted list of index entries of the file store    *)
(* (server/store/filestore/index_list.go) as operators on sequences.       *)
(* Positions start at 1 here and at 0 in the code; "no position" is 0 here *)
(* and -1 there. An entry is a record with a field id; a fetch request is  *)
(* [start, end, dir, count] with dir 1 (forward) or -1 (backward).         *)
(* A definition that stands right before another one, with the same        *)
(* parameters and a name that extends its name, is a mutation: it is used  *)
(* only to show that a property notices the change.                        *)
(***************************************************************************)
EXTENDS Integers, Sequences, FiniteSets

(* insertElem: before the first larger entry; before an equal first entry, *)
(* after any other equal one.                                              *)

InsertPosBackwards(s, e) ==
  IF s = <<>> \/ s[1].id >= e.id THEN 1
  ELSE IF s[Len(s)].id <= e.id THEN Len(s) + 1
  ELSE CHOOSE i \in 1 .. Len(s) : s[i].id <= e.id /\ \A j \in i + 1 .. Len(s) : s[j].id > e.id

InsertPos(s, e) ==
  IF s = <<>> \/ s[1].id >= e.id THEN 1
  ELSE IF s[Len(s)].id <= e.id THEN Len(s) + 1
  ELSE CHOOSE i \in 2 .. Len(s) : s[i].id > e.id /\ \A j \in 2 .. i - 1 : s[j].id <= e.id

(* The tail is copied before it is appended, so nothing is overwritten. *)
Place(s, i, e) == SubSeq(s, 1, i - 1) \o <<e>> \o SubSeq(s, i, Len(s))

InsertElem(s, e) == Place(s, InsertPos(s, e), e)

(* search: the binary search, which also remembers the closest entry it    *)
(* looked at.                                                              *)
Distance(a, b) == IF a > b THEN a - b ELSE b - a

SearchRoundStrict(s, id, v) ==
  LET mid    == (v.h + v.f) \div 2
      closer == IF Distance(s[mid].id, id) <= Distance(s[v.best].id, id) THEN mid ELSE v.best
  IN  IF v.pos # 0 \/ v.f >= v.h THEN v
      ELSE IF s[mid].id = id THEN [f |-> v.f, h |-> v.h, best |-> v.best, pos |-> mid]
      ELSE IF s[mid].id < id THEN [f |-> mid + 1, h |-> v.h, best |-> closer, pos |-> 0]
      ELSE [f |-> v.f, h |-> mid - 1, best |-> closer, pos |-> 0]

\* One round of the loop on its variables; pos is 0 until the id is found.
SearchRound(s, id, v) ==
  LET mid    == (v.h + v.f) \div 2
      closer == IF Distance(s[mid].id, id) <= Distance(s[v.best].id, id) THEN mid ELSE v.best
  IN  IF v.pos # 0 \/ v.f > v.h THEN v
      ELSE IF s[mid].id = id THEN [f |-> v.f, h |-> v.h, best |-> v.best, pos |-> mid]
      ELSE IF s[mid].id < id THEN [f |-> mid + 1, h |-> v.h, best |-> closer, pos |-> 0]
      ELSE [f |-> v.f, h |-> mid - 1, best |-> closer, pos |-> 0]

\* Every round excludes an entry, so the loop has ended after Len(s) rounds.
Search(s, id) ==
  LET After[k \in 0 .. Len(s)] ==
        IF k = 0 THEN [f |-> 1, h |-> Len(s), best |-> 1, pos |-> 0]
        ELSE SearchRound(s, id, After[k - 1])
      v == After[Len(s)]
  IN  [found |-> v.pos # 0, pos |-> v.pos, best |-> IF s = <<>> THEN 0 ELSE v.best]

StartPos(s, id) ==
  LET r == Search(s, id) IN IF r.found THEN r.pos ELSE r.best

ListContains(s, id) ==
  /\ s # <<>>
  /\ id = 0 \/ (s[1].id <= id /\ id <= s[Len(s)].id)

InsertAll(s, t) ==
  LET Ins[k \in 0 .. Len(t)] == IF k = 0 THEN s ELSE InsertElem(Ins[k - 1], t[k])
  IN  Ins[Len(t)]

(* The entry after which extract stops because of EndID. *)
ReachesEndExclusive(s, p, req) == req.end > 0 /\ s[p].id > req.end
ReachesEnd(s, p, req) == req.end > 0 /\ s[p].id >= req.end

(* extract: walk from the closest entry in the direction of the request.   *)
Extract(s, req) ==
  LET At(k)   == StartPos(s, req.start) + k * req.dir
      Visited == {k \in 0 .. Len(s) - 1 :
                    /\ k < req.count
                    /\ At(k) \in 1 .. Len(s)
                    /\ \A j \in 0 .. k - 1 : ~ReachesEnd(s, At(j), req)}
  IN  InsertAll(<<>>, [k \in 1 .. Cardinality(Visited) |-> s[At(k - 1)]])
=============================================================================
