--------------------------- MODULE IndexListFacts ---------------------------
(***************************************************************************)
(* What the algorithms of module IndexListOps compute, as propositions     *)
(* about lists of every length over every set E of entries whose ids are   *)
(* numbers, with the facts about numbers that the proofs over lists rest   *)
(* on.  Module IndexListOpsProofs proves all of them (ListFactsHold); the  *)
(* proofs about the partition take them as a hypothesis, which its         *)
(* theorems discharge.                                                     *)
(***************************************************************************)
EXTENDS IndexListOps, IndexLog

HaveIds(E) == \A e \in E : e.id \in Nat
SortedById(s) == \A i, j \in 1 .. Len(s) : i < j => s[i].id <= s[j].id
StrictById(s) == \A i, j \in 1 .. Len(s) : i < j => s[i].id < s[j].id
Elements(s) == {s[i] : i \in 1 .. Len(s)}

IsRequest(req) ==
  /\ req.start \in Nat /\ req.end \in Nat /\ req.count \in Int
  /\ req.dir \in {1, -1}

(* The k-th position extract looks at, and the k of those it takes. *)
WalkPos(s, req, k) == StartPos(s, req.start) + k * req.dir
Walk(s, req) ==
  {k \in 0 .. Len(s) - 1 :
     /\ k < req.count
     /\ WalkPos(s, req, k) \in 1 .. Len(s)
     /\ \A j \in 0 .. k - 1 : ~ReachesEnd(s, WalkPos(s, req, j), req)}

(* g is defined on 0..n by its first value and by a step from each value   *)
(* to the next.                                                            *)
IsRecursion(g, n, V, v0, Step) ==
  g \in [0 .. n -> V] /\ g[0] = v0 /\ \A k \in 1 .. n : g[k] = Step[k][g[k - 1]]

(* Of index files: the ids ascend, in a file and from file to file.        *)
Ascending(F) ==
  \A m, n \in 1 .. Len(F) : \A j \in 1 .. Len(F[m]), k \in 1 .. Len(F[n]) :
    m < n \/ (m = n /\ j < k) => F[m][j].id < F[n][k].id

(* All files before the last one have m entries, and the last one at most. *)
FullBefore(F, m) ==
  \A n \in 1 .. Len(F) : Len(F[n]) <= m /\ (n < Len(F) => Len(F[n]) = m)

(* The number of entries in such files. *)
Count(F, m) == IF F = <<>> THEN 0 ELSE (Len(F) - 1) * m + Len(F[Len(F)])
-----------------------------------------------------------------------------
(* InsertElem keeps a list sorted and adds the entry. *)
InsertElemFact ==
  \A E : HaveIds(E) => \A s \in Seq(E), e \in E : SortedById(s) =>
    /\ InsertElem(s, e) \in Seq(E)
    /\ Len(InsertElem(s, e)) = Len(s) + 1
    /\ SortedById(InsertElem(s, e))
    /\ Elements(InsertElem(s, e)) = Elements(s) \union {e}
    /\ StrictById(s) /\ (\A x \in Elements(s) : x.id # e.id) => StrictById(InsertElem(s, e))

(* An entry whose id is above all those of the list goes to its end. *)
InsertLastFact ==
  \A E : HaveIds(E) => \A s \in Seq(E), e \in E :
    (\A i \in 1 .. Len(s) : s[i].id < e.id) /\ SortedById(s) => InsertElem(s, e) = Append(s, e)

(* InsertAll sorts the entries of both lists together. *)
InsertAllFact ==
  \A E : HaveIds(E) => \A s, t \in Seq(E) : SortedById(s) =>
    /\ InsertAll(s, t) \in Seq(E)
    /\ SortedById(InsertAll(s, t))
    /\ Elements(InsertAll(s, t)) = Elements(s) \union Elements(t)

InsertAllIntoEmptyFact ==
  \A E : HaveIds(E) => \A t \in Seq(E) :
    /\ InsertAll(<<>>, t) \in Seq(E)
    /\ Len(InsertAll(<<>>, t)) = Len(t)
    /\ SortedById(InsertAll(<<>>, t))
    /\ Elements(InsertAll(<<>>, t)) = Elements(t)

(* Inserting a strictly sorted list into the empty one gives it back. *)
InsertSortedFact ==
  \A E : HaveIds(E) => \A t \in Seq(E) : StrictById(t) => InsertAll(<<>>, t) = t

(* extract takes exactly the entries it walks over. *)
ExtractFact ==
  \A E : HaveIds(E) => \A s \in Seq(E) : SortedById(s) => \A req : IsRequest(req) =>
    /\ Extract(s, req) \in Seq(E)
    /\ SortedById(Extract(s, req))
    /\ Elements(Extract(s, req)) \subseteq Elements(s)

InductionFact ==
  \A n \in Nat : \A S :
    0 \in S /\ (\A k \in 1 .. n : k - 1 \in S => k \in S) => \A k \in 0 .. n : k \in S

RecursionFact ==
  \A n \in Nat : \A V : \A v0 \in V : \A Step \in [1 .. n -> [V -> V]] :
    \E g : IsRecursion(g, n, V, v0, Step)

(* A set of numbers from 1 to n is finite and has at most n elements. *)
SubsetFact ==
  \A n \in Nat : \A T \in SUBSET (1 .. n) :
    IsFiniteSet(T) /\ Cardinality(T) \in Nat /\ Cardinality(T) <= n

(* An increasing sequence of length n has n elements. *)
CountFact ==
  \A s \in Seq(Nat) : (\A i, j \in 1 .. Len(s) : i < j => s[i] < s[j])
    => Cardinality({s[i] : i \in 1 .. Len(s)}) = Len(s)

(* One more file, without entries: the log is the same. *)
EmptyFileFact ==
  \A E : HaveIds(E) => \A F \in Seq(Seq(E)) : LogOf(Append(F, <<>>)) = LogOf(F)

(* One more entry in the last file: its id is the end of the log. *)
NewEntryFact ==
  \A E : HaveIds(E) => \A F, G \in Seq(Seq(E)), r \in E :
    /\ F # <<>> /\ Len(G) = Len(F) /\ \A k \in 1 .. Len(F) - 1 : F[k] = G[k]
    /\ G[Len(F)] = Append(F[Len(F)], r)
    => LogOf(G) = Append(LogOf(F), r.id)

(* The log of files that are full up to the last one and whose ids ascend. *)
LogFact ==
  \A E : HaveIds(E) => \A F \in Seq(Seq(E)), m \in Nat : Ascending(F) /\ FullBefore(F, m) =>
    /\ LogOf(F) \in Seq(Nat) /\ Len(LogOf(F)) = Count(F, m)
    /\ \A i \in 1 .. Len(LogOf(F)) : \E n \in 1 .. Len(F) : \E k \in 1 .. Len(F[n]) :
         LogOf(F)[i] = F[n][k].id
    /\ \A n \in 1 .. Len(F) : \A k \in 1 .. Len(F[n]) : \E i \in 1 .. Len(LogOf(F)) :
         LogOf(F)[i] = F[n][k].id
    /\ \A i, j \in 1 .. Len(LogOf(F)) : i < j => LogOf(F)[i] < LogOf(F)[j]

ListFacts ==
  /\ InsertElemFact /\ InsertLastFact /\ InsertAllFact /\ InsertAllIntoEmptyFact
  /\ InsertSortedFact /\ ExtractFact /\ InductionFact /\ RecursionFact
  /\ SubsetFact /\ CountFact /\ EmptyFileFact /\ NewEntryFact /\ LogFact
=============================================================================
