------------------------ MODULE IndexListOpsProofs -------------------------
(***************************************************************************)
(* Lemmas about the algorithms of module IndexListOps, for lists of every  *)
(* length over every set E of entries whose ids are numbers: among them    *)
(* the propositions of module IndexListFacts.                              *)
(***************************************************************************)
EXTENDS IndexListFacts, FiniteSetTheorems, WellFoundedInduction, TLAPS

-----------------------------------------------------------------------------
(* Sequences are functions on an initial interval of the numbers. *)
LEMMA ListLength ==
  ASSUME NEW S, NEW s \in Seq(S)
  PROVE  Len(s) \in Nat /\ s \in [1 .. Len(s) -> S] /\ DOMAIN s = 1 .. Len(s)
OBVIOUS

LEMMA ListElement == ASSUME NEW S, NEW s \in Seq(S), NEW k \in 1 .. Len(s) PROVE s[k] \in S
OBVIOUS

LEMMA NoEntries ==
  ASSUME NEW S
  PROVE  /\ <<>> \in Seq(S) /\ Len(<<>>) = 0
         /\ \A s \in Seq(S) : s # <<>> => Len(s) \in Nat \ {0}
OBVIOUS

LEMMA ListConcat ==
  ASSUME NEW S, NEW s \in Seq(S), NEW t \in Seq(S)
  PROVE  /\ s \o t \in Seq(S) /\ Len(s \o t) = Len(s) + Len(t)
         /\ \A i \in 1 .. Len(s) + Len(t) :
              (s \o t)[i] = IF i <= Len(s) THEN s[i] ELSE t[i - Len(s)]
OBVIOUS

LEMMA SameList ==
  ASSUME NEW S, NEW s \in Seq(S), NEW t \in Seq(S), Len(s) = Len(t),
         \A i \in 1 .. Len(s) : s[i] = t[i]
  PROVE  s = t
<1>1. s \in [1 .. Len(s) -> S] /\ t \in [1 .. Len(s) -> S]
  BY ListLength
<1> QED BY <1>1

-----------------------------------------------------------------------------
(* Induction and recursion over an interval *)

(* A non-empty set of numbers has a least element. *)
LEMMA LeastNumber ==
  ASSUME NEW T \in SUBSET Nat, T # {}
  PROVE  \E x \in T : \A y \in T : x <= y
<1>1. \E x \in T : \A y \in T : ~(<<y, x>> \in OpToRel(<, Nat))
  BY NatLessThanWellFounded, WFMin, Zenon
<1>2. PICK x \in T : \A y \in T : ~(<<y, x>> \in OpToRel(<, Nat))
  BY <1>1, Zenon
<1>3. \A y \in Nat : y < x => <<y, x>> \in OpToRel(<, Nat)
  <2> DEFINE R == {ss \in Nat \X Nat : ss[1] < ss[2]}
  <2>1. OpToRel(<, Nat) = R
    BY Zenon DEF OpToRel
  <2>2. \A y \in Nat : y < x => <<y, x>> \in R
    OBVIOUS
  <2> HIDE DEF R
  <2> QED BY <2>1, <2>2, Zenon
<1>4. \A y \in T : ~(y < x)
  BY <1>2, <1>3, Zenon
<1> QED BY <1>4

(* Induction over the numbers up to n. *)
LEMMA IntervalInduction ==
  ASSUME NEW n \in Nat, NEW S, 0 \in S, \A k \in 1 .. n : k - 1 \in S => k \in S
  PROVE  \A k \in 0 .. n : k \in S
<1> SUFFICES ASSUME NEW k \in 0 .. n, k \notin S PROVE FALSE
  OBVIOUS
<1> DEFINE T == {i \in 0 .. n : i \notin S}
<1>1. T \in SUBSET Nat /\ T # {}
  OBVIOUS
<1>2. PICK x \in T : \A y \in T : x <= y
  <2> HIDE DEF T
  <2> QED BY <1>1, LeastNumber
<1>3. x \in 1 .. n
  BY <1>2
<1>4. x - 1 \in 0 .. n /\ ~(x <= x - 1)
  BY <1>3
<1>5. x - 1 \notin T
  <2> HIDE DEF T
  <2> QED BY <1>2, <1>4
<1>6. x - 1 \in S
  BY <1>4, <1>5
<1> QED BY <1>2, <1>3, <1>6

(* There is such a function, whatever the first value and the steps.       *)
LEMMA RecursionExists ==
  ASSUME NEW n \in Nat, NEW V, NEW v0 \in V, NEW Step \in [1 .. n -> [V -> V]]
  PROVE  \E g : IsRecursion(g, n, V, v0, Step)
<1> DEFINE Rec(g, m) == /\ g \in [0 .. m -> V]
                        /\ g[0] = v0
                        /\ \A k \in 1 .. m : g[k] = Step[k][g[k - 1]]
           S == {m \in 0 .. n : \E g : Rec(g, m)}
<1>1. 0 \in S
  <2> DEFINE g == [k \in 0 .. 0 |-> v0]
  <2>1. Rec(g, 0)
    OBVIOUS
  <2> HIDE DEF Rec
  <2> QED BY <2>1
<1>2. ASSUME NEW k \in 1 .. n, k - 1 \in S PROVE k \in S
  <2>1. PICK g : Rec(g, k - 1)
    BY <1>2
  <2> DEFINE d == [i \in 0 .. k |-> IF i = k THEN Step[k][g[k - 1]] ELSE g[i]]
  <2>2. g[k - 1] \in V
    BY <2>1
  <2>3. Step[k][g[k - 1]] \in V
    BY <2>2
  <2>4. \A i \in 0 .. k : i # k => i \in 0 .. k - 1
    OBVIOUS
  <2>5. d \in [0 .. k -> V]
    BY <2>1, <2>3, <2>4
  <2>6. d[0] = v0
    BY <2>1
  <2>7. ASSUME NEW i \in 1 .. k PROVE d[i] = Step[i][d[i - 1]]
    <3>1. d[i - 1] = g[i - 1]
      BY <2>7
    <3>2. CASE i = k
      BY <3>1, <3>2
    <3>3. CASE i # k
      <4>1. i \in 1 .. k - 1 /\ d[i] = g[i]
        BY <3>3
      <4> QED BY <2>1, <3>1, <4>1
    <3> QED BY <3>2, <3>3
  <2>8. Rec(d, k)
    <3> HIDE DEF d
    <3> QED BY <2>5, <2>6, <2>7
  <2> HIDE DEF Rec, d
  <2> QED BY <2>8
<1>3. n \in S
  <2> HIDE DEF S
  <2>1. \A k \in 1 .. n : k - 1 \in S => k \in S
    BY <1>2
  <2>2. \A k \in 0 .. n : k \in S
    BY <1>1, <2>1, IntervalInduction, Zenon
  <2> QED BY <2>2
<1>4. PICK g : Rec(g, n)
  BY <1>3
<1> QED BY <1>4 DEF IsRecursion
-----------------------------------------------------------------------------
(* insertElem *)

(* The position found by insertElem is in range, entries before it are not *)
(* larger and entries from it on are not smaller than the new one.         *)
LEMMA InsertPosProperties ==
  ASSUME NEW E, HaveIds(E), NEW s \in Seq(E), NEW e \in E, SortedById(s)
  PROVE  /\ InsertPos(s, e) \in 1 .. Len(s) + 1
         /\ \A j \in 1 .. Len(s) : j < InsertPos(s, e) => s[j].id <= e.id
         /\ \A j \in 1 .. Len(s) : j >= InsertPos(s, e) => s[j].id >= e.id
<1> DEFINE n == Len(s)
           p == InsertPos(s, e)
<1>1. /\ n \in Nat /\ e.id \in Nat
      /\ \A j \in 1 .. n : s[j] \in E /\ s[j].id \in Nat
      /\ \A i, j \in 1 .. n : i < j => s[i].id <= s[j].id
  BY ListLength, ListElement DEF HaveIds, SortedById
<1>2. CASE s = <<>>
  <2>1. n = 0 /\ p = 1
    BY <1>2 DEF InsertPos
  <2> QED BY <2>1
<1>3. CASE s # <<>> /\ s[1].id >= e.id
  <2>1. p = 1 /\ n >= 1
    BY <1>1, <1>3, NoEntries DEF InsertPos
  <2>2. \A j \in 1 .. n : s[j].id >= e.id
    BY <1>1, <1>3, <2>1
  <2> QED BY <1>1, <2>1, <2>2
<1>4. CASE s # <<>> /\ s[1].id < e.id /\ s[n].id <= e.id
  <2>1. p = n + 1 /\ n >= 1
    BY <1>1, <1>4, NoEntries DEF InsertPos
  <2>2. \A j \in 1 .. n : s[j].id <= e.id
    BY <1>1, <1>4, <2>1
  <2> QED BY <1>1, <2>1, <2>2
<1>5. CASE s # <<>> /\ s[1].id < e.id /\ s[n].id > e.id
  <2> DEFINE T == {i \in 2 .. n : s[i].id > e.id}
             P(i) == s[i].id > e.id /\ \A j \in 2 .. i - 1 : s[j].id <= e.id
  <2>1. n >= 2
    BY <1>1, <1>5, NoEntries
  <2>2. T \in SUBSET Nat /\ T # {}
    BY <1>1, <1>5, <2>1
  <2>3. PICK x \in T : \A y \in T : x <= y
    <3> HIDE DEF T
    <3> QED BY <2>2, LeastNumber
  <2>4. x \in 2 .. n /\ P(x)
    BY <1>1, <2>3
  <2>5. p = CHOOSE i \in 2 .. n : P(i)
    <3>1. ~(s = <<>> \/ s[1].id >= e.id) /\ ~(s[Len(s)].id <= e.id)
      BY <1>1, <1>5
    <3> QED BY <3>1, Zenon DEF InsertPos
  <2>6. p \in 2 .. n /\ P(p)
    <3> HIDE DEF P, p
    <3> QED BY <2>4, <2>5
  <2> HIDE DEF p
  <2>7. \A j \in 1 .. n : j < p => s[j].id <= e.id
    BY <1>1, <1>5, <2>6
  <2>8. \A j \in 1 .. n : j >= p => s[j].id >= e.id
    BY <1>1, <2>6
  <2> QED BY <1>1, <2>6, <2>7, <2>8 DEF p
<1> QED BY <1>1, <1>2, <1>3, <1>4, <1>5, NoEntries

(* Place puts the entry at its position and moves the ones behind it up. *)
LEMMA PlaceProperties ==
  ASSUME NEW E, HaveIds(E), NEW s \in Seq(E), NEW e \in E, NEW p \in 1 .. Len(s) + 1
  PROVE  /\ Place(s, p, e) \in Seq(E)
         /\ Len(Place(s, p, e)) = Len(s) + 1
         /\ \A j \in 1 .. Len(s) + 1 :
              Place(s, p, e)[j] = IF j < p THEN s[j] ELSE IF j = p THEN e ELSE s[j - 1]
<1> DEFINE n == Len(s)
           a == SubSeq(s, 1, p - 1)
           b == SubSeq(s, p, n)
           c == a \o <<e>>
<1>1. n \in Nat /\ p \in Nat /\ p >= 1 /\ p <= n + 1
  BY ListLength
<1>2. a \in Seq(E) /\ Len(a) = p - 1 /\ \A j \in 1 .. p - 1 : a[j] = s[j]
  BY <1>1
<1>3. b \in Seq(E) /\ Len(b) = n - p + 1 /\ \A j \in 1 .. n - p + 1 : b[j] = s[p + j - 1]
  BY <1>1
<1> HIDE DEF a, b
<1>4. /\ c \in Seq(E) /\ Len(c) = p
      /\ \A j \in 1 .. p : c[j] = IF j < p THEN s[j] ELSE e
  BY <1>1, <1>2
<1> HIDE DEF c
<1> DEFINE d == c \o b
<1>5. /\ d \in Seq(E) /\ Len(d) = n + 1
      /\ \A j \in 1 .. n + 1 : d[j] = IF j <= p THEN c[j] ELSE b[j - p]
  <2>1. /\ d \in Seq(E) /\ Len(d) = Len(c) + Len(b)
        /\ \A j \in 1 .. Len(c) + Len(b) :
             d[j] = IF j <= Len(c) THEN c[j] ELSE b[j - Len(c)]
    BY <1>3, <1>4, ListConcat
  <2>2. Len(c) + Len(b) = n + 1 /\ Len(c) = p
    BY <1>1, <1>3, <1>4
  <2> HIDE DEF d, n
  <2> QED BY <2>1, <2>2
<1> HIDE DEF d
<1>6. ASSUME NEW j \in 1 .. n + 1
      PROVE  d[j] = IF j < p THEN s[j] ELSE IF j = p THEN e ELSE s[j - 1]
  <2>1. CASE j <= p
    <3>1. d[j] = c[j] /\ j \in 1 .. p
      BY <1>1, <1>5, <2>1
    <3> QED BY <1>1, <1>4, <2>1, <3>1
  <2>2. CASE j > p
    <3>1. j - p \in 1 .. n - p + 1 /\ p + (j - p) - 1 = j - 1
      BY <1>1, <2>2
    <3>2. b[j - p] = s[j - 1]
      BY <1>3, <3>1
    <3>3. d[j] = b[j - p]
      BY <1>1, <1>5, <2>2
    <3> QED BY <1>1, <2>2, <3>2, <3>3
  <2> QED BY <1>1, <2>1, <2>2
<1>7. Place(s, p, e) = d
  BY DEF Place, a, b, c, d
<1> QED BY <1>5, <1>6, <1>7

(* insertElem keeps the list sorted and adds the entry, nothing else; a    *)
(* list without equal ids that gets a new one stays without.               *)
LEMMA InsertElemProperties ==
  ASSUME NEW E, HaveIds(E), NEW s \in Seq(E), NEW e \in E, SortedById(s)
  PROVE  /\ InsertElem(s, e) \in Seq(E)
         /\ Len(InsertElem(s, e)) = Len(s) + 1
         /\ SortedById(InsertElem(s, e))
         /\ Elements(InsertElem(s, e)) = Elements(s) \union {e}
         /\ StrictById(s) /\ (\A x \in Elements(s) : x.id # e.id) => StrictById(InsertElem(s, e))
<1> DEFINE n == Len(s)
           p == InsertPos(s, e)
           t == Place(s, p, e)
<1>1. /\ n \in Nat /\ e.id \in Nat
      /\ \A j \in 1 .. n : s[j] \in E /\ s[j].id \in Nat
      /\ \A i, j \in 1 .. n : i < j => s[i].id <= s[j].id
  BY ListLength, ListElement DEF HaveIds, SortedById
<1>2. /\ p \in 1 .. n + 1
      /\ \A j \in 1 .. n : j < p => s[j].id <= e.id
      /\ \A j \in 1 .. n : j >= p => s[j].id >= e.id
  BY InsertPosProperties
<1> HIDE DEF p
<1>3. /\ t \in Seq(E) /\ Len(t) = n + 1
      /\ \A j \in 1 .. n + 1 :
           t[j] = IF j < p THEN s[j] ELSE IF j = p THEN e ELSE s[j - 1]
  BY <1>2, PlaceProperties
<1> HIDE DEF t
<1>4. /\ \A j \in 1 .. n : j < p => j \in 1 .. n + 1 /\ t[j] = s[j]
      /\ \A j \in 1 .. n : j >= p => j + 1 \in 1 .. n + 1 /\ t[j + 1] = s[j]
      /\ t[p] = e
  <2>1. ASSUME NEW j \in 1 .. n, j >= p PROVE j + 1 \in 1 .. n + 1 /\ t[j + 1] = s[j]
    <3>1. j + 1 \in 1 .. n + 1 /\ ~(j + 1 < p) /\ j + 1 # p /\ (j + 1) - 1 = j
      BY <1>1, <1>2, <2>1
    <3> QED BY <1>3, <3>1
  <2>2. ASSUME NEW j \in 1 .. n, j < p PROVE j \in 1 .. n + 1 /\ t[j] = s[j]
    BY <1>1, <1>2, <1>3, <2>2
  <2>3. t[p] = e
    BY <1>2, <1>3
  <2> QED BY <2>1, <2>2, <2>3
<1>5. \A j \in 1 .. n + 1 : j = p \/ (j < p /\ j \in 1 .. n /\ t[j] = s[j])
                            \/ (j > p /\ j - 1 \in 1 .. n /\ t[j] = s[j - 1])
  <2> TAKE j \in 1 .. n + 1
  <2>1. CASE j < p
    BY <1>1, <1>2, <1>3, <2>1
  <2>2. CASE j > p
    BY <1>1, <1>2, <1>3, <2>2
  <2> QED BY <1>1, <1>2, <2>1, <2>2
<1>6. ASSUME NEW i \in 1 .. n + 1, NEW j \in 1 .. n + 1, i < j
      PROVE  /\ t[i].id <= t[j].id
             /\ StrictById(s) /\ (\A x \in Elements(s) : x.id # e.id) => t[i].id < t[j].id
  <2>0. StrictById(s) => \A k, l \in 1 .. n : k < l => s[k].id < s[l].id
    BY DEF StrictById
  <2>00. (\A x \in Elements(s) : x.id # e.id) => \A k \in 1 .. n : s[k].id # e.id
    BY DEF Elements
  <2>1. CASE j < p
    <3>1. t[i] = s[i] /\ t[j] = s[j] /\ i \in 1 .. n /\ j \in 1 .. n
      BY <1>1, <1>2, <1>5, <1>6, <2>1
    <3> QED BY <1>1, <1>6, <2>0, <3>1
  <2>2. CASE j = p
    <3>1. t[i] = s[i] /\ t[j] = e /\ i \in 1 .. n /\ s[i].id <= e.id
      BY <1>1, <1>2, <1>4, <1>5, <1>6, <2>2
    <3> QED BY <1>1, <2>00, <3>1
  <2>3. CASE j > p /\ i < p
    <3>1. t[i] = s[i] /\ t[j] = s[j - 1] /\ i \in 1 .. n /\ j - 1 \in 1 .. n
      BY <1>1, <1>2, <1>5, <2>3
    <3>2. s[i].id <= e.id /\ e.id <= s[j - 1].id
      BY <1>1, <1>2, <2>3, <3>1
    <3> QED BY <1>1, <2>00, <3>1, <3>2
  <2>4. CASE j > p /\ i = p
    <3>1. t[i] = e /\ t[j] = s[j - 1] /\ j - 1 \in 1 .. n /\ e.id <= s[j - 1].id
      BY <1>1, <1>2, <1>4, <1>5, <2>4
    <3> QED BY <1>1, <2>00, <3>1
  <2>5. CASE j > p /\ i > p
    <3>1. /\ t[i] = s[i - 1] /\ t[j] = s[j - 1]
          /\ i - 1 \in 1 .. n /\ j - 1 \in 1 .. n /\ i - 1 < j - 1
      BY <1>1, <1>2, <1>5, <1>6, <2>5
    <3> QED BY <1>1, <2>0, <3>1
  <2> QED BY <1>2, <2>1, <2>2, <2>3, <2>4, <2>5
<1>7. SortedById(t)
  BY <1>3, <1>6 DEF SortedById
<1>8. StrictById(s) /\ (\A x \in Elements(s) : x.id # e.id) => StrictById(t)
  <2> SUFFICES ASSUME StrictById(s), \A x \in Elements(s) : x.id # e.id PROVE StrictById(t)
    OBVIOUS
  <2> QED BY <1>3, <1>6 DEF StrictById
<1>9. Elements(t) = Elements(s) \union {e}
  <2>1. ASSUME NEW x \in Elements(t) PROVE x \in Elements(s) \union {e}
    <3>1. PICK j \in 1 .. n + 1 : x = t[j]
      BY <1>3 DEF Elements
    <3> QED BY <1>4, <1>5, <3>1, Zenon DEF Elements
  <2>2. ASSUME NEW x \in Elements(s) PROVE x \in Elements(t)
    <3>1. PICK j \in 1 .. n : x = s[j]
      BY DEF Elements
    <3>2. \E k \in 1 .. n + 1 : x = t[k]
      BY <1>1, <1>2, <1>4, <3>1
    <3> QED BY <1>3, <3>2 DEF Elements
  <2>3. e \in Elements(t)
    BY <1>2, <1>3, <1>4 DEF Elements
  <2> QED BY <2>1, <2>2, <2>3
<1> QED BY <1>3, <1>7, <1>8, <1>9 DEF InsertElem, t, p
-----------------------------------------------------------------------------
(* insert of several entries *)

(* The list after each of the inserts. *)
LEMMA InsertAllRuns ==
  ASSUME NEW E, HaveIds(E), NEW s \in Seq(E), NEW t \in Seq(E), SortedById(s)
  PROVE  \E g : /\ g[0] = s
                /\ \A k \in 1 .. Len(t) : g[k] = InsertElem(g[k - 1], t[k])
                /\ \A k \in 0 .. Len(t) : g[k] \in Seq(E) /\ SortedById(g[k])
                /\ InsertAll(s, t) = g[Len(t)]
<1> DEFINE n == Len(t)
           V == {x \in Seq(E) : SortedById(x)}
           Step == [k \in 1 .. n |-> [x \in V |-> InsertElem(x, t[k])]]
           IsRun(g) == g = [k \in 0 .. n |-> IF k = 0 THEN s ELSE InsertElem(g[k - 1], t[k])]
<1>0. \A x \in Seq(E) : \A y \in E : SortedById(x) =>
        /\ InsertElem(x, y) \in Seq(E)
        /\ Len(InsertElem(x, y)) = Len(x) + 1
        /\ SortedById(InsertElem(x, y))
        /\ Elements(InsertElem(x, y)) = Elements(x) \union {y}
        /\ StrictById(x) /\ (\A z \in Elements(x) : z.id # y.id) => StrictById(InsertElem(x, y))
  BY InsertElemProperties, Zenon
<1>1. n \in Nat /\ s \in V /\ \A k \in 1 .. n : t[k] \in E
  BY ListLength, ListElement
<1>2. Step \in [1 .. n -> [V -> V]]
  <2>1. \A k \in 1 .. n : \A x \in V : InsertElem(x, t[k]) \in V
    BY <1>1, <1>0, Zenon
  <2> HIDE DEF V
  <2> QED BY <2>1
<1>3. \E g : IsRecursion(g, n, V, s, Step)
  <2>1. n \in Nat
    BY <1>1
  <2>2. s \in V
    BY <1>1
  <2> HIDE DEF V, Step, n, IsRun
  <2> QED BY <1>2, <2>1, <2>2, RecursionExists, Zenon
<1>4. PICK h \in [0 .. n -> V] : h[0] = s /\ \A k \in 1 .. n : h[k] = Step[k][h[k - 1]]
  <2> HIDE DEF V, Step, n
  <2> QED BY <1>3, Zenon DEF IsRecursion
<1>5. IsRun(h)
  <2>1. ASSUME NEW k \in 1 .. n PROVE h[k] = InsertElem(h[k - 1], t[k])
    <3>1. h[k - 1] \in V
      <4>1. k - 1 \in 0 .. n
        BY <1>1
      <4> HIDE DEF V, n
      <4> QED BY <4>1
    <3> HIDE DEF V
    <3> QED BY <1>4, <3>1
  <2>2. \A k \in 0 .. n : h[k] = IF k = 0 THEN s ELSE InsertElem(h[k - 1], t[k])
    BY <1>1, <1>4, <2>1
  <2> HIDE DEF Step, V
  <2> QED BY <2>2
<1> DEFINE g == CHOOSE f : IsRun(f)
<1>6. IsRun(g)
  <2> HIDE DEF IsRun
  <2> QED BY <1>5
<1>7. InsertAll(s, t) = g[n]
  BY Zenon DEF InsertAll
<1> HIDE DEF g
<1>8. g[0] = s /\ \A k \in 1 .. n : g[k] = InsertElem(g[k - 1], t[k])
  <2> HIDE DEF V
  <2>1. \A k \in 0 .. n : g[k] = IF k = 0 THEN s ELSE InsertElem(g[k - 1], t[k])
    <3> HIDE DEF n
    <3> QED BY <1>6, Zenon
  <2>2. 0 \in 0 .. n /\ \A k \in 1 .. n : k \in 0 .. n /\ k # 0
    BY <1>1
  <2> HIDE DEF n, IsRun
  <2> QED BY <2>1, <2>2
<1>9. \A k \in 0 .. n : g[k] \in V
  <2> DEFINE S == {k \in 0 .. n : g[k] \in V}
  <2>1. 0 \in S
    BY <1>1, <1>8
  <2>2. ASSUME NEW k \in 1 .. n, k - 1 \in S PROVE k \in S
    <3>1. g[k] = InsertElem(g[k - 1], t[k]) /\ t[k] \in E
      BY <1>1, <1>8
    <3>2. InsertElem(g[k - 1], t[k]) \in V
      BY <2>2, <3>1, <1>0, Zenon
    <3> QED BY <1>1, <3>1, <3>2
  <2>3. \A k \in 0 .. n : k \in S
    <3>1. \A k \in 1 .. n : k - 1 \in S => k \in S
      BY <2>2
    <3> HIDE DEF S
    <3> QED BY <1>1, <2>1, <3>1, IntervalInduction, Zenon
  <2> QED BY <2>3
<1> HIDE DEF n
<1> QED BY <1>7, <1>8, <1>9 DEF n

(* insert of several entries keeps the list sorted and adds them, nothing  *)
(* else; new and different ids give a list without equal ids.              *)
LEMMA InsertAllProperties ==
  ASSUME NEW E, HaveIds(E), NEW s \in Seq(E), NEW t \in Seq(E), SortedById(s)
  PROVE  /\ InsertAll(s, t) \in Seq(E)
         /\ Len(InsertAll(s, t)) = Len(s) + Len(t)
         /\ SortedById(InsertAll(s, t))
         /\ Elements(InsertAll(s, t)) = Elements(s) \union Elements(t)
         /\ (/\ StrictById(s)
             /\ \A x \in Elements(s) : \A y \in Elements(t) : x.id # y.id
             /\ \A i, j \in 1 .. Len(t) : t[i].id = t[j].id => i = j)
            => StrictById(InsertAll(s, t))
<1> DEFINE n == Len(t)
<1>0. \A x \in Seq(E) : \A y \in E : SortedById(x) =>
        /\ InsertElem(x, y) \in Seq(E)
        /\ Len(InsertElem(x, y)) = Len(x) + 1
        /\ SortedById(InsertElem(x, y))
        /\ Elements(InsertElem(x, y)) = Elements(x) \union {y}
        /\ StrictById(x) /\ (\A z \in Elements(x) : z.id # y.id) => StrictById(InsertElem(x, y))
  BY InsertElemProperties, Zenon
<1>1. n \in Nat /\ Len(s) \in Nat /\ \A k \in 1 .. n : t[k] \in E
  BY ListLength, ListElement
<1>2. PICK g : /\ g[0] = s
               /\ \A k \in 1 .. n : g[k] = InsertElem(g[k - 1], t[k])
               /\ \A k \in 0 .. n : g[k] \in Seq(E) /\ SortedById(g[k])
               /\ InsertAll(s, t) = g[n]
  BY InsertAllRuns, SMTT(30)
<1> DEFINE First(k) == {t[j] : j \in 1 .. k}
           New == /\ StrictById(s)
                  /\ \A x \in Elements(s) : \A y \in Elements(t) : x.id # y.id
                  /\ \A i, j \in 1 .. n : t[i].id = t[j].id => i = j
           S == {k \in 0 .. n : /\ Len(g[k]) = Len(s) + k
                                /\ Elements(g[k]) = Elements(s) \union First(k)
                                /\ New => StrictById(g[k])}
<1>3. 0 \in S
  <2>1. First(0) = {}
    OBVIOUS
  <2> HIDE DEF First
  <2> QED BY <1>1, <1>2, <2>1
<1>4. ASSUME NEW k \in 1 .. n, k - 1 \in S PROVE k \in S
  <2>1. /\ g[k] = InsertElem(g[k - 1], t[k])
        /\ t[k] \in E /\ g[k - 1] \in Seq(E) /\ SortedById(g[k - 1]) /\ k - 1 \in 0 .. n
    BY <1>1, <1>2
  <2>2. First(k) = First(k - 1) \union {t[k]}
    <3>1. 1 .. k = (1 .. k - 1) \union {k}
      OBVIOUS
    <3> QED BY <3>1
  <2>3. Len(g[k]) = Len(s) + k
    <3>1. Len(g[k]) = Len(g[k - 1]) + 1
      BY <2>1, <1>0, Zenon
    <3> QED BY <1>1, <1>4, <3>1
  <2>4. Elements(g[k]) = Elements(s) \union First(k)
    <3>1. Elements(g[k]) = Elements(g[k - 1]) \union {t[k]}
      BY <2>1, <1>0, Zenon
    <3>2. Elements(g[k - 1]) = Elements(s) \union First(k - 1)
      BY <1>4
    <3> HIDE DEF First
    <3> QED BY <2>2, <3>1, <3>2
  <2>5. ASSUME New PROVE StrictById(g[k])
    <3>1. ASSUME NEW x \in Elements(g[k - 1]) PROVE x.id # t[k].id
      <4>1. CASE x \in Elements(s)
        <5>1. t[k] \in Elements(t)
          BY DEF Elements
        <5> QED BY <2>5, <4>1, <5>1
      <4>2. CASE x \in First(k - 1)
        <5>1. PICK j \in 1 .. k - 1 : x = t[j]
          BY <4>2
        <5>2. j \in 1 .. n /\ j # k
          BY <5>1
        <5> QED BY <2>5, <5>1, <5>2
      <4> QED BY <1>4, <4>1, <4>2
    <3>2. StrictById(g[k - 1])
      BY <1>4, <2>5
    <3>3. InsertElem(g[k - 1], t[k]) \in Seq(E) /\ StrictById(InsertElem(g[k - 1], t[k]))
      BY <2>1, <3>1, <3>2, <1>0, Zenon
    <3> QED BY <2>1, <3>3
  <2> HIDE DEF First, New
  <2> QED BY <2>3, <2>4, <2>5
<1>5. n \in S
  <2>1. \A k \in 1 .. n : k - 1 \in S => k \in S
    BY <1>4, Zenon
  <2> HIDE DEF S
  <2>2. \A k \in 0 .. n : k \in S
    BY <1>1, <1>3, <2>1, IntervalInduction, Zenon
  <2> QED BY <1>1, <2>2
<1>6. First(n) = Elements(t)
  BY DEF Elements
<1>7. g[n] \in Seq(E) /\ SortedById(g[n])
  BY <1>1, <1>2
<1>8. /\ Len(g[n]) = Len(s) + n
      /\ Elements(g[n]) = Elements(s) \union First(n)
      /\ New => StrictById(g[n])
  <2> HIDE DEF New, First
  <2> QED BY <1>5
<1> HIDE DEF First
<1> QED BY <1>2, <1>6, <1>7, <1>8
-----------------------------------------------------------------------------
(* search *)

(* Distances are numbers. *)
LEMMA DistanceIsNat == \A a, b \in Nat : Distance(a, b) \in Nat
BY DEF Distance

(* The loop's variables: what is before f is smaller, what is behind h is  *)
(* larger than the id, and none of those is closer to it than best.        *)
SearchStates(s, id) ==
  {v \in [f : 1 .. Len(s) + 1, h : 0 .. Len(s), best : 1 .. Len(s), pos : 0 .. Len(s)] :
     /\ v.pos # 0 => s[v.pos].id = id
     /\ v.f <= v.h + 1
     /\ \A j \in 1 .. Len(s) : j < v.f => s[j].id < id
     /\ \A j \in 1 .. Len(s) : j > v.h => s[j].id > id
     /\ \A j \in 1 .. Len(s) : j < v.f \/ j > v.h =>
          Distance(s[v.best].id, id) <= Distance(s[j].id, id)}

(* A round of the loop keeps that, and finds the id or excludes an entry.  *)
LEMMA SearchRoundProperties ==
  ASSUME NEW E, HaveIds(E), NEW s \in Seq(E), SortedById(s), NEW id \in Nat,
         NEW v \in SearchStates(s, id)
  PROVE  LET w == SearchRound(s, id, v)
         IN  /\ w \in SearchStates(s, id)
             /\ w.pos # 0 \/ w.f > w.h \/ w.h - w.f < v.h - v.f
<1> DEFINE n == Len(s)
           F == v.f
           H == v.h
           B == v.best
           P == v.pos
           mid == (H + F) \div 2
           closer == IF Distance(s[mid].id, id) <= Distance(s[B].id, id)
                     THEN mid ELSE B
           w == SearchRound(s, id, v)
<1>1. /\ n \in Nat
      /\ \A j \in 1 .. n : s[j].id \in Nat
      /\ \A i, j \in 1 .. n : i < j => s[i].id <= s[j].id
  BY ListLength, ListElement DEF HaveIds, SortedById
<1>2. /\ F \in 1 .. n + 1 /\ H \in 0 .. n /\ B \in 1 .. n /\ P \in 0 .. n
      /\ v = [f |-> F, h |-> H, best |-> B, pos |-> P]
  BY DEF SearchStates
<1>3. /\ P # 0 => s[P].id = id
      /\ F <= H + 1
      /\ \A j \in 1 .. n : j < F => s[j].id < id
      /\ \A j \in 1 .. n : j > H => s[j].id > id
      /\ \A j \in 1 .. n : j < F \/ j > H =>
           Distance(s[B].id, id) <= Distance(s[j].id, id)
  BY DEF SearchStates
<1> HIDE DEF n, F, H, B, P
<1>0. n \in Nat
  BY <1>1
<1>4. CASE P # 0 \/ F > H
  <2>1. w = v
    BY <1>4 DEF SearchRound, F, H, P
  <2> QED BY <1>2, <1>4, <2>1 DEF F, H, P
<1>5. CASE P = 0 /\ F <= H
  <2>1. mid \in F .. H /\ mid \in 1 .. n /\ s[mid].id \in Nat
    BY <1>1, <1>2, <1>5
  <2> HIDE DEF mid
  <2>2. CASE s[mid].id = id
    <3>1. w = [f |-> F, h |-> H, best |-> B, pos |-> mid]
      <4>1. ~(P # 0 \/ F > H)
        BY <1>2, <1>5
      <4> QED BY <2>2, <4>1, Zenon DEF SearchRound, mid, F, H, B, P
    <3> HIDE DEF w
    <3>2. w \in SearchStates(s, id)
      BY <1>2, <1>3, <2>1, <2>2, <3>1 DEF SearchStates, n
    <3>3. w.pos # 0
      BY <2>1, <3>1
    <3> QED BY <3>2, <3>3 DEF w
  <2>3. \A j \in 1 .. n : Distance(s[j].id, id) \in Nat
    BY <1>1, DistanceIsNat, Zenon
  <2>4. /\ closer \in 1 .. n
        /\ Distance(s[closer].id, id) <= Distance(s[mid].id, id)
        /\ Distance(s[closer].id, id) <= Distance(s[B].id, id)
    <3>1. CASE Distance(s[mid].id, id) <= Distance(s[B].id, id)
      BY <1>2, <2>1, <2>3, <3>1
    <3>2. CASE ~(Distance(s[mid].id, id) <= Distance(s[B].id, id))
      <4>1. closer = B
        BY <3>2
      <4> HIDE DEF closer
      <4> QED BY <1>2, <2>1, <2>3, <3>2, <4>1
    <3> QED BY <3>1, <3>2
  <2> HIDE DEF closer
  <2>5. CASE s[mid].id < id
    <3>1. w = [f |-> mid + 1, h |-> H, best |-> closer, pos |-> 0]
      <4>1. ~(P # 0 \/ F > H) /\ s[mid].id # id /\ (s[mid].id < id)
        BY <1>2, <1>5, <2>1, <2>5
      <4> QED BY <4>1, Zenon DEF SearchRound, mid, closer, F, H, B, P
    <3>2. \A j \in 1 .. n : j <= mid => s[j].id < id /\ Distance(s[mid].id, id) <= Distance(s[j].id, id)
      <4>1. \A j \in 1 .. n : j <= mid => s[j].id <= s[mid].id /\ s[j].id < id
        BY <1>1, <2>1, <2>5
      <4> QED BY <1>1, <2>1, <2>5, <4>1 DEF Distance
    <3>3. \A j \in 1 .. n : j <= mid \/ j > H =>
            Distance(s[closer].id, id) <= Distance(s[j].id, id)
      <4> TAKE j \in 1 .. n
      <4>1. CASE j <= mid
        BY <2>1, <2>3, <2>4, <3>2, <4>1
      <4>2. CASE j > H
        BY <1>2, <1>3, <2>3, <2>4, <4>2
      <4> QED BY <4>1, <4>2
    <3>4. mid + 1 \in 1 .. n + 1 /\ mid + 1 <= H + 1 /\ H - (mid + 1) < H - F
      <4>1. F \in Int /\ H \in Int /\ F >= 1 /\ H <= n /\ F <= mid /\ mid <= H /\ mid \in Int
        BY <1>0, <1>2, <2>1
      <4> QED BY <1>0, <4>1
    <3>5. \A j \in 1 .. n : j < mid + 1 => j <= mid
      BY <2>1
    <3> HIDE DEF w
    <3>6. w \in [f : 1 .. n + 1, h : 0 .. n, best : 1 .. n, pos : 0 .. n]
      BY <1>1, <1>2, <2>4, <3>1, <3>4
    <3>7. w.pos = 0 /\ w.f = mid + 1 /\ w.h = H /\ w.best = closer
      BY <3>1
    <3>8. /\ \A j \in 1 .. n : j < w.f => s[j].id < id
          /\ \A j \in 1 .. n : j > w.h => s[j].id > id
          /\ \A j \in 1 .. n : j < w.f \/ j > w.h =>
               Distance(s[w.best].id, id) <= Distance(s[j].id, id)
      BY <1>3, <3>2, <3>3, <3>5, <3>7
    <3>9. w \in SearchStates(s, id)
      BY <3>4, <3>6, <3>7, <3>8 DEF SearchStates, n
    <3> QED BY <3>4, <3>7, <3>9 DEF w, F, H
  <2>6. CASE s[mid].id > id
    <3>1. w = [f |-> F, h |-> mid - 1, best |-> closer, pos |-> 0]
      <4>1. ~(P # 0 \/ F > H) /\ s[mid].id # id /\ ~(s[mid].id < id)
        BY <1>2, <1>5, <2>1, <2>6
      <4> QED BY <4>1, Zenon DEF SearchRound, mid, closer, F, H, B, P
    <3>2. \A j \in 1 .. n : j >= mid => s[j].id > id /\ Distance(s[mid].id, id) <= Distance(s[j].id, id)
      <4>1. \A j \in 1 .. n : j >= mid => s[j].id >= s[mid].id /\ s[j].id > id
        BY <1>1, <2>1, <2>6
      <4> QED BY <1>1, <2>1, <2>6, <4>1 DEF Distance
    <3>3. \A j \in 1 .. n : j < F \/ j >= mid =>
            Distance(s[closer].id, id) <= Distance(s[j].id, id)
      <4> TAKE j \in 1 .. n
      <4>1. CASE j >= mid
        BY <2>1, <2>3, <2>4, <3>2, <4>1
      <4>2. CASE j < F
        BY <1>2, <1>3, <2>3, <2>4, <4>2
      <4> QED BY <4>1, <4>2
    <3>4. mid - 1 \in 0 .. n /\ F <= (mid - 1) + 1 /\ (mid - 1) - F < H - F
      <4>1. F \in Int /\ H \in Int /\ F >= 1 /\ H <= n /\ F <= mid /\ mid <= H /\ mid \in Int
        BY <1>0, <1>2, <2>1
      <4> QED BY <1>0, <4>1
    <3>5. \A j \in 1 .. n : j > mid - 1 => j >= mid
      BY <2>1
    <3> HIDE DEF w
    <3>6. w \in [f : 1 .. n + 1, h : 0 .. n, best : 1 .. n, pos : 0 .. n]
      BY <1>1, <1>2, <2>4, <3>1, <3>4
    <3>7. w.pos = 0 /\ w.f = F /\ w.h = mid - 1 /\ w.best = closer
      BY <3>1
    <3>8. /\ \A j \in 1 .. n : j < w.f => s[j].id < id
          /\ \A j \in 1 .. n : j > w.h => s[j].id > id
          /\ \A j \in 1 .. n : j < w.f \/ j > w.h =>
               Distance(s[w.best].id, id) <= Distance(s[j].id, id)
      BY <1>3, <3>2, <3>3, <3>5, <3>7
    <3>9. w \in SearchStates(s, id)
      BY <3>4, <3>6, <3>7, <3>8 DEF SearchStates, n
    <3> QED BY <3>4, <3>7, <3>9 DEF w, F, H
  <2> QED BY <2>1, <2>2, <2>5, <2>6
<1> QED BY <1>2, <1>4, <1>5

(* search on a sorted list: found means the id is there, at pos; not found *)
(* means it is not, and then no entry is closer to it than the one at best. *)
LEMMA SearchProperties ==
  ASSUME NEW E, HaveIds(E), NEW s \in Seq(E), SortedById(s), NEW id \in Nat
  PROVE  LET r == Search(s, id)
         IN  /\ r.found \in BOOLEAN
             /\ r.found => r.pos \in 1 .. Len(s) /\ s[r.pos].id = id
             /\ ~r.found => \A j \in 1 .. Len(s) : s[j].id # id
             /\ ~r.found /\ Len(s) > 0 =>
                  /\ r.best \in 1 .. Len(s)
                  /\ \A j \in 1 .. Len(s) :
                       Distance(s[r.best].id, id) <= Distance(s[j].id, id)
<1> DEFINE n == Len(s)
           V == SearchStates(s, id)
           v0 == [f |-> 1, h |-> n, best |-> 1, pos |-> 0]
           Step == [k \in 1 .. n |-> [x \in V |-> SearchRound(s, id, x)]]
           IsRun(g) == g = [k \in 0 .. n |-> IF k = 0 THEN v0 ELSE SearchRound(s, id, g[k - 1])]
           g == CHOOSE f : IsRun(f)
           r == Search(s, id)
<1>1. n \in Nat
  BY ListLength
<1>2. r = [found |-> g[n].pos # 0, pos |-> g[n].pos, best |-> IF s = <<>> THEN 0 ELSE g[n].best]
  BY Zenon DEF Search
<1>3. CASE n = 0
  <2> DEFINE h == [k \in 0 .. n |-> v0]
  <2>1. \A k \in 0 .. n : k = 0
    BY <1>3
  <2>2. 0 \in 0 .. n
    BY <1>3
  <2>3. IsRun(h)
    <3> HIDE DEF n, v0
    <3> QED BY <2>1
  <2>4. IsRun(g)
    <3> HIDE DEF IsRun, h
    <3> QED BY <2>3
  <2>5. g[0] = v0
    <3> HIDE DEF g, v0, n
    <3> QED BY <2>2, <2>4
  <2>6. g[0].pos = 0
    <3> HIDE DEF g
    <3> QED BY <2>5
  <2>7. r.found = FALSE
    <3>1. r.found = (g[n].pos # 0)
      <4> HIDE DEF g, r
      <4> QED BY <1>2
    <3> HIDE DEF g, r, n
    <3> QED BY <1>3, <2>6, <3>1, Zenon
  <2>8. ~(n > 0) /\ \A j \in 1 .. n : FALSE
    BY <1>3
  <2> HIDE DEF r
  <2> QED BY <2>7, <2>8, Zenon DEF r
<1>4. CASE n > 0
  <2>1. v0 \in V
    BY <1>1, <1>4 DEF SearchStates
  <2>2. \A x \in V : /\ SearchRound(s, id, x) \in V
                     /\ LET w == SearchRound(s, id, x)
                        IN  w.pos # 0 \/ w.f > w.h \/ w.h - w.f < x.h - x.f
    BY SearchRoundProperties
  <2>3. Step \in [1 .. n -> [V -> V]]
    <3> HIDE DEF V
    <3> QED BY <2>2
  <2>4. \E h : IsRecursion(h, n, V, v0, Step)
    <3> HIDE DEF V, Step, n, v0, IsRun, g
    <3> QED BY <1>1, <2>1, <2>3, RecursionExists, Zenon
  <2>5. PICK h \in [0 .. n -> V] : h[0] = v0 /\ \A k \in 1 .. n : h[k] = Step[k][h[k - 1]]
    <3> HIDE DEF V, Step, n, v0
    <3> QED BY <2>4, Zenon DEF IsRecursion
  <2>6. IsRun(h)
    <3>1. ASSUME NEW k \in 1 .. n PROVE h[k] = SearchRound(s, id, h[k - 1])
      <4>1. k - 1 \in 0 .. n
        BY <1>1
      <4> HIDE DEF V, n, v0
      <4>2. h[k - 1] \in V
        BY <4>1
      <4> QED BY <2>5, <4>2, Zenon
    <3> HIDE DEF V, v0, Step
    <3>2. \A k \in 0 .. n : h[k] = IF k = 0 THEN v0 ELSE SearchRound(s, id, h[k - 1])
      BY <1>1, <2>5, <3>1
    <3> QED BY <3>2
  <2>7. IsRun(g)
    <3> HIDE DEF IsRun
    <3> QED BY <2>6
  <2> HIDE DEF g
  <2>8. g[0] = v0 /\ \A k \in 1 .. n : g[k] = SearchRound(s, id, g[k - 1])
    <3> HIDE DEF v0, V, r
    <3>1. \A k \in 0 .. n : g[k] = IF k = 0 THEN v0 ELSE SearchRound(s, id, g[k - 1])
      <4> HIDE DEF n
      <4> QED BY <2>7, Zenon
    <3>2. 0 \in 0 .. n /\ \A k \in 1 .. n : k \in 0 .. n /\ k # 0
      BY <1>1
    <3> HIDE DEF n, IsRun
    <3> QED BY <3>1, <3>2
  <2> DEFINE S == {k \in 0 .. n : /\ g[k] \in V
                                  /\ g[k].pos # 0 \/ g[k].f > g[k].h \/ g[k].h - g[k].f < n - k}
  <2>9. 0 \in S
    <3>1. v0.h - v0.f < n - 0
      BY <1>1
    <3> HIDE DEF v0, V
    <3> QED BY <1>1, <2>1, <2>8, <3>1
  <2>10. ASSUME NEW k \in 1 .. n, k - 1 \in S PROVE k \in S
    <3> DEFINE x == g[k - 1]
               y == g[k]
    <3>1. /\ x \in V /\ y = SearchRound(s, id, x) /\ y \in V
          /\ x.pos # 0 \/ x.f > x.h \/ x.h - x.f < n - (k - 1)
          /\ y.pos # 0 \/ y.f > y.h \/ y.h - y.f < x.h - x.f
      <4> HIDE DEF V
      <4> QED BY <2>2, <2>8, <2>10
    <3>2. x.f \in Nat /\ x.h \in Nat /\ y.f \in Nat /\ y.h \in Nat
      <4> HIDE DEF x, y
      <4>1. \A u \in V : u.f \in Nat /\ u.h \in Nat
        BY <1>1 DEF SearchStates
      <4> QED BY <3>1, <4>1
    <3>3. x.pos # 0 \/ x.f > x.h => y = x
      BY <3>1, Zenon DEF SearchRound
    <3> HIDE DEF x, y, V
    <3>4. y.pos # 0 \/ y.f > y.h \/ y.h - y.f < n - k
      BY <1>1, <3>1, <3>2, <3>3
    <3> QED BY <3>1, <3>4 DEF y
  <2>11. n \in S
    <3>1. \A k \in 1 .. n : k - 1 \in S => k \in S
      BY <2>10
    <3> HIDE DEF S, n
    <3>2. \A k \in 0 .. n : k \in S
      BY <1>1, <2>9, <3>1, IntervalInduction, Zenon
    <3> QED BY <1>1, <3>2
  <2> DEFINE z == g[n]
  <2>12. z \in V /\ (z.pos # 0 \/ z.f > z.h)
    <3>1. z \in V /\ (z.pos # 0 \/ z.f > z.h \/ z.h - z.f < n - n)
      <4> HIDE DEF V
      <4> QED BY <2>11
    <3>2. z.f \in Nat /\ z.h \in Nat
      BY <1>1, <3>1 DEF SearchStates
    <3> HIDE DEF z, V
    <3> QED BY <1>1, <3>1, <3>2
  <2>13. r.found = (z.pos # 0) /\ r.pos = z.pos /\ r.best = z.best
    <3>1. s # <<>>
      BY <1>4
    <3> HIDE DEF z
    <3>2. r = [found |-> z.pos # 0, pos |-> z.pos, best |-> z.best]
      BY <1>2, <3>1, Zenon DEF z
    <3> HIDE DEF r
    <3> QED BY <3>2
  <2> HIDE DEF z, r
  <2>14. /\ z.pos \in 0 .. n /\ z.best \in 1 .. n
         /\ z.pos # 0 => s[z.pos].id = id
         /\ z.f > z.h => \A j \in 1 .. n : /\ s[j].id # id
                                          /\ Distance(s[z.best].id, id) <= Distance(s[j].id, id)
    <3>1. /\ z.pos \in 0 .. n /\ z.best \in 1 .. n /\ z.f \in 1 .. n + 1 /\ z.h \in 0 .. n
          /\ z.pos # 0 => s[z.pos].id = id
          /\ \A j \in 1 .. n : j < z.f => s[j].id < id
          /\ \A j \in 1 .. n : j > z.h => s[j].id > id
          /\ \A j \in 1 .. n : j < z.f \/ j > z.h =>
               Distance(s[z.best].id, id) <= Distance(s[j].id, id)
      BY <2>12 DEF SearchStates
    <3>2. \A j \in 1 .. n : s[j].id \in Nat
      BY ListElement DEF HaveIds
    <3>3. ASSUME z.f > z.h, NEW j \in 1 .. n PROVE j < z.f \/ j > z.h
      BY <1>1, <3>1, <3>3
    <3> QED BY <3>1, <3>2, <3>3
  <2>15. \/ z.pos # 0
         \/ z.pos = 0 /\ \A j \in 1 .. n : /\ s[j].id # id
                                         /\ Distance(s[z.best].id, id) <= Distance(s[j].id, id)
    BY <2>12, <2>14
  <2> HIDE DEF n
  <2>16. /\ r.found \in BOOLEAN
         /\ r.found => r.pos \in 1 .. n /\ s[r.pos].id = id
         /\ ~r.found => \A j \in 1 .. n : s[j].id # id
         /\ ~r.found => /\ r.best \in 1 .. n
                        /\ \A j \in 1 .. n : Distance(s[r.best].id, id) <= Distance(s[j].id, id)
    <3>1. CASE z.pos # 0
      <4>1. r.found = TRUE
        BY <2>13, <3>1, Zenon
      <4>2. z.pos \in 1 .. n
        BY <1>1, <2>14, <3>1
      <4> QED BY <2>13, <2>14, <3>1, <4>1, <4>2
    <3>2. CASE z.pos = 0
      <4>1. r.found = FALSE
        BY <2>13, <3>2, Zenon
      <4> QED BY <2>13, <2>14, <2>15, <3>2, <4>1
    <3> QED BY <3>1, <3>2
  <2> QED BY <2>16 DEF r, n
<1> QED BY <1>1, <1>3, <1>4

(* The same for a list that was empty. *)
LEMMA InsertAllIntoEmpty ==
  ASSUME NEW E, HaveIds(E), NEW t \in Seq(E)
  PROVE  /\ InsertAll(<<>>, t) \in Seq(E)
         /\ Len(InsertAll(<<>>, t)) = Len(t)
         /\ SortedById(InsertAll(<<>>, t))
         /\ Elements(InsertAll(<<>>, t)) = Elements(t)
         /\ (\A i, j \in 1 .. Len(t) : t[i].id = t[j].id => i = j) => StrictById(InsertAll(<<>>, t))
<1> DEFINE e == <<>>
<1>1. e \in Seq(E) /\ Len(e) = 0 /\ SortedById(e) /\ StrictById(e) /\ Elements(e) = {}
  BY DEF SortedById, StrictById, Elements
<1> HIDE DEF e
<1>2. /\ InsertAll(e, t) \in Seq(E)
      /\ Len(InsertAll(e, t)) = Len(e) + Len(t)
      /\ SortedById(InsertAll(e, t))
      /\ Elements(InsertAll(e, t)) = Elements(e) \union Elements(t)
      /\ (/\ StrictById(e)
          /\ \A x \in Elements(e) : \A y \in Elements(t) : x.id # y.id
          /\ \A i, j \in 1 .. Len(t) : t[i].id = t[j].id => i = j)
         => StrictById(InsertAll(e, t))
  BY <1>1, InsertAllProperties, Zenon
<1> DEFINE u == InsertAll(e, t)
<1> HIDE DEF u
<1>3. /\ u \in Seq(E) /\ SortedById(u) /\ Elements(u) = Elements(t)
      /\ (\A i, j \in 1 .. Len(t) : t[i].id = t[j].id => i = j) => StrictById(u)
  BY <1>1, <1>2, Zenon DEF u
<1>4. Len(u) = Len(t)
  BY <1>1, <1>2, ListLength DEF u
<1> QED BY <1>3, <1>4, Zenon DEF e, u
-----------------------------------------------------------------------------
(* extract *)

(* A set of numbers below N that contains, with a number, every smaller    *)
(* one, is an interval.                                                    *)
LEMMA DownClosedIsInterval ==
  ASSUME NEW N \in Nat, NEW S \in SUBSET (0 .. N - 1),
         \A k \in S : \A j \in 0 .. k : j \in S
  PROVE  Cardinality(S) \in Nat /\ S = 0 .. Cardinality(S) - 1
<1> DEFINE T == {k \in Nat : k \notin S}
<1>1. T \in SUBSET Nat /\ N \in T
  OBVIOUS
<1>2. PICK x \in T : \A y \in T : x <= y
  <2> HIDE DEF T
  <2> QED BY <1>1, LeastNumber
<1>3. x \in Nat /\ x \notin S /\ \A k \in Nat : k < x => k \in S
  BY <1>2
<1>4. S = 0 .. x - 1
  <2>1. ASSUME NEW k \in S PROVE k \in 0 .. x - 1
    <3>1. k \in Nat /\ (x <= k => x \in 0 .. k)
      BY <1>3
    <3> QED BY <1>3, <3>1
  <2>2. \A k \in 0 .. x - 1 : k \in S
    BY <1>3
  <2> QED BY <2>1, <2>2, Zenon
<1>5. Cardinality(0 .. x - 1) = x
  BY <1>3, FS_Interval
<1> QED BY <1>3, <1>4, <1>5

(* extract starts at an entry of the list, if there is one. *)
LEMMA StartPosProperties ==
  ASSUME NEW E, HaveIds(E), NEW s \in Seq(E), SortedById(s), NEW id \in Nat, Len(s) > 0
  PROVE  StartPos(s, id) \in 1 .. Len(s)
<1> DEFINE r == Search(s, id)
<1>1. /\ r.found \in BOOLEAN
      /\ r.found => r.pos \in 1 .. Len(s)
      /\ ~r.found => r.best \in 1 .. Len(s)
  BY SearchProperties
<1>2. StartPos(s, id) = IF r.found THEN r.pos ELSE r.best
  BY Zenon DEF StartPos
<1> HIDE DEF r
<1>3. CASE r.found
  BY <1>1, <1>2, <1>3, Zenon
<1>4. CASE ~r.found
  BY <1>1, <1>2, <1>4, Zenon
<1> QED BY <1>3, <1>4

(* The positions are the start and what follows it, without a gap. *)
LEMMA WalkProperties ==
  ASSUME NEW E, HaveIds(E), NEW s \in Seq(E), SortedById(s), NEW req, IsRequest(req)
  PROVE  /\ Cardinality(Walk(s, req)) \in Nat
         /\ Walk(s, req) = 0 .. Cardinality(Walk(s, req)) - 1
         /\ \A k \in Walk(s, req) : WalkPos(s, req, k) \in 1 .. Len(s)
         /\ \A j, k \in Walk(s, req) : WalkPos(s, req, j) = WalkPos(s, req, k) => j = k
<1> DEFINE n == Len(s)
           p == StartPos(s, req.start)
           W == Walk(s, req)
<1>1. n \in Nat /\ req.count \in Int /\ (req.dir = 1 \/ req.dir = -1)
  BY ListLength DEF IsRequest
<1>2. W \in SUBSET (0 .. n - 1) /\ \A k \in W : WalkPos(s, req, k) \in 1 .. n
  BY DEF Walk
<1>3. n > 0 => p \in 1 .. n
  BY StartPosProperties, Zenon DEF IsRequest
<1> HIDE DEF p
<1>4. \A k \in 0 .. n - 1 : WalkPos(s, req, k) = IF req.dir = 1 THEN p + k ELSE p - k
  <2> SUFFICES ASSUME NEW k \in 0 .. n - 1
               PROVE  WalkPos(s, req, k) = IF req.dir = 1 THEN p + k ELSE p - k
    OBVIOUS
  <2>1. n > 0 /\ p \in 1 .. n
    BY <1>1, <1>3
  <2>2. CASE req.dir = 1
    BY <2>1, <2>2 DEF WalkPos, p
  <2>3. CASE req.dir = -1
    BY <2>1, <2>3 DEF WalkPos, p
  <2> QED BY <1>1, <2>2, <2>3
<1>5. \A j, k \in W : WalkPos(s, req, j) = WalkPos(s, req, k) => j = k
  BY <1>1, <1>2, <1>3, <1>4
<1>6. ASSUME NEW k \in W, NEW j \in 0 .. k PROVE j \in W
  <2>1. k \in 0 .. n - 1 /\ j \in 0 .. n - 1 /\ n > 0
    BY <1>1, <1>2
  <2>2. k < req.count /\ WalkPos(s, req, k) \in 1 .. n
    BY DEF Walk
  <2>3. \A i \in 0 .. j - 1 : ~ReachesEnd(s, WalkPos(s, req, i), req)
    <3>1. \A i \in 0 .. j - 1 : i \in 0 .. k - 1
      BY <2>1
    <3> QED BY <3>1 DEF Walk
  <2>4. j < req.count
    BY <1>1, <2>1, <2>2
  <2>5. WalkPos(s, req, j) \in 1 .. n
    <3>1. p \in 1 .. n
      BY <1>3, <2>1
    <3>2. CASE req.dir = 1
      BY <1>1, <1>4, <2>1, <2>2, <3>1, <3>2
    <3>3. CASE req.dir = -1
      BY <1>1, <1>4, <2>1, <2>2, <3>1, <3>3
    <3> QED BY <1>1, <3>2, <3>3
  <2> QED BY <2>1, <2>3, <2>4, <2>5 DEF Walk
<1>7. Cardinality(W) \in Nat /\ W = 0 .. Cardinality(W) - 1
  <2> HIDE DEF W, n
  <2> QED BY <1>1, <1>2, <1>6, DownClosedIsInterval, Zenon
<1> QED BY <1>2, <1>5, <1>7

(* extract returns the entries at those positions, sorted; without equal   *)
(* ids if the list has none.                                               *)
LEMMA ExtractProperties ==
  ASSUME NEW E, HaveIds(E), NEW s \in Seq(E), SortedById(s), NEW req, IsRequest(req)
  PROVE  /\ Extract(s, req) \in Seq(E)
         /\ SortedById(Extract(s, req))
         /\ Elements(Extract(s, req)) = {s[WalkPos(s, req, k)] : k \in Walk(s, req)}
         /\ Elements(Extract(s, req)) \subseteq Elements(s)
         /\ StrictById(s) => StrictById(Extract(s, req))
<1> DEFINE n == Len(s)
           W == Walk(s, req)
           m == Cardinality(W)
           t == [k \in 1 .. m |-> s[WalkPos(s, req, k - 1)]]
<1>1. n \in Nat /\ \A k \in 1 .. n : s[k] \in E /\ s[k].id \in Nat
  BY ListLength, ListElement DEF HaveIds
<1>2. /\ m \in Nat /\ W = 0 .. m - 1
      /\ \A k \in W : WalkPos(s, req, k) \in 1 .. n
      /\ \A j, k \in W : WalkPos(s, req, j) = WalkPos(s, req, k) => j = k
  BY WalkProperties
<1>3. Extract(s, req) = InsertAll(<<>>, t)
  BY Zenon DEF Extract, Walk, WalkPos
<1> HIDE DEF m, n, W
<1>4. \A k \in 1 .. m : k - 1 \in W /\ WalkPos(s, req, k - 1) \in 1 .. n
  BY <1>2
<1>5. t \in Seq(E) /\ Len(t) = m /\ \A k \in 1 .. m : t[k] = s[WalkPos(s, req, k - 1)]
  BY <1>1, <1>2, <1>4
<1> HIDE DEF t
<1>6. Elements(t) = {s[WalkPos(s, req, k)] : k \in W}
  <2>1. ASSUME NEW x \in Elements(t) PROVE x \in {s[WalkPos(s, req, k)] : k \in W}
    <3>1. PICK k \in 1 .. m : x = t[k]
      BY <1>5 DEF Elements
    <3> QED BY <1>4, <1>5, <3>1
  <2>2. ASSUME NEW k \in W PROVE s[WalkPos(s, req, k)] \in Elements(t)
    <3>1. k + 1 \in 1 .. m /\ (k + 1) - 1 = k
      BY <1>2
    <3>2. t[k + 1] = s[WalkPos(s, req, k)]
      BY <1>5, <3>1
    <3> QED BY <1>5, <3>1, <3>2 DEF Elements
  <2> QED BY <2>1, <2>2
<1>7. Elements(t) \subseteq Elements(s)
  BY <1>2, <1>6, Zenon DEF Elements, n
<1>8. ASSUME StrictById(s)
      PROVE  \A i, j \in 1 .. Len(t) : t[i].id = t[j].id => i = j
  <2> SUFFICES ASSUME NEW i \in 1 .. m, NEW j \in 1 .. m, t[i].id = t[j].id PROVE i = j
    BY <1>5
  <2> DEFINE a == WalkPos(s, req, i - 1)
             b == WalkPos(s, req, j - 1)
  <2>1. a \in 1 .. n /\ b \in 1 .. n /\ s[a].id = s[b].id
    BY <1>4, <1>5
  <2>2. \A k, l \in 1 .. n : k < l => s[k].id < s[l].id
    BY <1>8 DEF StrictById, n
  <2> HIDE DEF a, b
  <2>3. a = b
    BY <1>1, <2>1, <2>2
  <2>4. i - 1 = j - 1
    BY <1>2, <1>4, <2>3 DEF a, b
  <2> QED BY <2>4
<1> DEFINE u == InsertAll(<<>>, t)
<1>9. u \in Seq(E) /\ SortedById(u) /\ Elements(u) = Elements(t) /\ (StrictById(s) => StrictById(u))
  BY <1>5, <1>8, InsertAllIntoEmpty
<1> HIDE DEF u
<1> QED BY <1>3, <1>6, <1>7, <1>9 DEF W, u
-----------------------------------------------------------------------------
(* Entries that come in order, and the propositions of IndexListFacts *)

(* An entry whose id is above all others goes to the end. *)
LEMMA InsertLast ==
  ASSUME NEW E, HaveIds(E), NEW s \in Seq(E), NEW e \in E,
         \A i \in 1 .. Len(s) : s[i].id < e.id
  PROVE  InsertElem(s, e) = Append(s, e)
<1> DEFINE n == Len(s)
           p == InsertPos(s, e)
           t == Place(s, p, e)
           u == Append(s, e)
<1>1. /\ n \in Nat /\ e.id \in Nat /\ (s # <<>> => n > 0)
      /\ \A j \in 1 .. n : s[j].id \in Nat
  BY ListLength, ListElement DEF HaveIds
<1>2. p = n + 1
  BY <1>1 DEF InsertPos
<1>3. u \in Seq(E) /\ Len(u) = n + 1 /\ \A j \in 1 .. n + 1 : u[j] = IF j <= n THEN s[j] ELSE e
  BY <1>1
<1>4. n + 1 \in 1 .. Len(s) + 1
  BY <1>1
<1> HIDE DEF p, u
<1>5. /\ t \in Seq(E) /\ Len(t) = n + 1
      /\ \A j \in 1 .. n + 1 : t[j] = IF j < n + 1 THEN s[j] ELSE IF j = n + 1 THEN e ELSE s[j - 1]
  BY <1>2, <1>4, PlaceProperties
<1> HIDE DEF t
<1>6. \A j \in 1 .. n + 1 : t[j] = u[j]
  BY <1>1, <1>3, <1>5
<1>7. t = u
  BY <1>3, <1>5, <1>6, SameList
<1> QED BY <1>7 DEF InsertElem, t, p, u

(* Inserting a strictly sorted list into the empty one gives it back. *)
LEMMA InsertSorted ==
  ASSUME NEW E, HaveIds(E), NEW t \in Seq(E), StrictById(t)
  PROVE  InsertAll(<<>>, t) = t
<1> DEFINE n == Len(t)
           Begin(k) == [i \in 1 .. k |-> t[i]]
<1>1. n \in Nat /\ \A k \in 1 .. n : t[k] \in E
  BY ListLength, ListElement
<1>2. <<>> \in Seq(E) /\ SortedById(<<>>)
  BY DEF SortedById
<1>3. PICK g : /\ g[0] = <<>>
               /\ \A k \in 1 .. n : g[k] = InsertElem(g[k - 1], t[k])
               /\ InsertAll(<<>>, t) = g[n]
  <2> DEFINE e == <<>>
  <2>1. e \in Seq(E) /\ SortedById(e)
    BY <1>2
  <2> HIDE DEF e
  <2>2. \E g : /\ g[0] = e
               /\ \A k \in 1 .. Len(t) : g[k] = InsertElem(g[k - 1], t[k])
               /\ \A k \in 0 .. Len(t) : g[k] \in Seq(E) /\ SortedById(g[k])
               /\ InsertAll(e, t) = g[Len(t)]
    BY <2>1, InsertAllRuns
  <2> QED BY <2>2, Zenon DEF e
<1>4. ASSUME NEW k \in 0 .. n
      PROVE  Begin(k) \in Seq(E) /\ Len(Begin(k)) = k /\ \A i \in 1 .. k : Begin(k)[i] = t[i]
  BY <1>1
<1> DEFINE S == {k \in 0 .. n : g[k] = Begin(k)}
<1>5. 0 \in S
  <2>1. Begin(0) = <<>>
    OBVIOUS
  <2> QED BY <1>1, <1>3, <2>1
<1> HIDE DEF Begin
<1>6. ASSUME NEW k \in 1 .. n, k - 1 \in S PROVE k \in S
  <2> DEFINE b == Begin(k - 1)
             c == Begin(k)
             u == Append(b, t[k])
  <2>1. k - 1 \in 0 .. n /\ k \in 0 .. n /\ t[k] \in E /\ g[k - 1] = b
    BY <1>1, <1>6
  <2>2. /\ b \in Seq(E) /\ Len(b) = k - 1 /\ \A i \in 1 .. k - 1 : b[i] = t[i]
        /\ c \in Seq(E) /\ Len(c) = k /\ \A i \in 1 .. k : c[i] = t[i]
    BY <1>4, <2>1
  <2> HIDE DEF b, c
  <2>3. \A i \in 1 .. Len(b) : b[i].id < t[k].id
    BY <2>2 DEF StrictById
  <2>4. InsertElem(b, t[k]) = Append(b, t[k])
    BY <2>1, <2>2, <2>3, InsertLast
  <2>5. u \in Seq(E) /\ Len(u) = k /\ \A i \in 1 .. k : u[i] = t[i]
    BY <2>1, <2>2
  <2> HIDE DEF u
  <2>6. u = c
    BY <2>2, <2>5, SameList
  <2>7. g[k] = u
    BY <1>3, <2>1, <2>4 DEF u
  <2> QED BY <2>1, <2>6, <2>7 DEF c
<1>7. \A k \in 0 .. n : k \in S
  <2> HIDE DEF S
  <2> QED BY <1>1, <1>5, <1>6, IntervalInduction, Zenon
<1>8. g[n] = Begin(n) /\ n \in 0 .. n
  BY <1>1, <1>7
<1>9. Begin(n) = t
  BY <1>4, <1>8, SameList
<1> QED BY <1>3, <1>8, <1>9

(* Sets of numbers up to n are finite. *)
LEMMA IntervalSubset ==
  ASSUME NEW n \in Nat, NEW T \in SUBSET (1 .. n)
  PROVE  IsFiniteSet(T) /\ Cardinality(T) \in Nat /\ Cardinality(T) <= n
<1>1. IsFiniteSet(1 .. n) /\ Cardinality(1 .. n) = n
  BY FS_Interval
<1>2. IsFiniteSet(T) /\ Cardinality(T) <= n
  BY <1>1, FS_Subset, Zenon
<1> QED BY <1>2, FS_CardinalityType

(* An increasing sequence has as many elements as its length. *)
LEMMA IncreasingCount ==
  ASSUME NEW s \in Seq(Nat), \A i, j \in 1 .. Len(s) : i < j => s[i] < s[j]
  PROVE  Cardinality({s[i] : i \in 1 .. Len(s)}) = Len(s)
<1> DEFINE n == Len(s)
           R == {s[i] : i \in 1 .. n}
<1>1. n \in Nat /\ s \in [1 .. n -> R] /\ \A i \in 1 .. n : s[i] \in Nat
  BY ListLength, ListElement
<1>2. \A i, j \in 1 .. n : s[i] = s[j] => i = j
  <2> SUFFICES ASSUME NEW i \in 1 .. n, NEW j \in 1 .. n, i # j PROVE s[i] # s[j]
    OBVIOUS
  <2>1. i < j \/ j < i
    BY <1>1
  <2>2. s[i] < s[j] \/ s[j] < s[i]
    BY <2>1
  <2> QED BY <1>1, <2>2
<1>3. s \in Injection(1 .. n, R)
  BY <1>1, <1>2 DEF Injection, IsInjective
<1>4. s \in Surjection(1 .. n, R)
  BY <1>1 DEF Surjection
<1> HIDE DEF R
<1>5. ExistsBijection(1 .. n, R)
  BY <1>3, <1>4 DEF ExistsBijection, Bijection
<1>6. IsFiniteSet(1 .. n) /\ Cardinality(1 .. n) = n
  BY <1>1, FS_Interval
<1>7. Cardinality(R) = n
  BY <1>5, <1>6, FS_Bijection
<1> QED BY <1>7, Zenon DEF R

-----------------------------------------------------------------------------
(* The log that index files hold *)

(* Concatenation, as an operator the provers need not look into. *)
Behind(s, t) == s \o t

IsLogRun(g, F) ==
  /\ g[0] = <<>>
  /\ \A k \in 0 .. Len(F) : g[k] \in Seq(Nat)
  /\ \A k \in 1 .. Len(F) : g[k] = Behind(g[k - 1], IdsIn(F[k]))

(* The ids of a file. *)
LEMMA IdsInProperties ==
  ASSUME NEW E, HaveIds(E), NEW f \in Seq(E)
  PROVE  /\ IdsIn(f) \in Seq(Nat) /\ Len(IdsIn(f)) = Len(f) /\ Len(f) \in Nat
         /\ \A k \in 1 .. Len(f) : IdsIn(f)[k] = f[k].id /\ f[k].id \in Nat
<1>1. Len(f) \in Nat /\ \A k \in 1 .. Len(f) : f[k] \in E
  BY ListLength, ListElement
<1>2. \A r \in E : r.id \in Nat
  BY DEF HaveIds
<1>3. \A k \in 1 .. Len(f) : f[k].id \in Nat
  BY <1>1, <1>2
<1> QED BY <1>1, <1>3 DEF IdsIn

(* The recursion in LogOf. *)
LEMMA LogRuns ==
  ASSUME NEW E, HaveIds(E), NEW F \in Seq(Seq(E))
  PROVE  \E g : IsLogRun(g, F) /\ LogOf(F) = g[Len(F)]
<1> DEFINE n == Len(F)
           V == Seq(Nat)
           e == <<>>
           Step == [k \in 1 .. n |-> [x \in V |-> Behind(x, IdsIn(F[k]))]]
           IsRun(f) == f = [k \in 0 .. n |-> IF k = 0 THEN e ELSE Behind(f[k - 1], IdsIn(F[k]))]
<1>1. n \in Nat /\ e \in V /\ \A k \in 1 .. n : IdsIn(F[k]) \in Seq(Nat)
  BY ListLength, ListElement, IdsInProperties
<1>2. ASSUME NEW k \in 1 .. n, NEW x \in V PROVE Behind(x, IdsIn(F[k])) \in V
  BY <1>1 DEF Behind
<1>3. Step \in [1 .. n -> [V -> V]]
  <2> HIDE DEF V
  <2> QED BY <1>2
<1>4. \E g : IsRecursion(g, n, V, e, Step)
  <2>1. n \in Nat /\ e \in V
    BY <1>1
  <2> HIDE DEF V, Step, n, IsRun, e
  <2> QED BY <1>3, <2>1, RecursionExists, Zenon
<1>5. PICK h \in [0 .. n -> V] : h[0] = e /\ \A k \in 1 .. n : h[k] = Step[k][h[k - 1]]
  <2> HIDE DEF V, Step, n, e
  <2> QED BY <1>4, Zenon DEF IsRecursion
<1> HIDE DEF e
<1>6. IsRun(h)
  <2>1. ASSUME NEW k \in 1 .. n PROVE h[k] = Behind(h[k - 1], IdsIn(F[k]))
    <3>1. h[k - 1] \in V
      <4>1. k - 1 \in 0 .. n
        BY <1>1
      <4> HIDE DEF V, n
      <4> QED BY <4>1, Zenon
    <3> HIDE DEF V
    <3> QED BY <1>5, <3>1, Zenon
  <2>2. \A k \in 0 .. n : h[k] = IF k = 0 THEN e ELSE Behind(h[k - 1], IdsIn(F[k]))
    BY <1>1, <1>5, <2>1
  <2> HIDE DEF Step, V
  <2> QED BY <2>2
<1> DEFINE g == CHOOSE f : IsRun(f)
<1>7. IsRun(g)
  <2> HIDE DEF IsRun
  <2> QED BY <1>6
<1>8. LogOf(F) = g[n]
  BY Zenon DEF LogOf, Behind, e
<1> HIDE DEF g
<1>9. g[0] = e /\ \A k \in 1 .. n : g[k] = Behind(g[k - 1], IdsIn(F[k]))
  <2> HIDE DEF V
  <2>1. \A k \in 0 .. n : g[k] = IF k = 0 THEN e ELSE Behind(g[k - 1], IdsIn(F[k]))
    <3> HIDE DEF n
    <3> QED BY <1>7, Zenon
  <2>2. 0 \in 0 .. n /\ \A k \in 1 .. n : k \in 0 .. n /\ k # 0
    BY <1>1
  <2> HIDE DEF n, IsRun
  <2> QED BY <2>1, <2>2
<1>10. \A k \in 0 .. n : g[k] \in V
  <2> DEFINE S == {k \in 0 .. n : g[k] \in V}
  <2> HIDE DEF V
  <2>1. 0 \in S
    BY <1>1, <1>9
  <2>2. ASSUME NEW k \in 1 .. n, k - 1 \in S PROVE k \in S
    BY <1>1, <1>2, <1>9, <2>2
  <2>3. \A k \in 0 .. n : k \in S
    <3>1. n \in Nat /\ \A k \in 1 .. n : k - 1 \in S => k \in S
      BY <1>1, <2>2
    <3> HIDE DEF S, n
    <3> QED BY <2>1, <3>1, IntervalInduction, Zenon
  <2> QED BY <2>3
<1>11. IsLogRun(g, F)
  BY <1>9, <1>10, Zenon DEF IsLogRun, e
<1> QED BY <1>8, <1>11, Zenon

(* The first m files are the same. *)
BeginAlike(E, F, G, m) ==
  /\ F \in Seq(Seq(E)) /\ G \in Seq(Seq(E))
  /\ m \in Nat /\ m <= Len(F) /\ m <= Len(G) /\ \A k \in 1 .. m : F[k] = G[k]

(* Files that begin alike have logs that begin alike. *)
LEMMA LogRunsAgree ==
  ASSUME NEW E, HaveIds(E), NEW F, NEW G, NEW m, BeginAlike(E, F, G, m),
         NEW g, IsLogRun(g, F), NEW h, IsLogRun(h, G)
  PROVE  g[m] = h[m]
<1> DEFINE T == {k \in 0 .. m : g[k] = h[k]}
<1>1. /\ Len(F) \in Nat /\ Len(G) \in Nat /\ m \in Nat /\ m <= Len(F) /\ m <= Len(G)
      /\ \A k \in 1 .. m : F[k] = G[k]
  BY ListLength DEF BeginAlike
<1>2. 0 \in T
  BY <1>1 DEF IsLogRun
<1>3. ASSUME NEW k \in 1 .. m, k - 1 \in T PROVE k \in T
  <2>1. k \in 1 .. Len(F) /\ k \in 1 .. Len(G)
    BY <1>1
  <2>2. g[k] = Behind(g[k - 1], IdsIn(F[k])) /\ h[k] = Behind(h[k - 1], IdsIn(G[k]))
    BY <2>1, Zenon DEF IsLogRun
  <2> QED BY <1>1, <1>3, <2>2
<1>4. \A k \in 0 .. m : k \in T
  <2>1. m \in Nat /\ \A k \in 1 .. m : k - 1 \in T => k \in T
    BY <1>1, <1>3
  <2> HIDE DEF T
  <2> QED BY <1>2, <2>1, IntervalInduction, Zenon
<1> QED BY <1>1, <1>4

(* One more file, without entries: the log is the same. *)
LEMMA EmptyFileAddsNothing ==
  ASSUME NEW E, HaveIds(E), NEW F \in Seq(Seq(E))
  PROVE  LogOf(Append(F, <<>>)) = LogOf(F)
<1> DEFINE G == Append(F, <<>>)
           m == Len(F)
<1>1. /\ m \in Nat /\ G \in Seq(Seq(E)) /\ Len(G) = m + 1
      /\ G[m + 1] = <<>> /\ \A k \in 1 .. m : F[k] = G[k]
  OBVIOUS
<1>2. IdsIn(<<>>) = <<>>
  BY DEF IdsIn
<1>3. PICK g : IsLogRun(g, F) /\ LogOf(F) = g[m]
  BY LogRuns
<1> HIDE DEF G
<1>4. PICK h : IsLogRun(h, G) /\ LogOf(G) = h[Len(G)]
  BY <1>1, LogRuns, Zenon
<1>5. g[m] = h[m]
  <2>1. BeginAlike(E, F, G, m)
    BY <1>1 DEF BeginAlike
  <2> HIDE DEF m
  <2> QED BY <1>3, <1>4, <2>1, LogRunsAgree
<1>6. h[m + 1] = Behind(h[m], <<>>)
  <2>1. m + 1 \in 1 .. Len(G) /\ (m + 1) - 1 = m
    BY <1>1
  <2>2. h[m + 1] = Behind(h[(m + 1) - 1], IdsIn(G[m + 1]))
    BY <1>4, <2>1, Zenon DEF IsLogRun
  <2> QED BY <1>1, <1>2, <2>1, <2>2, Zenon
<1>7. h[m] \in Seq(Nat)
  BY <1>1, <1>4 DEF IsLogRun
<1>8. Behind(h[m], <<>>) = h[m]
  BY <1>7 DEF Behind
<1> QED BY <1>1, <1>3, <1>4, <1>5, <1>6, <1>8 DEF G

(* One more entry in a file: its id comes last. *)
LEMMA IdsInAppend ==
  ASSUME NEW E, HaveIds(E), NEW f \in Seq(E), NEW r \in E
  PROVE  IdsIn(Append(f, r)) = Append(IdsIn(f), r.id)
<1> DEFINE n == Len(f)
           a == Append(f, r)
           b == Append(IdsIn(f), r.id)
<1>1. n \in Nat /\ IdsIn(f) \in Seq(Nat) /\ Len(IdsIn(f)) = n /\ r.id \in Nat
  BY IdsInProperties DEF HaveIds
<1>2. Len(a) = n + 1 /\ a[n + 1] = r /\ \A k \in 1 .. n : a[k] = f[k]
  OBVIOUS
<1>3. /\ b \in Seq(Nat) /\ Len(b) = n + 1 /\ b[n + 1] = r.id
      /\ \A k \in 1 .. n : b[k] = IdsIn(f)[k]
  BY <1>1
<1>4. \A k \in 1 .. n : IdsIn(f)[k] = f[k].id
  BY DEF IdsIn
<1> HIDE DEF n, a, b
<1>5. ASSUME NEW k \in 1 .. n + 1 PROVE b[k] = a[k].id
  <2>1. CASE k = n + 1
    BY <1>2, <1>3, <2>1, Zenon
  <2>2. CASE k # n + 1
    <3>1. k \in 1 .. n
      BY <1>1, <2>2
    <3> QED BY <1>2, <1>3, <1>4, <3>1, Zenon
  <2> QED BY <2>1, <2>2, Zenon
<1>6. b = [k \in 1 .. n + 1 |-> b[k]]
  <2>1. b \in [1 .. Len(b) -> Nat]
    BY <1>3, ListLength
  <2> QED BY <1>3, <2>1
<1>7. b = IdsIn(a)
  BY <1>2, <1>5, <1>6 DEF IdsIn
<1> QED BY <1>7 DEF a, b

LEMMA BehindAppend ==
  \A x, y \in Seq(Nat), v \in Nat : Behind(x, Append(y, v)) = Append(Behind(x, y), v)
BY DEF Behind

(* One more entry in the last file: its id is the end of the log. *)
LEMMA EntryEndsLog ==
  ASSUME NEW E, HaveIds(E), NEW F \in Seq(Seq(E)), NEW G \in Seq(Seq(E)),
         F # <<>>, Len(G) = Len(F), \A k \in 1 .. Len(F) - 1 : F[k] = G[k],
         NEW r \in E, G[Len(F)] = Append(F[Len(F)], r)
  PROVE  LogOf(G) = Append(LogOf(F), r.id)
<1> DEFINE n == Len(F)
           f == F[n]
           m == n - 1
<1>1. n \in Nat /\ n > 0 /\ f \in Seq(E) /\ m \in Nat /\ r.id \in Nat
  <2>1. n \in Nat \ {0}
    BY NoEntries
  <2>2. n \in 1 .. n
    BY <2>1
  <2> QED BY <2>1, <2>2, ListElement DEF HaveIds
<1>2. PICK g : IsLogRun(g, F) /\ LogOf(F) = g[n]
  BY LogRuns
<1>3. PICK h : IsLogRun(h, G) /\ LogOf(G) = h[n]
  BY LogRuns, Zenon
<1>4. g[m] = h[m]
  <2>1. BeginAlike(E, F, G, m)
    BY <1>1 DEF BeginAlike
  <2> HIDE DEF m
  <2> QED BY <1>2, <1>3, <2>1, LogRunsAgree
<1>5. g[n] = Behind(g[m], IdsIn(f)) /\ h[n] = Behind(g[m], IdsIn(Append(f, r)))
  <2>1. n \in 1 .. Len(F) /\ n \in 1 .. Len(G)
    BY <1>1
  <2>2. g[n] = Behind(g[n - 1], IdsIn(F[n])) /\ h[n] = Behind(h[n - 1], IdsIn(G[n]))
    BY <1>2, <1>3, <2>1, Zenon DEF IsLogRun
  <2> QED BY <1>4, <2>2
<1>6. g[m] \in Seq(Nat)
  BY <1>1, <1>2 DEF IsLogRun
<1> HIDE DEF f, n, m
<1>7. IdsIn(Append(f, r)) = Append(IdsIn(f), r.id) /\ IdsIn(f) \in Seq(Nat)
  BY <1>1, IdsInProperties, IdsInAppend
<1>8. Behind(g[m], Append(IdsIn(f), r.id)) = Append(Behind(g[m], IdsIn(f)), r.id)
  <2> DEFINE x == g[m]
             y == IdsIn(f)
             v == r.id
  <2>1. x \in Seq(Nat) /\ y \in Seq(Nat) /\ v \in Nat
    BY <1>1, <1>6, <1>7, Zenon
  <2> HIDE DEF x, y, v
  <2>2. Behind(x, Append(y, v)) = Append(Behind(x, y), v)
    BY <2>1, BehindAppend, Zenon
  <2> QED BY <2>2 DEF x, y, v
<1> QED BY <1>2, <1>3, <1>5, <1>7, <1>8 DEF n

(* The positions of a concatenation. *)
IsBehind(w, s, t) ==
  /\ Len(s) \in Nat /\ Len(t) \in Nat /\ Len(w) = Len(s) + Len(t)
  /\ \A i \in 1 .. Len(s) : w[i] = s[i]
  /\ \A j \in 1 .. Len(t) : w[Len(s) + j] = t[j]

LEMMA BehindProperties ==
  ASSUME NEW S, NEW s \in Seq(S), NEW t \in Seq(S)
  PROVE  IsBehind(Behind(s, t), s, t)
BY DEF Behind, IsBehind

(* What one file adds to the log. *)
FileAdds(g, F, k) ==
  /\ Len(g[k - 1]) \in Nat /\ Len(F[k]) \in Nat /\ Len(g[k]) = Len(g[k - 1]) + Len(F[k])
  /\ \A i \in 1 .. Len(g[k - 1]) : g[k][i] = g[k - 1][i]
  /\ \A j \in 1 .. Len(F[k]) : g[k][Len(g[k - 1]) + j] = F[k][j].id

LEMMA FileAddsIds ==
  ASSUME NEW E, HaveIds(E), NEW F \in Seq(Seq(E)), NEW g, IsLogRun(g, F), NEW k \in 1 .. Len(F)
  PROVE  FileAdds(g, F, k)
<1> DEFINE s == g[k - 1]
           f == F[k]
           t == IdsIn(f)
<1>1. Len(F) \in Nat /\ f \in Seq(E) /\ k - 1 \in 0 .. Len(F)
  BY ListLength, ListElement
<1>2. s \in Seq(Nat)
  BY <1>1, Zenon DEF IsLogRun
<1>3. g[k] = Behind(s, t)
  BY Zenon DEF IsLogRun
<1> HIDE DEF s, f
<1>4. /\ t \in Seq(Nat) /\ Len(t) = Len(f) /\ Len(f) \in Nat
      /\ \A j \in 1 .. Len(f) : t[j] = f[j].id
  BY <1>1, IdsInProperties
<1> HIDE DEF t
<1>5. IsBehind(Behind(s, t), s, t)
  BY <1>2, <1>4, BehindProperties, Zenon
<1>6. /\ Len(s) \in Nat /\ Len(f) \in Nat /\ Len(g[k]) = Len(s) + Len(f)
      /\ \A i \in 1 .. Len(s) : g[k][i] = s[i]
      /\ \A j \in 1 .. Len(f) : g[k][Len(s) + j] = f[j].id
  BY <1>3, <1>4, <1>5 DEF IsBehind
<1> QED BY <1>6 DEF FileAdds, s, f

(* The ids of the log up to file k are those of the files up to k. *)
SameIds(g, F, k) ==
  /\ \A i \in 1 .. Len(g[k]) : \E n \in 1 .. k : \E j \in 1 .. Len(F[n]) : g[k][i] = F[n][j].id
  /\ \A n \in 1 .. k : \A j \in 1 .. Len(F[n]) : \E i \in 1 .. Len(g[k]) : g[k][i] = F[n][j].id

LEMMA LogRunHasSameIds ==
  ASSUME NEW E, HaveIds(E), NEW F \in Seq(Seq(E)), NEW g, IsLogRun(g, F)
  PROVE  \A k \in 0 .. Len(F) : SameIds(g, F, k)
<1> DEFINE N == Len(F)
           T == {k \in 0 .. N : SameIds(g, F, k)}
<1>1. N \in Nat
  BY ListLength
<1>2. 0 \in T
  <2>1. g[0] = <<>> /\ 0 \in 0 .. N
    BY <1>1 DEF IsLogRun
  <2>2. Len(g[0]) = 0
    BY <2>1
  <2>3. SameIds(g, F, 0)
    BY <2>2 DEF SameIds
  <2> QED BY <2>1, <2>3
<1>3. ASSUME NEW k \in 1 .. N, k - 1 \in T PROVE k \in T
  <2> DEFINE L == Len(g[k - 1])
             M == Len(F[k])
  <2>1. /\ L \in Nat /\ M \in Nat /\ Len(g[k]) = L + M
        /\ \A i \in 1 .. L : g[k][i] = g[k - 1][i]
        /\ \A j \in 1 .. M : g[k][L + j] = F[k][j].id
    <3>1. FileAdds(g, F, k)
      BY FileAddsIds
    <3> QED BY <3>1, Zenon DEF FileAdds
  <2>2. SameIds(g, F, k - 1)
    BY <1>3
  <2> HIDE DEF L, M
  <2>3. ASSUME NEW i \in 1 .. Len(g[k])
        PROVE  \E n \in 1 .. k : \E j \in 1 .. Len(F[n]) : g[k][i] = F[n][j].id
    <3>1. CASE i <= L
      <4>1. PICK n \in 1 .. k - 1 : \E j \in 1 .. Len(F[n]) : g[k - 1][i] = F[n][j].id
        BY <2>1, <2>2, <3>1 DEF SameIds, L
      <4>2. n \in 1 .. k /\ g[k][i] = g[k - 1][i]
        BY <2>1, <3>1
      <4> QED BY <4>1, <4>2
    <3>2. CASE i > L
      <4>1. i - L \in 1 .. M /\ L + (i - L) = i /\ k \in 1 .. k
        BY <2>1, <3>2
      <4>2. g[k][i] = F[k][i - L].id
        BY <2>1, <4>1
      <4> QED BY <4>1, <4>2 DEF M
    <3> QED BY <2>1, <3>1, <3>2
  <2>4. ASSUME NEW n \in 1 .. k, NEW j \in 1 .. Len(F[n])
        PROVE  \E i \in 1 .. Len(g[k]) : g[k][i] = F[n][j].id
    <3>1. CASE n # k
      <4>1. n \in 1 .. k - 1
        BY <3>1
      <4>2. PICK i \in 1 .. L : g[k - 1][i] = F[n][j].id
        BY <2>2, <4>1 DEF SameIds, L
      <4>3. i \in 1 .. Len(g[k])
        BY <2>1
      <4>4. g[k][i] = g[k - 1][i]
        BY <2>1, Zenon
      <4> QED BY <4>2, <4>3, <4>4, Zenon
    <3>2. CASE n = k
      <4>1. L + j \in 1 .. Len(g[k]) /\ g[k][L + j] = F[n][j].id
        BY <2>1, <3>2 DEF M
      <4> QED BY <4>1
    <3> QED BY <3>1, <3>2
  <2>5. SameIds(g, F, k)
    BY <2>3, <2>4, Zenon DEF SameIds
  <2>6. k \in 0 .. N
    BY <1>1
  <2> QED BY <2>5, <2>6
<1>4. \A k \in 0 .. N : k \in T
  <2>1. N \in Nat /\ \A k \in 1 .. N : k - 1 \in T => k \in T
    BY <1>1, <1>3
  <2> HIDE DEF T, N
  <2> QED BY <1>2, <2>1, IntervalInduction, Zenon
<1> QED BY <1>4

(* If the ids ascend from file to file, so they do in the log. *)
LogAscends(g, k) == \A i, j \in 1 .. Len(g[k]) : i < j => g[k][i] < g[k][j]

LEMMA LogRunAscends ==
  ASSUME NEW E, HaveIds(E), NEW F \in Seq(Seq(E)), NEW g, IsLogRun(g, F), Ascending(F)
  PROVE  \A k \in 0 .. Len(F) : LogAscends(g, k)
<1> DEFINE N == Len(F)
           T == {k \in 0 .. N : LogAscends(g, k)}
<1>1. N \in Nat
  BY ListLength
<1>2. 0 \in T
  <2>1. g[0] = <<>> /\ 0 \in 0 .. N
    BY <1>1 DEF IsLogRun
  <2>2. Len(g[0]) = 0
    BY <2>1
  <2>3. LogAscends(g, 0)
    BY <2>2 DEF LogAscends
  <2> QED BY <2>1, <2>3
<1>3. ASSUME NEW k \in 1 .. N, k - 1 \in T PROVE k \in T
  <2> DEFINE L == Len(g[k - 1])
             M == Len(F[k])
  <2>1. /\ L \in Nat /\ M \in Nat /\ Len(g[k]) = L + M
        /\ \A i \in 1 .. L : g[k][i] = g[k - 1][i]
        /\ \A j \in 1 .. M : g[k][L + j] = F[k][j].id
    <3>1. FileAdds(g, F, k)
      BY FileAddsIds
    <3> QED BY <3>1, Zenon DEF FileAdds
  <2>2. LogAscends(g, k - 1) /\ SameIds(g, F, k - 1)
    <3>1. k - 1 \in 0 .. N
      BY <1>1
    <3> QED BY <1>3, <3>1, LogRunHasSameIds
  <2> HIDE DEF L, M
  <2>3. ASSUME NEW i \in 1 .. Len(g[k]), NEW j \in 1 .. Len(g[k]), i < j
        PROVE  g[k][i] < g[k][j]
    <3>1. CASE j <= L
      <4>1. i \in 1 .. L /\ j \in 1 .. L
        BY <2>1, <2>3, <3>1
      <4>2. g[k - 1][i] < g[k - 1][j]
        BY <2>2, <2>3, <4>1, Zenon DEF LogAscends, L
      <4> QED BY <2>1, <4>1, <4>2
    <3>2. CASE j > L
      <4>1. j - L \in 1 .. M /\ g[k][j] = F[k][j - L].id
        <5>1. j - L \in 1 .. M /\ L + (j - L) = j
          BY <2>1, <3>2
        <5> QED BY <2>1, <5>1
      <4>2. CASE i <= L
        <5>0. i \in 1 .. L
          BY <2>1, <4>2
        <5>1. PICK n \in 1 .. k - 1 : \E a \in 1 .. Len(F[n]) : g[k - 1][i] = F[n][a].id
          BY <2>2, <5>0, Zenon DEF SameIds, L
        <5>2. PICK a \in 1 .. Len(F[n]) : g[k - 1][i] = F[n][a].id
          BY <5>1
        <5>3. n \in 1 .. N /\ n < k /\ k \in 1 .. N
          BY <1>1
        <5>4. F[n][a].id < F[k][j - L].id
          BY <4>1, <5>3, Zenon DEF Ascending, M
        <5>5. g[k][i] = g[k - 1][i]
          BY <2>1, <4>2
        <5> QED BY <4>1, <5>2, <5>4, <5>5
      <4>3. CASE i > L
        <5>1. i - L \in 1 .. M /\ L + (i - L) = i /\ i - L < j - L
          BY <2>1, <2>3, <4>3
        <5>2. g[k][i] = F[k][i - L].id
          BY <2>1, <5>1
        <5>3. F[k][i - L].id < F[k][j - L].id
          BY <4>1, <5>1, Zenon DEF Ascending, M
        <5> QED BY <4>1, <5>2, <5>3
      <4> QED BY <2>1, <4>2, <4>3
    <3> QED BY <2>1, <3>1, <3>2
  <2>4. LogAscends(g, k)
    BY <2>3, Zenon DEF LogAscends
  <2>5. k \in 0 .. N
    BY <1>1
  <2> QED BY <2>4, <2>5
<1>4. \A k \in 0 .. N : k \in T
  <2>1. N \in Nat /\ \A k \in 1 .. N : k - 1 \in T => k \in T
    BY <1>1, <1>3
  <2> HIDE DEF T, N
  <2> QED BY <1>2, <2>1, IntervalInduction, Zenon
<1> QED BY <1>4

(* Full files make a log of a multiple of their size. *)
LEMMA LogRunLength ==
  ASSUME NEW E, HaveIds(E), NEW F \in Seq(Seq(E)), NEW g, IsLogRun(g, F), NEW m \in Nat, FullBefore(F, m)
  PROVE  Len(g[Len(F)]) = Count(F, m)
<1> DEFINE N == Len(F)
           T == {k \in 0 .. N : k < N => Len(g[k]) = k * m}
<1>1. N \in Nat /\ m \in Nat
  BY ListLength
<1>2. 0 \in T
  <2>1. g[0] = <<>> /\ 0 \in 0 .. N
    BY <1>1 DEF IsLogRun
  <2>2. Len(g[0]) = 0 /\ 0 * m = 0
    BY <1>1, <2>1
  <2> QED BY <2>1, <2>2
<1>3. ASSUME NEW k \in 1 .. N, k - 1 \in T PROVE k \in T
  <2>1. k \in 0 .. N
    BY <1>1
  <2>2. ASSUME k < N PROVE Len(g[k]) = k * m
    <3>1. Len(g[k - 1]) = (k - 1) * m
      BY <1>1, <1>3, <2>2
    <3>2. Len(F[k]) = m
      BY <2>2 DEF FullBefore
    <3>3. Len(g[k]) = (k - 1) * m + m
      <4>1. Len(g[k]) = Len(g[k - 1]) + Len(F[k])
        <5>1. FileAdds(g, F, k)
          BY FileAddsIds
        <5> QED BY <5>1, Zenon DEF FileAdds
      <4> QED BY <3>1, <3>2, <4>1, Zenon
    <3>4. (k - 1) * m + m = k * m
      BY <1>1
    <3> QED BY <3>3, <3>4
  <2> QED BY <2>1, <2>2
<1>4. \A k \in 0 .. N : k \in T
  <2>1. N \in Nat /\ \A k \in 1 .. N : k - 1 \in T => k \in T
    BY <1>1, <1>3
  <2> HIDE DEF T, N
  <2> QED BY <1>2, <2>1, IntervalInduction, Zenon
<1>5. CASE F = <<>>
  <2>1. N = 0 /\ Count(F, m) = 0
    BY <1>5 DEF Count
  <2>2. g[0] = <<>>
    BY DEF IsLogRun
  <2> QED BY <2>1, <2>2
<1>6. CASE F # <<>>
  <2>1. N > 0 /\ N \in 1 .. N /\ N - 1 \in 0 .. N
    BY <1>1, <1>6, NoEntries
  <2>2. Len(g[N - 1]) = (N - 1) * m
    <3>1. N - 1 < N
      BY <1>1
    <3>2. N - 1 \in T
      BY <1>4, <2>1, Zenon
    <3> QED BY <3>1, <3>2
  <2>3. Len(g[N]) = Len(g[N - 1]) + Len(F[N])
    <3>1. FileAdds(g, F, N)
      BY <2>1, FileAddsIds
    <3> QED BY <3>1, Zenon DEF FileAdds
  <2> QED BY <1>6, <2>2, <2>3, Zenon DEF Count
<1> QED BY <1>5, <1>6

(* The log of files that are full up to the last one and whose ids ascend. *)
LEMMA LogProperties ==
  ASSUME NEW E, HaveIds(E), NEW F \in Seq(Seq(E)), Ascending(F), NEW m \in Nat, FullBefore(F, m)
  PROVE  /\ LogOf(F) \in Seq(Nat) /\ Len(LogOf(F)) = Count(F, m)
         /\ \A i \in 1 .. Len(LogOf(F)) : \E n \in 1 .. Len(F) : \E k \in 1 .. Len(F[n]) :
              LogOf(F)[i] = F[n][k].id
         /\ \A n \in 1 .. Len(F) : \A k \in 1 .. Len(F[n]) : \E i \in 1 .. Len(LogOf(F)) :
              LogOf(F)[i] = F[n][k].id
         /\ \A i, j \in 1 .. Len(LogOf(F)) : i < j => LogOf(F)[i] < LogOf(F)[j]
<1> DEFINE N == Len(F)
           l == LogOf(F)
<1>1. N \in Nat /\ N \in 0 .. N
  BY ListLength
<1>2. PICK g : IsLogRun(g, F) /\ l = g[N]
  BY LogRuns
<1> HIDE DEF l, N
<1>3. l \in Seq(Nat)
  BY <1>1, <1>2, Zenon DEF IsLogRun, N
<1>4. SameIds(g, F, N)
  BY <1>1, <1>2, LogRunHasSameIds, Zenon DEF N
<1>5. LogAscends(g, N)
  BY <1>1, <1>2, LogRunAscends, Zenon DEF N
<1>6. Len(l) = Count(F, m)
  BY <1>2, LogRunLength, Zenon DEF N
<1>7. /\ \A i \in 1 .. Len(l) : \E n \in 1 .. N : \E k \in 1 .. Len(F[n]) : l[i] = F[n][k].id
      /\ \A n \in 1 .. N : \A k \in 1 .. Len(F[n]) : \E i \in 1 .. Len(l) : l[i] = F[n][k].id
  BY <1>2, <1>4, Zenon DEF SameIds
<1>8. \A i, j \in 1 .. Len(l) : i < j => l[i] < l[j]
  BY <1>2, <1>5, Zenon DEF LogAscends
<1> QED BY <1>3, <1>6, <1>7, <1>8, Zenon DEF l, N

-----------------------------------------------------------------------------
(* All propositions of module IndexListFacts hold. *)
LEMMA ListFactsHold == ListFacts
<1>1. InsertElemFact
  BY InsertElemProperties, Zenon DEF InsertElemFact
<1>2. InsertLastFact
  BY InsertLast, Zenon DEF InsertLastFact
<1>3. InsertAllFact
  <2>1. ASSUME NEW E, HaveIds(E), NEW s \in Seq(E), NEW t \in Seq(E), SortedById(s)
        PROVE  /\ InsertAll(s, t) \in Seq(E)
               /\ SortedById(InsertAll(s, t))
               /\ Elements(InsertAll(s, t)) = Elements(s) \union Elements(t)
    BY <2>1, InsertAllProperties, Zenon
  <2> QED BY <2>1, Zenon DEF InsertAllFact
<1>4. InsertAllIntoEmptyFact
  BY InsertAllIntoEmpty, Zenon DEF InsertAllIntoEmptyFact
<1>5. InsertSortedFact
  BY InsertSorted, Zenon DEF InsertSortedFact
<1>6. ExtractFact
  BY ExtractProperties, Zenon DEF ExtractFact
<1>7. InductionFact
  BY IntervalInduction, Zenon DEF InductionFact
<1>8. RecursionFact
  BY RecursionExists, Zenon DEF RecursionFact
<1>9. SubsetFact
  BY IntervalSubset, Zenon DEF SubsetFact
<1>10. CountFact
  BY IncreasingCount, Zenon DEF CountFact
<1>11. EmptyFileFact
  BY EmptyFileAddsNothing, Zenon DEF EmptyFileFact
<1>12. NewEntryFact
  BY EntryEndsLog, Zenon DEF NewEntryFact
<1>13. LogFact
  BY LogProperties, Zenon DEF LogFact
<1> QED
  BY <1>1, <1>2, <1>3, <1>4, <1>5, <1>6, <1>7, <1>8, <1>9, <1>10, <1>11, <1>12, <1>13, Zenon
  DEF ListFacts
=============================================================================
