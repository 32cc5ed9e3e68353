---------------------------- MODULE RouterProofs ----------------------------
(***************************************************************************)
(* The inductive invariant of module Router, and what follows from it.     *)
(***************************************************************************)
EXTENDS Router, TLAPS

(* Lemmas about sequences *)

(* A sequence is a function on an initial interval of the numbers. *)
LEMMA SeqLength ==
  ASSUME NEW S, NEW s \in Seq(S)
  PROVE  Len(s) \in Nat /\ s \in [1 .. Len(s) -> S] /\ DOMAIN s = 1 .. Len(s)
OBVIOUS

LEMMA SeqElement == ASSUME NEW S, NEW s \in Seq(S), NEW k \in 1 .. Len(s) PROVE s[k] \in S
OBVIOUS

LEMMA FunctionIsSeq == ASSUME NEW S, NEW n \in Nat, NEW f \in [1 .. n -> S]
                       PROVE  f \in Seq(S) /\ Len(f) = n
OBVIOUS

LEMMA SeqAppend ==
  ASSUME NEW S, NEW s \in Seq(S), NEW x \in S
  PROVE  /\ Append(s, x) \in Seq(S) /\ Append(s, x) # <<>> /\ Len(Append(s, x)) = Len(s) + 1
         /\ \A k \in 1 .. Len(s) : Append(s, x)[k] = s[k]
         /\ Append(s, x)[Len(s) + 1] = x
OBVIOUS

LEMMA SeqTail ==
  ASSUME NEW S, NEW s \in Seq(S), s # <<>>
  PROVE  /\ Head(s) \in S /\ Tail(s) \in Seq(S) /\ Len(Tail(s)) = Len(s) - 1
         /\ \A k \in 1 .. Len(Tail(s)) : Tail(s)[k] = s[k + 1]
OBVIOUS
-----------------------------------------------------------------------------
(* Lemmas about slices *)

(* Removing position i keeps the other elements, in order. *)
LEMMA RemoveAtProperties ==
  \A s \in Seq(Routes) : \A i \in 1 .. Len(s) :
    /\ RemoveAt(s, i) \in Seq(Routes)
    /\ Len(RemoveAt(s, i)) = Len(s) - 1
    /\ \A j \in 1 .. Len(s) - 1 :
         RemoveAt(s, i)[j] = IF j < i THEN s[j] ELSE s[j + 1]
<1> SUFFICES ASSUME NEW s \in Seq(Routes), NEW i \in 1 .. Len(s)
             PROVE  /\ RemoveAt(s, i) \in Seq(Routes)
                    /\ Len(RemoveAt(s, i)) = Len(s) - 1
                    /\ \A j \in 1 .. Len(s) - 1 :
                         RemoveAt(s, i)[j] = IF j < i THEN s[j] ELSE s[j + 1]
  OBVIOUS
<1>1. Len(s) \in Nat /\ Len(s) - 1 \in Nat
  BY SeqLength
<1>2. \A j \in 1 .. Len(s) - 1 : (IF j < i THEN s[j] ELSE s[j + 1]) \in Routes
  BY <1>1, SeqElement
<1>3. RemoveAt(s, i) \in [1 .. Len(s) - 1 -> Routes]
  BY <1>2 DEF RemoveAt
<1>4. RemoveAt(s, i) \in Seq(Routes)
  BY <1>1, <1>3, FunctionIsSeq
<1>5. Len(RemoveAt(s, i)) = Len(s) - 1
  BY <1>1, <1>3, <1>4, SeqLength
<1> QED BY <1>4, <1>5 DEF RemoveAt

(* The in-place shift keeps the length of the array and invents nothing. *)
LEMMA ShiftAtProperties ==
  \A a \in Seq(Routes) : \A i, n \in Nat : n <= Len(a) /\ i # 0 =>
    /\ ShiftAt(a, i, n) \in Seq(Routes)
    /\ Len(ShiftAt(a, i, n)) = Len(a)
    /\ \A j \in 1 .. Len(a) : \E k \in 1 .. Len(a) : ShiftAt(a, i, n)[j] = a[k]
<1> SUFFICES ASSUME NEW a \in Seq(Routes), NEW i \in Nat, NEW n \in Nat,
                    n <= Len(a), i # 0
             PROVE  /\ ShiftAt(a, i, n) \in Seq(Routes)
                    /\ Len(ShiftAt(a, i, n)) = Len(a)
                    /\ \A j \in 1 .. Len(a) : \E k \in 1 .. Len(a) :
                         ShiftAt(a, i, n)[j] = a[k]
  BY Zenon
<1>1. Len(a) \in Nat
  BY SeqLength
<1>2. \A j \in 1 .. Len(a) :
        (IF i <= j /\ j < n THEN a[j + 1] ELSE a[j]) \in Routes
  BY <1>1, SeqElement
<1>3. ShiftAt(a, i, n) \in [1 .. Len(a) -> Routes]
  BY <1>2 DEF ShiftAt
<1>4. ShiftAt(a, i, n) \in Seq(Routes)
  BY <1>1, <1>3, FunctionIsSeq
<1>5. Len(ShiftAt(a, i, n)) = Len(a)
  BY <1>1, <1>3, <1>4, SeqLength
<1>6. \A j \in 1 .. Len(a) : \E k \in 1 .. Len(a) : ShiftAt(a, i, n)[j] = a[k]
  <2> TAKE j \in 1 .. Len(a)
  <2>1. CASE i <= j /\ j < n
    <3>1. j + 1 \in 1 .. Len(a) /\ ShiftAt(a, i, n)[j] = a[j + 1]
      BY <1>1, <2>1 DEF ShiftAt
    <3> QED BY <3>1
  <2>2. CASE ~(i <= j /\ j < n)
    <3>1. ShiftAt(a, i, n)[j] = a[j]
      BY <2>2 DEF ShiftAt
    <3> QED BY <3>1
  <2> QED BY <2>1, <2>2
<1> QED BY <1>4, <1>5, <1>6

(* In a slice without equal routes, removeIfMatching finds a position      *)
(* exactly when there is an equal route, and then that one.                *)
LEMMA MatchProperties ==
  ASSUME TypeOK, NoDoubleSubscription, NEW r \in Routes
  PROVE  LET s == routes[RoutePath[r]] IN
         /\ Match(s, r) \subseteq 1 .. Len(s)
         /\ \A i \in Match(s, r) : Equal(s[i], r)
         /\ \A i \in 1 .. Len(s) : Equal(s[i], r) => i \in Match(s, r)
<1> DEFINE s == routes[RoutePath[r]]
<1>1. RoutePath[r] \in Paths
  BY RouterAssumption
<1>2. s \in Seq(Routes) /\ Len(s) \in Nat
  BY <1>1, SeqLength DEF TypeOK
<1>3. \A i, j \in 1 .. Len(s) : Equal(s[i], s[j]) => i = j
  BY <1>1 DEF NoDoubleSubscription
<1>4. \A i, j \in 1 .. Len(s) : Equal(s[i], r) /\ Equal(s[j], r) => i = j
  BY <1>3 DEF Equal
<1>5. ASSUME NEW i \in 1 .. Len(s), Equal(s[i], r)
      PROVE  i \in Match(s, r)
  <2>1. \A j \in 1 .. i - 1 : j \in 1 .. Len(s) /\ j # i
    BY <1>2
  <2>2. \A j \in 1 .. i - 1 : ~Equal(s[j], r)
    BY <1>4, <1>5, <2>1
  <2> QED BY <1>5, <2>2 DEF Match
<1> QED BY <1>5 DEF Match
-----------------------------------------------------------------------------
(* The two changes of the table *)

(* What the table may be after an unsubscribe of r. *)
LEMMA UnsubscribeTable ==
  ASSUME TypeOK, NoDoubleSubscription, NEW r \in Routes, DoUnsubscribe(r)
  PROVE  /\ routes' \in [Paths -> Seq(Routes)]
         /\ mCurrentRoutes' \in Int /\ mCurrentSubscriptions' \in Int
         /\ NoDoubleSubscription'
         /\ \A p \in Paths : \A i \in 1 .. Len(routes'[p]) :
              /\ routes'[p][i] # r
              /\ \E j \in 1 .. Len(routes[p]) : routes'[p][i] = routes[p][j]
         /\ \A p \in Paths : Len(routes'[p]) <= Len(routes[p])
         /\ \A p \in Paths : \A j \in 1 .. Len(routes[p]) :
              \/ Equal(routes[p][j], r)
              \/ \E i \in 1 .. Len(routes'[p]) : routes'[p][i] = routes[p][j]
<1> DEFINE q == RoutePath[r]
           s == routes[q]
<1>1. /\ q \in Paths /\ s \in Seq(Routes) /\ Len(s) \in Nat
      /\ routes \in [Paths -> Seq(Routes)]
      /\ mCurrentRoutes \in Int /\ mCurrentSubscriptions \in Int
      /\ \A p \in Paths : Len(routes[p]) \in Nat
  BY RouterAssumption, SeqLength DEF TypeOK
<1>2. \A p \in Paths : \A i, j \in 1 .. Len(routes[p]) :
        RoutePath[routes[p][i]] = p /\ (Equal(routes[p][i], routes[p][j]) => i = j)
  BY DEF NoDoubleSubscription
<1>3. CASE Match(s, r) = {}
  <2>1. UNCHANGED <<routes, mCurrentRoutes, mCurrentSubscriptions>>
    BY <1>3 DEF DoUnsubscribe, tableVars
  <2>2. \A p \in Paths : \A i \in 1 .. Len(routes[p]) : routes[p][i] # r
    BY <1>2, <1>3, MatchProperties DEF Equal
  <2>3. NoDoubleSubscription'
    BY <2>1 DEF NoDoubleSubscription
  <2> QED BY <1>1, <2>1, <2>2, <2>3
<1>4. CASE Match(s, r) # {}
  <2> DEFINE k == CHOOSE i \in Match(s, r) : TRUE
             t == RemoveAt(s, k)
  <2>1. k \in 1 .. Len(s) /\ Equal(s[k], r)
    BY <1>4, MatchProperties
  <2>2. /\ t \in Seq(Routes) /\ Len(t) = Len(s) - 1
        /\ \A j \in 1 .. Len(s) - 1 : t[j] = IF j < k THEN s[j] ELSE s[j + 1]
    BY <1>1, <2>1, RemoveAtProperties, Zenon
  <2>3. /\ routes' = [routes EXCEPT ![q] = t]
        /\ mCurrentSubscriptions' = mCurrentSubscriptions - 1
        /\ mCurrentRoutes' = mCurrentRoutes - (IF Len(s) = 1 THEN 1 ELSE 0)
    BY <1>4 DEF DoUnsubscribe
  <2> HIDE DEF k, t
  <2>4. /\ routes' \in [Paths -> Seq(Routes)]
        /\ mCurrentRoutes' \in Int /\ mCurrentSubscriptions' \in Int
    BY <1>1, <2>2, <2>3
  <2>5. routes'[q] = t /\ \A p \in Paths \ {q} : routes'[p] = routes[p]
    BY <1>1, <2>3
  <2>6. \A i \in 1 .. Len(t) : \E j \in 1 .. Len(s) : t[i] = s[j] /\ j # k
    <3> TAKE i \in 1 .. Len(t)
    <3>1. CASE i < k
      BY <1>1, <2>1, <2>2, <3>1
    <3>2. CASE ~(i < k)
      <4>1. i + 1 \in 1 .. Len(s) /\ i + 1 # k /\ t[i] = s[i + 1]
        BY <1>1, <2>1, <2>2, <3>2
      <4> QED BY <4>1
    <3> QED BY <3>1, <3>2
  <2>7. \A i \in 1 .. Len(t) : t[i] # r /\ RoutePath[t[i]] = q
    <3> TAKE i \in 1 .. Len(t)
    <3>1. PICK j \in 1 .. Len(s) : t[i] = s[j] /\ j # k
      BY <2>6
    <3>2. RoutePath[s[j]] = q
      BY <1>1, <1>2
    <3>3. Equal(s[k], s[j]) => k = j
      BY <1>1, <1>2, <2>1
    <3>4. s[j] = r => Equal(s[k], s[j])
      BY <2>1
    <3> QED BY <3>1, <3>2, <3>3, <3>4
  <2>8. \A i, j \in 1 .. Len(t) : Equal(t[i], t[j]) => i = j
    <3> SUFFICES ASSUME NEW i \in 1 .. Len(t), NEW j \in 1 .. Len(t),
                        Equal(t[i], t[j])
                 PROVE  i = j
      OBVIOUS
    <3> DEFINE f(x) == IF x < k THEN x ELSE x + 1
    <3>1. /\ f(i) \in 1 .. Len(s) /\ f(j) \in 1 .. Len(s)
          /\ t[i] = s[f(i)] /\ t[j] = s[f(j)]
      BY <1>1, <2>1, <2>2
    <3>2. f(i) = f(j)
      BY <1>1, <1>2, <3>1
    <3> QED BY <1>1, <2>1, <2>2, <3>2
  <2>9. NoDoubleSubscription'
    BY <1>2, <2>5, <2>7, <2>8 DEF NoDoubleSubscription, Equal
  <2>10. \A p \in Paths : \A i \in 1 .. Len(routes'[p]) :
           /\ routes'[p][i] # r
           /\ \E j \in 1 .. Len(routes[p]) : routes'[p][i] = routes[p][j]
    <3> TAKE p \in Paths
    <3>1. CASE p = q
      BY <2>5, <2>6, <2>7, <3>1
    <3>2. CASE p # q
      BY <1>2, <2>5, <3>2
    <3> QED BY <3>1, <3>2, Zenon
  <2>11. \A p \in Paths : Len(routes'[p]) <= Len(routes[p])
    BY <1>1, <2>2, <2>5
  <2>12. \A p \in Paths : \A j \in 1 .. Len(routes[p]) :
           \/ Equal(routes[p][j], r)
           \/ \E i \in 1 .. Len(routes'[p]) : routes'[p][i] = routes[p][j]
    <3> TAKE p \in Paths
    <3>1. CASE p = q
      <4> SUFFICES ASSUME NEW j \in 1 .. Len(s), j # k
                   PROVE  \E i \in 1 .. Len(t) : t[i] = s[j]
        BY <2>1, <2>5, <3>1
      <4>1. CASE j < k
        <5>1. j \in 1 .. Len(t) /\ t[j] = s[j]
          BY <1>1, <2>1, <2>2, <4>1
        <5> QED BY <5>1
      <4>2. CASE j > k
        <5>1. j - 1 \in 1 .. Len(t) /\ t[j - 1] = s[j]
          BY <1>1, <2>1, <2>2, <4>2
        <5> QED BY <5>1
      <4> QED BY <1>1, <2>1, <4>1, <4>2
    <3>2. CASE p # q
      BY <2>5, <3>2
    <3> QED BY <3>1, <3>2
  <2> QED BY <2>4, <2>9, <2>10, <2>11, <2>12
<1> QED BY <1>3, <1>4

(* What the table may be after a subscribe of r. *)
LEMMA SubscribeTable ==
  ASSUME TypeOK, NoDoubleSubscription, NEW r \in Routes, DoSubscribe(r)
  PROVE  /\ routes' \in [Paths -> Seq(Routes)]
         /\ mCurrentRoutes' \in Int /\ mCurrentSubscriptions' \in Int
         /\ NoDoubleSubscription'
         /\ \A p \in Paths : \A i \in 1 .. Len(routes'[p]) :
              \/ routes'[p][i] = r
              \/ \E j \in 1 .. Len(routes[p]) : routes'[p][i] = routes[p][j]
         /\ \E i \in 1 .. Len(routes'[RoutePath[r]]) : routes'[RoutePath[r]][i] = r
         /\ \A p \in Paths : \A j \in 1 .. Len(routes[p]) :
              \/ Equal(routes[p][j], r)
              \/ \E i \in 1 .. Len(routes'[p]) : routes'[p][i] = routes[p][j]
<1> DEFINE q == RoutePath[r]
           s == routes[q]
           kept == IF Match(s, r) = {} THEN s
                   ELSE RemoveAt(s, CHOOSE i \in Match(s, r) : TRUE)
<1>1. /\ q \in Paths /\ s \in Seq(Routes) /\ Len(s) \in Nat
      /\ routes \in [Paths -> Seq(Routes)]
      /\ mCurrentRoutes \in Int /\ mCurrentSubscriptions \in Int
      /\ \A p \in Paths : Len(routes[p]) \in Nat
  BY RouterAssumption, SeqLength DEF TypeOK
<1>2. \A p \in Paths : \A i, j \in 1 .. Len(routes[p]) :
        RoutePath[routes[p][i]] = p /\ (Equal(routes[p][i], routes[p][j]) => i = j)
  BY DEF NoDoubleSubscription
<1>3. /\ kept \in Seq(Routes) /\ Len(kept) \in Nat
      /\ \A i \in 1 .. Len(kept) :
           ~Equal(kept[i], r) /\ \E j \in 1 .. Len(s) : kept[i] = s[j]
      /\ \A i, j \in 1 .. Len(kept) : Equal(kept[i], kept[j]) => i = j
      /\ \A j \in 1 .. Len(s) :
           Equal(s[j], r) \/ \E i \in 1 .. Len(kept) : kept[i] = s[j]
  <2>1. CASE Match(s, r) = {}
    BY <1>1, <1>2, <2>1, MatchProperties
  <2>2. CASE Match(s, r) # {}
    <3> DEFINE k == CHOOSE i \in Match(s, r) : TRUE
    <3>1. k \in 1 .. Len(s) /\ Equal(s[k], r)
      BY <2>2, MatchProperties
    <3>2. kept = RemoveAt(s, k)
      BY <2>2
    <3>3. /\ kept \in Seq(Routes) /\ Len(kept) = Len(s) - 1
          /\ \A j \in 1 .. Len(s) - 1 :
               kept[j] = IF j < k THEN s[j] ELSE s[j + 1]
      BY <1>1, <3>1, <3>2, RemoveAtProperties, ZenonT(60)
    <3> HIDE DEF k, kept
    <3> DEFINE f(x) == IF x < k THEN x ELSE x + 1
    <3>4. \A i \in 1 .. Len(kept) :
            f(i) \in 1 .. Len(s) /\ f(i) # k /\ kept[i] = s[f(i)]
      BY <1>1, <3>1, <3>3
    <3>5. \A i, j \in 1 .. Len(kept) : f(i) = f(j) => i = j
      BY <1>1, <3>1, <3>3
    <3> HIDE DEF f
    <3>6. \A i \in 1 .. Len(kept) : ~Equal(kept[i], r)
      <4>1. \A i \in 1 .. Len(s) : Equal(s[i], r) => Equal(s[i], s[k])
        BY <3>1 DEF Equal
      <4>2. \A i \in 1 .. Len(s) : Equal(s[i], r) => i = k
        BY <1>1, <1>2, <3>1, <4>1
      <4> QED BY <3>4, <4>2
    <3>7. \A i, j \in 1 .. Len(kept) : Equal(kept[i], kept[j]) => i = j
      BY <1>1, <1>2, <3>4, <3>5
    <3>8. \A j \in 1 .. Len(s) :
            Equal(s[j], r) \/ \E i \in 1 .. Len(kept) : kept[i] = s[j]
      <4> SUFFICES ASSUME NEW j \in 1 .. Len(s), j # k
                   PROVE  \E i \in 1 .. Len(kept) : kept[i] = s[j]
        BY <3>1
      <4>1. CASE j < k
        <5>1. j \in 1 .. Len(kept) /\ kept[j] = s[j]
          BY <1>1, <3>1, <3>3, <4>1
        <5> QED BY <5>1
      <4>2. CASE j > k
        <5>1. j - 1 \in 1 .. Len(kept) /\ kept[j - 1] = s[j]
          BY <1>1, <3>1, <3>3, <4>2
        <5> QED BY <5>1
      <4> QED BY <1>1, <3>1, <4>1, <4>2
    <3> QED BY <1>1, <3>1, <3>3, <3>4, <3>6, <3>7, <3>8
  <2> QED BY <2>1, <2>2, Zenon
<1>4. /\ routes' = [routes EXCEPT ![q] = Append(kept, r)]
      /\ mCurrentRoutes' \in Int /\ mCurrentSubscriptions' \in Int
  BY <1>1 DEF DoSubscribe
<1> HIDE DEF kept
<1> DEFINE t == Append(kept, r)
<1>5. /\ t \in Seq(Routes) /\ Len(t) = Len(kept) + 1
      /\ \A i \in 1 .. Len(kept) : t[i] = kept[i]
      /\ t[Len(kept) + 1] = r
  BY <1>3, SeqAppend
<1>6. routes' \in [Paths -> Seq(Routes)] /\ routes' = [routes EXCEPT ![q] = t]
  BY <1>1, <1>4, <1>5
<1> HIDE DEF t
<1>7. routes'[q] = t /\ \A p \in Paths \ {q} : routes'[p] = routes[p]
  BY <1>1, <1>6
<1>8. \A i \in 1 .. Len(t) : i \in 1 .. Len(kept) \/ (i = Len(kept) + 1 /\ t[i] = r)
  BY <1>3, <1>5
<1>9. \A i \in 1 .. Len(t) :
        t[i] = r \/ \E j \in 1 .. Len(s) : t[i] = s[j]
  <2> TAKE i \in 1 .. Len(t)
  <2>1. CASE i \in 1 .. Len(kept)
    <3>1. t[i] = kept[i]
      BY <1>5, <2>1
    <3>2. \E j \in 1 .. Len(s) : kept[i] = s[j]
      BY <1>3, <2>1, Zenon
    <3> QED BY <3>1, <3>2
  <2> QED BY <1>8, <2>1
<1>10. \A i \in 1 .. Len(t) : RoutePath[t[i]] = q
  <2>1. \A j \in 1 .. Len(s) : RoutePath[s[j]] = q
    BY <1>1, <1>2
  <2> HIDE DEF s
  <2> TAKE i \in 1 .. Len(t)
  <2>2. CASE t[i] = r
    BY <2>2
  <2>3. ASSUME NEW j \in 1 .. Len(s), t[i] = s[j] PROVE RoutePath[t[i]] = q
    BY <2>1, <2>3
  <2> QED BY <1>9, <2>2, <2>3, Zenon
<1>11. \A i, j \in 1 .. Len(t) : Equal(t[i], t[j]) => i = j
  <2> SUFFICES ASSUME NEW i \in 1 .. Len(t), NEW j \in 1 .. Len(t),
                      Equal(t[i], t[j])
               PROVE  i = j
    OBVIOUS
  <2>1. \A k \in 1 .. Len(t) : k \in 1 .. Len(kept) \/ k = Len(kept) + 1
    BY <1>3, <1>5
  <2>2. Equal(t[j], t[i])
    BY DEF Equal
  <2>3. CASE i \in 1 .. Len(kept) /\ j \in 1 .. Len(kept)
    <3>1. t[i] = kept[i] /\ t[j] = kept[j]
      BY <1>5, <2>3
    <3> QED BY <1>3, <2>3, <3>1
  <2>4. ASSUME NEW x \in 1 .. Len(kept) PROVE ~Equal(t[x], r)
    <3>1. t[x] = kept[x]
      BY <1>5
    <3> QED BY <1>3, <3>1
  <2> QED BY <1>5, <2>1, <2>2, <2>3, <2>4
<1>12. NoDoubleSubscription'
  BY <1>2, <1>7, <1>10, <1>11 DEF NoDoubleSubscription, Equal
<1>13. \A p \in Paths : \A i \in 1 .. Len(routes'[p]) :
         \/ routes'[p][i] = r
         \/ \E j \in 1 .. Len(routes[p]) : routes'[p][i] = routes[p][j]
  <2> TAKE p \in Paths
  <2>1. CASE p = q
    BY <1>7, <1>9, <2>1
  <2>2. CASE p # q
    BY <1>7, <2>2
  <2> QED BY <2>1, <2>2
<1>14. /\ Len(kept) + 1 \in 1 .. Len(t) /\ 1 .. Len(kept) \subseteq 1 .. Len(t)
  BY <1>3, <1>5
<1>15. \E i \in 1 .. Len(routes'[q]) : routes'[q][i] = r
  BY <1>5, <1>7, <1>14
<1>16. \A p \in Paths : \A j \in 1 .. Len(routes[p]) :
         \/ Equal(routes[p][j], r)
         \/ \E i \in 1 .. Len(routes'[p]) : routes'[p][i] = routes[p][j]
  <2> TAKE p \in Paths
  <2>1. CASE p = q
    <3> SUFFICES ASSUME NEW j \in 1 .. Len(s), ~Equal(s[j], r)
                 PROVE  \E i \in 1 .. Len(t) : t[i] = s[j]
      BY <1>7, <2>1
    <3>1. PICK i \in 1 .. Len(kept) : kept[i] = s[j]
      BY <1>3
    <3>2. i \in 1 .. Len(t) /\ t[i] = s[j]
      BY <1>5, <1>14, <3>1
    <3> QED BY <3>2
  <2>2. CASE p # q
    BY <1>7, <2>2
  <2> QED BY <2>1, <2>2
<1> QED BY <1>4, <1>6, <1>12, <1>13, <1>15, <1>16, Zenon
-----------------------------------------------------------------------------
(* The invariant *)


(* The requests in subscribeC are those of owners that wait, one each. *)
SubscribeInv ==
  /\ \A i \in 1 .. Len(subscribeC) : opc[subscribeC[i]] = "waiting"
  /\ \A i, j \in 1 .. Len(subscribeC) : subscribeC[i] = subscribeC[j] => i = j

(* The requests in unsubscribeC are those of owners that leave. *)
LeaveInv ==
  \A i \in 1 .. Len(unsubscribeC) : opc[unsubscribeC[i]] \in {"leaving", "gone"}

(* The array a range looks at holds routes of one path and is at least as  *)
(* long as that path's slice; outside of a range there is none.            *)
ViewInv ==
  /\ lpc \in {"select", "stopped"} => view = <<>>
  /\ view # <<>> => \E p \in Paths :
       /\ \A i \in 1 .. Len(view) : RoutePath[view[i]] = p
       /\ Len(routes[p]) <= Len(view)

IInv ==
  /\ TypeOK
  /\ NoDoubleSubscription
  /\ UnsubscribedIsOut
  /\ SubscribeInv
  /\ LeaveInv
  /\ ViewInv
-----------------------------------------------------------------------------
(* The invariant is inductive *)

LEMMA InitIInv == Init => IInv
<1> SUFFICES ASSUME Init PROVE IInv
  OBVIOUS
<1>1. TypeOK
  <2>1. <<>> \in Seq(Routes) /\ <<>> \in Seq(Messages)
    OBVIOUS
  <2>2. /\ routes \in [Paths -> Seq(Routes)]
        /\ delivered \in [Routes -> Seq(Messages)]
    BY <2>1, Zenon DEF Init
  <2>3. buffered \in [Routes -> 0 .. ChannelSize]
    BY RouterAssumption DEF Init
  <2>4. opc \in [Routes -> OwnerStates] /\ ppc \in [Messages -> PublisherStates]
    BY DEF Init, OwnerStates, PublisherStates
  <2>5. /\ handleC \in Seq(Messages) /\ subscribeC \in Seq(Routes)
        /\ unsubscribeC \in Seq(Routes) /\ view \in Seq(Routes)
    BY <2>1 DEF Init
  <2>6. /\ stopC \in BOOLEAN /\ stopping \in BOOLEAN /\ lpc = "select"
        /\ cur \in Messages /\ todo = {} /\ pos = 1 /\ targets = {} /\ invalid = {}
        /\ spc = "idle" /\ mCurrentRoutes = 0 /\ mCurrentSubscriptions = 0
    BY Zenon DEF Init
  <2> QED BY <2>2, <2>3, <2>4, <2>5, <2>6 DEF TypeOK
<1>2. /\ NoDoubleSubscription /\ UnsubscribedIsOut /\ SubscribeInv /\ LeaveInv
      /\ ViewInv
  BY DEF Init, NoDoubleSubscription, UnsubscribedIsOut, SubscribeInv, LeaveInv,
         ViewInv
<1> QED BY <1>1, <1>2 DEF IInv

(* A step that leaves the table, the range and the requests alone, and     *)
(* makes no owner "gone", only has to keep the types.                      *)
LEMMA OthersKeepTable ==
  ASSUME IInv, TypeOK', UNCHANGED <<routes, lpc, view, subscribeC, unsubscribeC>>,
         \A r \in Routes : opc'[r] = "gone" => opc[r] = "gone",
         \A r \in Routes :
           opc[r] \in {"waiting", "leaving", "gone"} => opc'[r] = opc[r]
  PROVE  IInv'
<1>1. NoDoubleSubscription' /\ UnsubscribedIsOut' /\ ViewInv'
  BY DEF IInv, NoDoubleSubscription, UnsubscribedIsOut, ViewInv
<1>2. SubscribeInv'
  <2>1. \A i \in 1 .. Len(subscribeC) : subscribeC[i] \in Routes
    BY SeqElement DEF IInv, TypeOK
  <2> QED BY <2>1 DEF IInv, SubscribeInv
<1>3. LeaveInv'
  <2>1. \A i \in 1 .. Len(unsubscribeC) : unsubscribeC[i] \in Routes
    BY SeqElement DEF IInv, TypeOK
  <2> QED BY <2>1 DEF IInv, LeaveInv
<1> QED BY <1>1, <1>2, <1>3 DEF IInv

(* Publishers and the caller of Stop. *)
LEMMA PublisherIInv ==
  ASSUME IInv, (\E m \in Messages : Publisher(m)) \/ Stop \/ StopReturns
  PROVE  IInv'
<1>1. CASE \E m \in Messages : Publisher(m)
  <2> PICK m \in Messages : Publisher(m)
    BY <1>1
  <2>1. CASE HandleMessage(m)
    <3>1. TypeOK'
      BY <2>1 DEF IInv, TypeOK, HandleMessage, PublisherStates, loopVars,
                  tableVars, routeVars, chanVars
    <3> QED BY <2>1, <3>1, OthersKeepTable
            DEF HandleMessage, loopVars, tableVars, chanVars
  <2>2. CASE StoreMessage(m)
    <3>1. TypeOK'
      BY <2>2 DEF IInv, TypeOK, StoreMessage, PublisherStates, loopVars,
                  tableVars, routeVars, chanVars
    <3> QED BY <2>2, <3>1, OthersKeepTable
            DEF StoreMessage, loopVars, tableVars, chanVars
  <2>3. CASE EnqueueMessage(m)
    <3>1. handleC' \in Seq(Messages)
      BY <2>3, SeqAppend DEF IInv, TypeOK, EnqueueMessage
    <3>2. TypeOK'
      BY <2>3, <3>1 DEF IInv, TypeOK, EnqueueMessage, PublisherStates, loopVars,
                        tableVars, routeVars
    <3> QED BY <2>3, <3>2, OthersKeepTable DEF EnqueueMessage, loopVars, tableVars
  <2> QED BY <2>1, <2>2, <2>3 DEF Publisher
<1>2. CASE Stop \/ StopReturns
  <2>1. TypeOK'
    BY <1>2, Zenon DEF IInv, TypeOK, Stop, StopReturns, loopVars, tableVars, routeVars,
                chanVars
  <2> QED BY <1>2, <2>1, OthersKeepTable
          DEF Stop, StopReturns, loopVars, tableVars, chanVars
<1> QED BY <1>1, <1>2

(* The owners of routes. *)
LEMMA OwnerIInv ==
  ASSUME IInv, NEW r \in Routes, Owner(r)
  PROVE  IInv'
<1>a. TypeOK /\ opc \in [Routes -> OwnerStates]
  BY DEF IInv, TypeOK
<1>1. CASE FetchEnds(r) \/ FetchFails(r) \/ FetchSeesDone(r) \/ Subscribe(r)
  <2>1. TypeOK'
    BY <1>a, <1>1, ZenonT(60)
       DEF TypeOK, FetchEnds, FetchFails, FetchSeesDone, Subscribe, OwnerStates,
           loopVars, tableVars, routeVars, chanVars
  <2> QED BY <1>a, <1>1, <2>1, OthersKeepTable
          DEF FetchEnds, FetchFails, FetchSeesDone, Subscribe, loopVars,
              tableVars, chanVars
<1>2. CASE Receive(r)
  <2>1. buffered' \in [Routes -> 0 .. ChannelSize]
    BY <1>a, <1>2, RouterAssumption DEF TypeOK, Receive
  <2>2. TypeOK'
    BY <1>a, <1>2, <2>1 DEF TypeOK, Receive, loopVars, tableVars, chanVars
  <2> QED BY <1>2, <2>2, OthersKeepTable DEF Receive, loopVars, tableVars, chanVars
<1>3. CASE Unsubscribe(r)
  <2>1. /\ unsubscribeC' \in Seq(Routes)
        /\ Len(unsubscribeC') = Len(unsubscribeC) + 1 /\ Len(unsubscribeC) \in Nat
        /\ \A i \in 1 .. Len(unsubscribeC) :
             unsubscribeC'[i] = unsubscribeC[i] /\ unsubscribeC[i] \in Routes
        /\ unsubscribeC'[Len(unsubscribeC) + 1] = r
    BY <1>a, <1>3, SeqAppend, SeqElement, SeqLength
       DEF TypeOK, Unsubscribe
  <2>2. TypeOK'
    BY <1>a, <1>3, <2>1
       DEF TypeOK, Unsubscribe, OwnerStates, loopVars, tableVars, routeVars
  <2>3. opc' = [opc EXCEPT ![r] = "leaving"] /\ opc[r] = "open"
    BY <1>3 DEF Unsubscribe
  <2>4. LeaveInv'
    <3>1. \A i \in 1 .. Len(unsubscribeC') :
            i \in 1 .. Len(unsubscribeC) \/ i = Len(unsubscribeC) + 1
      BY <2>1
    <3> QED BY <1>a, <2>1, <2>3, <3>1 DEF IInv, LeaveInv
  <2>5. NoDoubleSubscription' /\ ViewInv'
    BY <1>3 DEF IInv, NoDoubleSubscription, ViewInv, Unsubscribe, loopVars,
                tableVars
  <2>6. UnsubscribedIsOut'
    BY <1>a, <1>3, <2>3 DEF IInv, UnsubscribedIsOut, Unsubscribe, tableVars
  <2>7. SubscribeInv'
    <3>1. \A i \in 1 .. Len(subscribeC) : subscribeC[i] \in Routes
      BY <1>a, SeqElement DEF TypeOK
    <3> QED BY <1>a, <1>3, <2>3, <3>1 DEF IInv, SubscribeInv, Unsubscribe
  <2> QED BY <2>2, <2>4, <2>5, <2>6, <2>7 DEF IInv
<1>4. CASE SubscribeSend(r)
  <2>1. /\ subscribeC' \in Seq(Routes)
        /\ Len(subscribeC') = Len(subscribeC) + 1 /\ Len(subscribeC) \in Nat
        /\ \A i \in 1 .. Len(subscribeC) :
             subscribeC'[i] = subscribeC[i] /\ subscribeC[i] \in Routes
        /\ subscribeC'[Len(subscribeC) + 1] = r
    BY <1>a, <1>4, SeqAppend, SeqElement, SeqLength
       DEF TypeOK, SubscribeSend
  <2>2. TypeOK'
    BY <1>a, <1>4, <2>1
       DEF TypeOK, SubscribeSend, OwnerStates, loopVars, tableVars, routeVars
  <2>3. \A i \in 1 .. Len(subscribeC) : subscribeC[i] # r
    BY <1>4 DEF IInv, SubscribeInv, SubscribeSend
  <2>4. opc' = [opc EXCEPT ![r] = "waiting"]
    BY <1>4 DEF SubscribeSend
  <2>5. SubscribeInv'
    <3>1. \A i \in 1 .. Len(subscribeC') :
            i \in 1 .. Len(subscribeC) \/ i = Len(subscribeC) + 1
      BY <2>1
    <3>2. \A i \in 1 .. Len(subscribeC') : opc'[subscribeC'[i]] = "waiting"
      BY <1>a, <2>1, <2>4, <3>1 DEF IInv, SubscribeInv
    <3>3. \A i, j \in 1 .. Len(subscribeC') :
            subscribeC'[i] = subscribeC'[j] => i = j
      BY <2>1, <2>3, <3>1 DEF IInv, SubscribeInv
    <3> QED BY <3>2, <3>3 DEF SubscribeInv
  <2>6. LeaveInv'
    <3>1. \A i \in 1 .. Len(unsubscribeC) : unsubscribeC[i] \in Routes
      BY <1>a, SeqElement DEF TypeOK
    <3> QED BY <1>a, <1>4, <2>4, <3>1 DEF IInv, LeaveInv, SubscribeSend
  <2>7. NoDoubleSubscription' /\ ViewInv'
    BY <1>4 DEF IInv, NoDoubleSubscription, ViewInv, SubscribeSend, loopVars,
                tableVars
  <2>8. UnsubscribedIsOut'
    BY <1>a, <1>4, <2>4 DEF IInv, UnsubscribedIsOut, SubscribeSend, tableVars
  <2> QED BY <2>2, <2>5, <2>7, <2>8, <2>6 DEF IInv
<1> QED BY <1>1, <1>2, <1>3, <1>4 DEF Owner

(* An unsubscribe inside a range over the slice of the same path keeps the *)
(* array's length and its elements among the old ones.                     *)
LEMMA UnsubscribeView ==
  ASSUME IInv, NEW r \in Routes, DoUnsubscribe(r),
         \/ view = <<>>
         \/ \E i \in 1 .. Len(view) : view[i] = r
  PROVE  /\ view' \in Seq(Routes)
         /\ Len(view') = Len(view)
         /\ \A i \in 1 .. Len(view) : \E k \in 1 .. Len(view) : view'[i] = view[k]
         /\ view = <<>> => view' = <<>>
<1> DEFINE s == routes[RoutePath[r]]
<1>1. view \in Seq(Routes) /\ Len(view) \in Nat
  BY SeqLength DEF IInv, TypeOK
<1>2. s \in Seq(Routes) /\ Len(s) \in Nat
  BY RouterAssumption, SeqLength DEF IInv, TypeOK
<1>3. CASE Match(s, r) = {}
  BY <1>1, <1>3 DEF DoUnsubscribe
<1>4. CASE Match(s, r) # {}
  <2> DEFINE k == CHOOSE i \in Match(s, r) : TRUE
  <2>1. k \in 1 .. Len(s)
    BY <1>4, MatchProperties DEF IInv
  <2>2. view' = ShiftAt(view, k, Len(s))
    BY <1>4 DEF DoUnsubscribe
  <2> HIDE DEF k
  <2>3. CASE view = <<>>
    <3>1. view' = [j \in 1 .. 0 |-> IF k <= j /\ j < Len(s) THEN view[j + 1] ELSE view[j]]
      BY <2>2, <2>3 DEF ShiftAt
    <3>2. view' = <<>>
      BY <3>1
    <3> QED BY <1>1, <2>3, <3>2
  <2>4. CASE view # <<>>
    <3>1. Len(s) <= Len(view)
      BY <2>4 DEF IInv, ViewInv
    <3>2. k \in Nat /\ k # 0
      BY <1>2, <2>1
    <3> HIDE DEF s
    <3>3. /\ ShiftAt(view, k, Len(s)) \in Seq(Routes)
          /\ Len(ShiftAt(view, k, Len(s))) = Len(view)
          /\ \A j \in 1 .. Len(view) : \E i \in 1 .. Len(view) :
               ShiftAt(view, k, Len(s))[j] = view[i]
      BY <1>1, <1>2, <3>1, <3>2, ShiftAtProperties
    <3> QED BY <2>2, <2>4, <3>3
  <2> QED BY <2>3, <2>4
<1> QED BY <1>3, <1>4, Zenon

(* The loop goroutine, in its select. *)
LEMMA SelectIInv ==
  ASSUME IInv, Select
  PROVE  IInv'
<1>a. /\ TypeOK /\ NoDoubleSubscription /\ UnsubscribedIsOut /\ SubscribeInv
      /\ LeaveInv /\ ViewInv
  BY DEF IInv
<1>b. /\ \A i \in 1 .. Len(subscribeC) : subscribeC[i] \in Routes
      /\ \A i \in 1 .. Len(unsubscribeC) : unsubscribeC[i] \in Routes
  BY <1>a, SeqElement DEF TypeOK
<1>1. CASE LoopMessage
  <2>1. cur' \in Messages /\ handleC' \in Seq(Messages)
    BY <1>a, <1>1, SeqTail, SMTT(30) DEF TypeOK, LoopMessage
  <2>2. todo' \subseteq Paths /\ targets' \subseteq Routes /\ view' = <<>>
    BY <1>1, Zenon DEF LoopMessage, Present
  <2>3. TypeOK'
    BY <1>a, <1>1, <2>1, <2>2 DEF TypeOK, LoopMessage, tableVars, routeVars
  <2> QED BY <1>a, <1>1, <2>2, <2>3, SMTT(30)
          DEF IInv, LoopMessage, tableVars, NoDoubleSubscription,
              UnsubscribedIsOut, SubscribeInv, LeaveInv, ViewInv
<1>2. CASE LoopSubscribe
  <2> DEFINE r == Head(subscribeC)
  <2>1. /\ r \in Routes /\ subscribeC' = Tail(subscribeC)
        /\ r = subscribeC[1] /\ Len(subscribeC) \in Nat \ {0}
        /\ subscribeC' \in Seq(Routes) /\ Len(subscribeC') = Len(subscribeC) - 1
        /\ \A i \in 1 .. Len(subscribeC') : subscribeC'[i] = subscribeC[i + 1]
        /\ \A i \in 1 .. Len(subscribeC') : subscribeC'[i] \in Routes
    BY <1>a, <1>2, SeqTail, SeqLength, SeqElement
       DEF TypeOK, LoopSubscribe
  <2>2. DoSubscribe(r) /\ opc' = [opc EXCEPT ![r] = "open"]
    BY <1>2 DEF LoopSubscribe
  <2>3. opc[r] = "waiting" /\ opc \in [Routes -> OwnerStates]
    BY <1>a, <2>1 DEF SubscribeInv, TypeOK
  <2> HIDE DEF r
  <2>4. /\ routes' \in [Paths -> Seq(Routes)]
        /\ mCurrentRoutes' \in Int /\ mCurrentSubscriptions' \in Int
        /\ NoDoubleSubscription'
        /\ \A p \in Paths : \A i \in 1 .. Len(routes'[p]) :
             \/ routes'[p][i] = r
             \/ \E j \in 1 .. Len(routes[p]) : routes'[p][i] = routes[p][j]
    BY <1>a, <2>1, <2>2, SubscribeTable, SMTT(30)
  <2>5. TypeOK'
    BY <1>a, <1>2, <2>1, <2>2, <2>4
       DEF TypeOK, LoopSubscribe, OwnerStates, loopVars, routeVars
  <2>6. UnsubscribedIsOut'
    <3> SUFFICES ASSUME NEW x \in Routes, opc'[x] = "gone", NEW p \in Paths,
                        NEW i \in 1 .. Len(routes'[p])
                 PROVE  routes'[p][i] # x
      BY DEF UnsubscribedIsOut
    <3>1. x # r /\ opc[x] = "gone"
      BY <2>1, <2>2, <2>3
    <3>2. \A j \in 1 .. Len(routes[p]) : routes[p][j] # x
      BY <1>a, <3>1 DEF UnsubscribedIsOut
    <3> QED BY <2>4, <3>1, <3>2, ZenonT(60)
  <2>7. SubscribeInv'
    <3>1. \A i \in 1 .. Len(subscribeC') :
            i + 1 \in 1 .. Len(subscribeC) /\ subscribeC'[i] # r
      BY <1>a, <2>1 DEF SubscribeInv
    <3>2. \A i \in 1 .. Len(subscribeC') : opc'[subscribeC'[i]] = "waiting"
      BY <1>a, <2>1, <2>2, <2>3, <3>1 DEF SubscribeInv
    <3>3. \A i, j \in 1 .. Len(subscribeC') :
            subscribeC'[i] = subscribeC'[j] => i = j
      BY <1>a, <2>1, <3>1 DEF SubscribeInv
    <3> QED BY <3>2, <3>3 DEF SubscribeInv
  <2>8. ViewInv'
    BY <1>a, <1>2 DEF ViewInv, LoopSubscribe, loopVars
  <2>9. LeaveInv'
    BY <1>a, <1>b, <1>2, <2>2, <2>3 DEF LeaveInv, LoopSubscribe
  <2> QED BY <2>4, <2>5, <2>6, <2>7, <2>8, <2>9 DEF IInv
<1>3. CASE LoopUnsubscribe
  <2> DEFINE r == Head(unsubscribeC)
  <2>1. /\ r \in Routes /\ r = unsubscribeC[1]
        /\ Len(unsubscribeC) \in Nat \ {0}
        /\ unsubscribeC' \in Seq(Routes)
        /\ Len(unsubscribeC') = Len(unsubscribeC) - 1
        /\ \A i \in 1 .. Len(unsubscribeC') :
             unsubscribeC'[i] = unsubscribeC[i + 1] /\ i + 1 \in 1 .. Len(unsubscribeC)
    BY <1>a, <1>3, SeqTail, SeqLength DEF TypeOK, LoopUnsubscribe
  <2>2. /\ DoUnsubscribe(r) /\ opc' = [opc EXCEPT ![r] = "gone"] /\ view = <<>>
        /\ subscribeC' = subscribeC /\ lpc' = lpc
    BY <1>a, <1>3 DEF LoopUnsubscribe, ViewInv
  <2>3. opc \in [Routes -> OwnerStates]
    BY <1>a DEF TypeOK
  <2> HIDE DEF r
  <2>4. /\ routes' \in [Paths -> Seq(Routes)]
        /\ mCurrentRoutes' \in Int /\ mCurrentSubscriptions' \in Int
        /\ NoDoubleSubscription'
        /\ \A p \in Paths : \A i \in 1 .. Len(routes'[p]) :
             /\ routes'[p][i] # r
             /\ \E j \in 1 .. Len(routes[p]) : routes'[p][i] = routes[p][j]
    BY <1>a, <2>1, <2>2, UnsubscribeTable, Zenon
  <2>5. view' = <<>> /\ view' \in Seq(Routes)
    BY <2>1, <2>2, UnsubscribeView
  <2>6. TypeOK'
    BY <1>a, <1>3, <2>1, <2>2, <2>4, <2>5
       DEF TypeOK, LoopUnsubscribe, OwnerStates, routeVars
  <2>7. UnsubscribedIsOut'
    <3> SUFFICES ASSUME NEW x \in Routes, opc'[x] = "gone", NEW p \in Paths,
                        NEW i \in 1 .. Len(routes'[p])
                 PROVE  routes'[p][i] # x
      BY DEF UnsubscribedIsOut
    <3>1. x = r \/ opc[x] = "gone"
      BY <2>1, <2>2, <2>3
    <3>2. opc[x] = "gone" => \A j \in 1 .. Len(routes[p]) : routes[p][j] # x
      BY <1>a DEF UnsubscribedIsOut
    <3> QED BY <2>4, <3>1, <3>2
  <2>8. SubscribeInv'
    <3>1. opc[r] # "waiting"
      BY <1>a, <2>1 DEF LeaveInv
    <3> QED BY <1>a, <1>b, <2>2, <2>3, <3>1 DEF SubscribeInv
  <2>9. LeaveInv'
    BY <1>a, <1>b, <2>1, <2>2, <2>3 DEF LeaveInv
  <2>10. ViewInv'
    BY <2>5 DEF ViewInv
  <2> QED BY <2>4, <2>6, <2>7, <2>8, <2>9, <2>10 DEF IInv
<1>4. CASE LoopStop
  <2>1. TypeOK'
    BY <1>a, <1>4, Zenon DEF TypeOK, LoopStop, loopVars, tableVars, routeVars, chanVars
  <2> QED BY <1>4, <2>1, OthersKeepTable DEF LoopStop, loopVars, tableVars, chanVars
<1> QED BY <1>1, <1>2, <1>3, <1>4 DEF Select

(* Deliver respects the capacity of the route's channel. *)
LEMMA DeliverTypes ==
  ASSUME TypeOK, DeliverRoute, view[pos] \in Routes
  PROVE  /\ buffered' \in [Routes -> 0 .. ChannelSize]
         /\ delivered' \in [Routes -> Seq(Messages)]
         /\ invalid' \subseteq Routes
<1> DEFINE r == view[pos]
<1>1. Append(delivered[r], cur) \in Seq(Messages)
  BY SeqAppend DEF TypeOK
<1>2. CASE UNCHANGED routeVars
  BY <1>2 DEF TypeOK, routeVars
<1>3. CASE /\ ~RouteFull(r)
           /\ buffered' = [buffered EXCEPT ![r] = @ + 1]
           /\ delivered' = [delivered EXCEPT ![r] = Append(@, cur)]
           /\ UNCHANGED invalid
  <2>1. buffered' \in [Routes -> 0 .. ChannelSize]
    <3>1. r \in Routes /\ buffered \in [Routes -> 0 .. ChannelSize]
      BY DEF TypeOK
    <3>2. buffered[r] + 1 \in 0 .. ChannelSize
      BY <1>3, <3>1, RouterAssumption DEF RouteFull
    <3> HIDE DEF r
    <3> QED BY <1>3, <3>1, <3>2
  <2>2. delivered' \in [Routes -> Seq(Messages)]
    BY <1>1, <1>3 DEF TypeOK
  <2> QED BY <1>3, <2>1, <2>2, SMTT(30) DEF TypeOK
<1>4. CASE invalid' = invalid \cup {r} /\ UNCHANGED <<buffered, delivered>>
  BY <1>4 DEF TypeOK
<1> QED BY <1>2, <1>3, <1>4 DEF DeliverRoute

(* A step of a range is at a position of the array. *)
LEMMA RangePosition ==
  ASSUME TypeOK, DeliverRoute \/ CloseRoute
  PROVE  /\ view \in Seq(Routes) /\ Len(view) \in Nat
         /\ pos \in 1 .. Len(view) /\ view[pos] \in Routes
         /\ pos' = pos + 1 /\ pos' \in Nat \ {0}
<1>1. view \in Seq(Routes) /\ Len(view) \in Nat /\ pos \in Nat \ {0}
  BY SeqLength DEF TypeOK
<1>2. ~RangeDone /\ pos' = pos + 1
  <2>1. CASE DeliverRoute
    BY <2>1 DEF DeliverRoute, Advance
  <2>2. CASE CloseRoute
    BY <2>2 DEF CloseRoute
  <2> QED BY <2>1, <2>2
<1>3. pos \in 1 .. Len(view)
  BY <1>1, <1>2 DEF RangeDone
<1>4. view[pos] \in Routes
  BY <1>1, <1>3, SeqElement
<1> QED BY <1>1, <1>2, <1>3, <1>4

(* A step of a range changes no request and no owner. *)
LEMMA RangeIInv ==
  ASSUME IInv, LoopExit \/ NextPath \/ EndRange \/ DeliverRoute \/ CloseRoute
  PROVE  IInv'
<1>a. /\ TypeOK /\ NoDoubleSubscription /\ UnsubscribedIsOut /\ SubscribeInv
      /\ LeaveInv /\ ViewInv
  BY DEF IInv
<1>b. SubscribeInv' /\ LeaveInv'
  BY <1>a DEF LoopExit, NextPath, EndRange, DeliverRoute, CloseRoute, chanVars,
              SubscribeInv, LeaveInv
<1>1. CASE LoopExit \/ EndRange
  <2>1. TypeOK'
    <3>1. /\ UNCHANGED <<routes, mCurrentRoutes, mCurrentSubscriptions, buffered,
                          invalid, delivered, handleC, subscribeC, unsubscribeC,
                          cur, stopC, stopping, opc, ppc, spc>>
          /\ view' = <<>> /\ pos' = 1 /\ todo' \in {todo, Present}
          /\ targets' \in {targets, {}} /\ lpc' \in {"close", "select", "stopped"}
      BY <1>1 DEF LoopExit, EndRange, tableVars, routeVars, chanVars
    <3>2. Present \subseteq Paths /\ <<>> \in Seq(Routes)
      BY DEF Present
    <3> QED BY <1>a, <3>1, <3>2 DEF TypeOK
  <2> QED BY <1>a, <1>b, <1>1, <2>1, SMTT(30)
          DEF IInv, LoopExit, EndRange, tableVars, NoDoubleSubscription,
              UnsubscribedIsOut, ViewInv
<1>2. CASE NextPath
  <2>1. PICK p \in todo : view' = routes[p] /\ todo' = todo \ {p}
    BY <1>2 DEF NextPath
  <2>2. p \in Paths /\ view' \in Seq(Routes) /\ Len(view') \in Nat
    BY <1>a, <2>1, SeqLength DEF TypeOK
  <2>3. TypeOK'
    BY <1>a, <1>2, <2>1, <2>2 DEF TypeOK, NextPath, tableVars, routeVars, chanVars
  <2>4. ViewInv'
    BY <1>a, <1>2, <2>1, <2>2, SMTT(30) DEF ViewInv, NextPath, NoDoubleSubscription, tableVars
  <2> QED BY <1>a, <1>b, <1>2, <2>3, <2>4, SMTT(30)
          DEF IInv, NextPath, tableVars, NoDoubleSubscription, UnsubscribedIsOut
<1>3. CASE DeliverRoute \/ CloseRoute
  <2> DEFINE r == view[pos]
  <2>1. /\ pos \in 1 .. Len(view) /\ view \in Seq(Routes) /\ Len(view) \in Nat
        /\ pos' \in Nat \ {0}
    BY <1>a, <1>3, RangePosition
  <2>2. r \in Routes /\ view # <<>> /\ lpc \in {"deliver", "close"} /\ lpc' = lpc
    <3>1. r \in Routes
      BY <1>a, <1>3, RangePosition
    <3>2. view # <<>>
      BY <2>1
    <3>3. lpc \in {"deliver", "close"} /\ lpc' = lpc
      BY <1>3 DEF DeliverRoute, CloseRoute
    <3> QED BY <3>1, <3>2, <3>3
  <2>3. UNCHANGED <<lpc, cur, todo, targets, handleC, subscribeC, unsubscribeC,
                    stopC, stopping, opc, ppc, spc>>
    BY <1>3 DEF DeliverRoute, CloseRoute, chanVars
  <2>4. CASE DoUnsubscribe(r)
    <3>1. /\ routes' \in [Paths -> Seq(Routes)]
          /\ mCurrentRoutes' \in Int /\ mCurrentSubscriptions' \in Int
          /\ NoDoubleSubscription'
          /\ \A p \in Paths : \A i \in 1 .. Len(routes'[p]) :
               \E j \in 1 .. Len(routes[p]) : routes'[p][i] = routes[p][j]
          /\ \A p \in Paths : Len(routes'[p]) <= Len(routes[p])
      BY <1>a, <2>2, <2>4, UnsubscribeTable
    <3>2. /\ view' \in Seq(Routes) /\ Len(view') = Len(view)
          /\ \A i \in 1 .. Len(view) :
               \E k \in 1 .. Len(view) : view'[i] = view[k]
      BY <2>1, <2>2, <2>4, UnsubscribeView
    <3>3. TypeOK'
      <4>1. /\ buffered' \in [Routes -> 0 .. ChannelSize]
            /\ delivered' \in [Routes -> Seq(Messages)]
            /\ invalid' \subseteq Routes
        BY <1>a, <1>3, <2>2, DeliverTypes, SMTT(30) DEF CloseRoute, TypeOK
      <4>2. /\ routes' \in [Paths -> Seq(Routes)] /\ view' \in Seq(Routes)
            /\ mCurrentRoutes' \in Int /\ mCurrentSubscriptions' \in Int
            /\ pos' \in Nat \ {0}
        BY <2>1, <3>1, <3>2
      <4> QED BY <1>a, <2>3, <4>1, <4>2 DEF TypeOK
    <3>4. UnsubscribedIsOut'
      <4> SUFFICES ASSUME NEW x \in Routes, opc[x] = "gone", NEW p \in Paths,
                          NEW i \in 1 .. Len(routes'[p])
                   PROVE  routes'[p][i] # x
        BY <2>3 DEF UnsubscribedIsOut
      <4>1. PICK j \in 1 .. Len(routes[p]) : routes'[p][i] = routes[p][j]
        BY <3>1
      <4> QED BY <1>a, <4>1 DEF UnsubscribedIsOut
    <3>5. ViewInv'
      <4>1. PICK p \in Paths : /\ \A i \in 1 .. Len(view) : RoutePath[view[i]] = p
                               /\ Len(routes[p]) <= Len(view)
        BY <1>a, <2>2 DEF ViewInv
      <4>2. Len(routes'[p]) \in Nat /\ Len(routes[p]) \in Nat
        BY <1>a, <3>1, SeqLength DEF TypeOK
      <4>3. /\ \A i \in 1 .. Len(view') : RoutePath[view'[i]] = p
            /\ Len(routes'[p]) <= Len(view')
        <5>1. Len(routes'[p]) <= Len(routes[p])
          BY <3>1
        <5>2. Len(routes'[p]) <= Len(view')
          BY <2>1, <3>2, <4>1, <4>2, <5>1, SMTT(30)
        <5>3. ASSUME NEW i \in 1 .. Len(view') PROVE RoutePath[view'[i]] = p
          <6>1. PICK k \in 1 .. Len(view) : view'[i] = view[k]
            BY <3>2
          <6> QED BY <4>1, <6>1
        <5> QED BY <5>2, <5>3
      <4> QED BY <2>2, <4>3 DEF ViewInv
    <3> QED BY <1>b, <3>1, <3>3, <3>4, <3>5 DEF IInv
  <2>5. CASE DeliverRoute /\ UNCHANGED <<tableVars, view>>
    <3>1. /\ buffered' \in [Routes -> 0 .. ChannelSize]
          /\ delivered' \in [Routes -> Seq(Messages)]
          /\ invalid' \subseteq Routes
      BY <1>a, <2>2, <2>5, DeliverTypes
    <3>2. TypeOK'
      BY <1>a, <2>1, <2>5, <2>3, <3>1, SMTT(30) DEF TypeOK, tableVars
    <3> QED BY <1>a, <1>b, <2>2, <2>5, <3>2
            DEF IInv, NoDoubleSubscription, UnsubscribedIsOut, ViewInv, tableVars,
                DeliverRoute
  <2> QED BY <1>3, <2>4, <2>5 DEF DeliverRoute, CloseRoute
<1> QED BY <1>1, <1>2, <1>3

(* IInv is an inductive invariant of the router. *)
LEMMA Inductive == Spec => []IInv
<1>1. IInv /\ [Next]_vars => IInv'
  <2> SUFFICES ASSUME IInv, [Next]_vars PROVE IInv'
    OBVIOUS
  <2>1. CASE Next
    BY <2>1, SelectIInv, RangeIInv, OwnerIInv, PublisherIInv DEF Next, Loop
  <2>2. CASE UNCHANGED vars
    <3>1. TypeOK'
      BY <2>2 DEF IInv, TypeOK, vars, loopVars, tableVars, routeVars, chanVars
    <3> QED BY <2>2, <3>1, OthersKeepTable
            DEF vars, loopVars, tableVars, chanVars
  <2> QED BY <2>1, <2>2
<1> QED BY <1>1, InitIInv, PTL DEF Spec
-----------------------------------------------------------------------------
(* The variables of the router keep their types; in particular no route's  *)
(* channel holds more than its capacity.                                   *)
THEOREM TypeCorrect == Spec => []TypeOK
<1>1. IInv => TypeOK BY DEF IInv
<1> QED BY <1>1, Inductive, PTL

(* However subscriptions, replacements, closed routes and Stop interleave, *)
(* a slice of the table never holds two equal routes.                      *)
THEOREM NoDoubleSubscriptionEver == Spec => []NoDoubleSubscription
<1>1. IInv => NoDoubleSubscription BY DEF IInv
<1> QED BY <1>1, Inductive, PTL

(* Once Unsubscribe has returned, the route is out of the table for good.  *)
THEOREM UnsubscribeIsFinal == Spec => []UnsubscribedIsOut
<1>1. IInv => UnsubscribedIsOut BY DEF IInv
<1> QED BY <1>1, Inductive, PTL
-----------------------------------------------------------------------------

(* Owners whose subscription has been served. *)
Active == {"open", "leaving", "gone"}

(* Routes in the table, and in the array of a range, belong to such owners. *)
ActiveInv ==
  /\ \A p \in Paths : \A i \in 1 .. Len(routes[p]) : opc[routes[p][i]] \in Active
  /\ \A i \in 1 .. Len(view) : opc[view[i]] \in Active

InTable(r) ==
  \E i \in 1 .. Len(routes[RoutePath[r]]) : routes[RoutePath[r]][i] = r

(* A step leaves the table alone, subscribes a route whose owner is open   *)
(* afterwards, or unsubscribes one that is closed or gone afterwards.      *)
KeepsTable ==
  /\ UNCHANGED routes
  /\ \A r \in Routes : opc'[r] = "open" => opc[r] = "open"
  /\ \A i \in 1 .. Len(view') :
       \/ \E k \in 1 .. Len(view) : view'[i] = view[k]
       \/ \E p \in Paths : \E k \in 1 .. Len(routes[p]) : view'[i] = routes[p][k]

AddsRoute(x) ==
  /\ DoSubscribe(x) /\ view' = view
  /\ opc'[x] = "open"
  /\ \A r \in Routes \ {x} : opc'[r] = "open" => opc[r] = "open"

DropsRoute(x) ==
  /\ DoUnsubscribe(x)
  /\ \A i \in 1 .. Len(view') : \E k \in 1 .. Len(view) : view'[i] = view[k]
  /\ opc'[x] \in Active
  /\ x \in invalid' \/ opc'[x] = "gone"
  /\ \A r \in Routes : opc'[r] = "open" => opc[r] = "open"

LEMMA StepShape ==
  ASSUME IInv, ActiveInv, Next
  PROVE  /\ \A r \in Routes : opc[r] \in Active => opc'[r] \in Active
         /\ invalid \subseteq invalid'
         /\ \/ KeepsTable
            \/ \E x \in Routes : AddsRoute(x) \/ DropsRoute(x)
<1>a. TypeOK /\ opc \in [Routes -> OwnerStates]
  BY DEF IInv, TypeOK
<1>1. CASE \E m \in Messages : Publisher(m)
  BY <1>1, Zenon DEF Publisher, HandleMessage, StoreMessage, EnqueueMessage, loopVars,
              tableVars, routeVars, KeepsTable
<1>2. CASE Stop \/ StopReturns
  BY <1>2, Zenon DEF Stop, StopReturns, loopVars, tableVars, routeVars, KeepsTable
<1>3. ASSUME NEW r \in Routes, Owner(r)
      PROVE  /\ \A x \in Routes : opc[x] \in Active => opc'[x] \in Active
             /\ invalid \subseteq invalid' /\ KeepsTable
  BY <1>a, <1>3
     DEF Owner, FetchEnds, FetchFails, FetchSeesDone, Subscribe, SubscribeSend,
         Receive, Unsubscribe, loopVars, tableVars, routeVars, KeepsTable, Active
<1>4. CASE LoopMessage \/ LoopStop \/ LoopExit \/ EndRange
  <2>1. opc' = opc /\ invalid' = invalid /\ routes' = routes
    BY <1>4, Zenon DEF LoopMessage, LoopStop, LoopExit, EndRange, tableVars, routeVars
  <2>2. view' = view \/ view' = <<>>
    BY <1>4 DEF LoopMessage, LoopStop, LoopExit, EndRange, loopVars
  <2>3. KeepsTable
    BY <2>1, <2>2 DEF KeepsTable
  <2> QED BY <2>1, <2>3
<1>5. CASE NextPath
  <2>1. PICK p \in todo : view' = routes[p]
    BY <1>5 DEF NextPath
  <2>2. p \in Paths
    BY <1>a, <2>1 DEF TypeOK
  <2> QED BY <1>5, <2>1, <2>2, Zenon DEF NextPath, tableVars, routeVars, KeepsTable
<1>6. CASE LoopSubscribe
  <2>1. Head(subscribeC) \in Routes
    BY <1>a, <1>6, SeqTail DEF TypeOK, LoopSubscribe
  <2> QED BY <1>a, <1>6, <2>1
          DEF LoopSubscribe, AddsRoute, loopVars, routeVars, Active
<1>7. CASE LoopUnsubscribe
  <2>1. Head(unsubscribeC) \in Routes
    BY <1>a, <1>7, SeqTail DEF TypeOK, LoopUnsubscribe
  <2>2. view = <<>>
    BY <1>7 DEF IInv, ViewInv, LoopUnsubscribe
  <2>3. DoUnsubscribe(Head(unsubscribeC)) /\ view' = <<>>
    BY <1>7, <2>1, <2>2, UnsubscribeView DEF LoopUnsubscribe
  <2> QED BY <1>a, <1>7, <2>1, <2>3
          DEF LoopUnsubscribe, DropsRoute, routeVars, Active
<1>8. CASE DeliverRoute \/ CloseRoute
  <2> DEFINE r == view[pos]
  <2>1. /\ pos \in 1 .. Len(view) /\ r \in Routes /\ Len(view) \in Nat
        /\ view \in Seq(Routes)
    BY <1>a, <1>8, RangePosition
  <2>2. opc' = opc /\ invalid \subseteq invalid' /\ opc[r] \in Active
    BY <1>8, <2>1, Zenon DEF DeliverRoute, CloseRoute, routeVars, ActiveInv
  <2>3. CASE DoUnsubscribe(r) /\ r \in invalid'
    <3>1. \A i \in 1 .. Len(view') : \E k \in 1 .. Len(view) : view'[i] = view[k]
      BY <2>1, <2>3, UnsubscribeView
    <3> QED BY <2>1, <2>2, <2>3, <3>1 DEF DropsRoute
  <2>4. CASE UNCHANGED <<tableVars, view>>
    BY <2>2, <2>4 DEF KeepsTable, tableVars
  <2> QED BY <1>8, <2>3, <2>4 DEF DeliverRoute, CloseRoute, routeVars
<1> QED BY <1>1, <1>2, <1>3, <1>4, <1>5, <1>6, <1>7, <1>8 DEF Next, Loop, Select

LEMMA ActiveIInv ==
  ASSUME IInv, IInv', ActiveInv, Next
  PROVE  ActiveInv'
<1>a. /\ TypeOK /\ NoDoubleSubscription
      /\ \A p \in Paths : \A i \in 1 .. Len(routes[p]) : routes[p][i] \in Routes
      /\ \A i \in 1 .. Len(view) : view[i] \in Routes
  BY SeqElement, Zenon DEF IInv, TypeOK
<1>b. \A r \in Routes : opc[r] \in Active => opc'[r] \in Active
  BY StepShape
<1>1. CASE KeepsTable
  BY <1>a, <1>b, <1>1 DEF ActiveInv, KeepsTable
<1>2. ASSUME NEW x \in Routes, AddsRoute(x)
      PROVE  ActiveInv'
  <2>1. \A p \in Paths : \A i \in 1 .. Len(routes'[p]) :
          \/ routes'[p][i] = x
          \/ \E j \in 1 .. Len(routes[p]) : routes'[p][i] = routes[p][j]
    BY <1>a, <1>2, SubscribeTable DEF AddsRoute
  <2>2. view' = view /\ opc'[x] \in Active
    BY <1>2 DEF AddsRoute, Active
  <2> QED BY <1>a, <1>b, <2>1, <2>2 DEF ActiveInv
<1>3. ASSUME NEW x \in Routes, DropsRoute(x)
      PROVE  ActiveInv'
  <2>1. \A p \in Paths : \A i \in 1 .. Len(routes'[p]) :
          \E j \in 1 .. Len(routes[p]) : routes'[p][i] = routes[p][j]
    BY <1>a, <1>3, UnsubscribeTable DEF DropsRoute
  <2>2. \A i \in 1 .. Len(view') : \E k \in 1 .. Len(view) : view'[i] = view[k]
    BY <1>3 DEF DropsRoute
  <2>3. \A p \in Paths : \A i \in 1 .. Len(routes'[p]) :
          opc'[routes'[p][i]] \in Active
    BY <1>a, <1>b, <2>1 DEF ActiveInv
  <2>4. \A i \in 1 .. Len(view') : opc'[view'[i]] \in Active
    BY <1>a, <1>b, <2>2 DEF ActiveInv
  <2> QED BY <2>3, <2>4 DEF ActiveInv
<1> QED BY <1>1, <1>2, <1>3, StepShape

LEMMA OpenIInv ==
  ASSUME IInv, ActiveInv, OpenStaysSubscribed, Next
  PROVE  OpenStaysSubscribed'
<1>a. TypeOK /\ NoDoubleSubscription
  BY DEF IInv
<1>b. /\ \A r \in Routes : opc[r] \in Active => opc'[r] \in Active
      /\ invalid \subseteq invalid'
  BY StepShape
<1> DEFINE Sibling(r) == \E s \in Routes \ {r} : Equal(r, s) /\ opc[s] \in Active
<1>c. \A r \in Routes :
        opc[r] # "open" \/ r \in invalid \/ InTable(r) \/ Sibling(r)
  BY DEF OpenStaysSubscribed, InTable, Active
<1> SUFFICES ASSUME NEW r \in Routes, opc'[r] = "open", r \notin invalid'
             PROVE  InTable(r)' \/ Sibling(r)'
  BY DEF OpenStaysSubscribed, InTable, Active
<1>d. Sibling(r) => Sibling(r)'
  BY <1>b
<1>e. RoutePath[r] \in Paths
  BY RouterAssumption
<1>1. CASE KeepsTable
  BY <1>b, <1>c, <1>d, <1>1 DEF KeepsTable, InTable
<1>2. ASSUME NEW x \in Routes, AddsRoute(x)
      PROVE  InTable(r)' \/ Sibling(r)'
  <2>1. /\ \E i \in 1 .. Len(routes'[RoutePath[x]]) : routes'[RoutePath[x]][i] = x
        /\ \A p \in Paths : \A j \in 1 .. Len(routes[p]) :
             \/ Equal(routes[p][j], x)
             \/ \E i \in 1 .. Len(routes'[p]) : routes'[p][i] = routes[p][j]
    BY <1>a, <1>2, SubscribeTable, Zenon DEF AddsRoute
  <2>2. opc'[x] \in Active /\ (r # x => opc[r] = "open")
    BY <1>2 DEF AddsRoute, Active
  <2>3. CASE r = x
    BY <2>1, <2>3 DEF InTable
  <2>4. CASE r # x
    <3>1. InTable(r) => InTable(r)' \/ Equal(r, x)
      BY <1>e, <2>1 DEF InTable
    <3> QED BY <1>b, <1>c, <1>d, <2>2, <2>4, <3>1
  <2> QED BY <2>3, <2>4
<1>3. ASSUME NEW x \in Routes, DropsRoute(x)
      PROVE  InTable(r)' \/ Sibling(r)'
  <2>1. \A p \in Paths : \A j \in 1 .. Len(routes[p]) :
          \/ Equal(routes[p][j], x)
          \/ \E i \in 1 .. Len(routes'[p]) : routes'[p][i] = routes[p][j]
    BY <1>a, <1>3, UnsubscribeTable, Zenon DEF DropsRoute
  <2>2. opc'[x] \in Active /\ r # x /\ opc[r] = "open"
    BY <1>3 DEF DropsRoute
  <2>3. InTable(r) => InTable(r)' \/ Equal(r, x)
    BY <1>e, <2>1 DEF InTable
  <2> QED BY <1>b, <1>c, <1>d, <2>2, <2>3
<1> QED BY <1>1, <1>2, <1>3, StepShape
-----------------------------------------------------------------------------
(* An open route that nobody unsubscribed or replaced is in the table: no  *)
(* removal of a neighbour, in the select, in handleMessage or in           *)
(* closeRoutes, takes it along.                                            *)
THEOREM OpenRouteStays == Spec => []OpenStaysSubscribed
<1>1. Init => ActiveInv /\ OpenStaysSubscribed
  BY DEF Init, ActiveInv, OpenStaysSubscribed
<1>2. IInv /\ IInv' /\ ActiveInv /\ OpenStaysSubscribed /\ [Next]_vars
        => ActiveInv' /\ OpenStaysSubscribed'
  <2> SUFFICES ASSUME IInv, IInv', ActiveInv, OpenStaysSubscribed, [Next]_vars
               PROVE  ActiveInv' /\ OpenStaysSubscribed'
    OBVIOUS
  <2>1. CASE Next
    BY <2>1, ActiveIInv, OpenIInv
  <2>2. CASE UNCHANGED vars
    BY <2>2 DEF vars, loopVars, tableVars, routeVars, ActiveInv, OpenStaysSubscribed
  <2> QED BY <2>1, <2>2
<1> QED BY <1>1, <1>2, Inductive, PTL DEF Spec
=============================================================================
