---------------------------- MODULE RouterProofs ----------------------------
(***************************************************************************)
(* Router for any rules, any number of them, any hosts and paths: what the *)
(* sort of New makes of the rules, and which rule Match finds in it.       *)
(*                                                                         *)
(* NothingIsMissed and ShortCutIsHarmless use of the sort only that it     *)
(* keeps every rule.  BestAnswers and UnrelatedIsNeutral use what the      *)
(* rounds of the insertion sort do, which is what sort.SliceStable is up   *)
(* to 20 rules; longer lists it sorts in blocks and merges them.           *)
(***************************************************************************)
EXTENDS Router, SequenceTheorems, WellFoundedInduction, TLAPS

-----------------------------------------------------------------------------
(* Least and greatest                                                      *)

LEMMA LeastNatural ==
  ASSUME NEW S \in SUBSET Nat, S # {}
  PROVE  \E m \in S : \A k \in S : m <= k
<1>1. PICK m \in S : \A k \in S : ~(<<k, m>> \in OpToRel(<, Nat))
  BY NatLessThanWellFounded, WFMin
<1>2. \A k \in S : ~(k < m)
  BY <1>1 DEF OpToRel
<1>3. QED
  BY <1>2

LEMMA MinIsLeast ==
  ASSUME NEW S \in SUBSET Nat, S # {}
  PROVE  Min(S) \in S /\ \A k \in S : Min(S) <= k
<1>1. \E m \in S : \A k \in S : m <= k
  BY LeastNatural
<1>2. QED
  BY <1>1 DEF Min

LEMMA MaxIsGreatest ==
  ASSUME NEW n \in Nat, NEW S \in SUBSET (1 .. n), S # {}
  PROVE  Max(S) \in S /\ \A k \in S : k <= Max(S)
<1> DEFINE T == {n - k : k \in S}
<1>1. T \in SUBSET Nat /\ T # {}
  <2>1. \A k \in S : k \in 1 .. n /\ n - k \in Nat
    OBVIOUS
  <2>2. QED
    BY <2>1
<1>2. PICK m \in T : \A k \in T : m <= k
  <2> HIDE DEF T
  <2>1. QED
    BY <1>1, LeastNatural
<1>3. n - m \in S /\ \A y \in S : m <= n - y
  BY <1>2
<1>4. \A y \in S : n - m >= y
  BY <1>2, <1>3
<1>5. \E x \in S : \A y \in S : x >= y
  BY <1>3, <1>4
<1>6. Max(S) \in S /\ \A y \in S : Max(S) >= y
  BY <1>5 DEF Max
<1>7. QED
  BY <1>6

-----------------------------------------------------------------------------
(* Inserting                                                               *)

(* Where an element is put and where the others are afterwards.            *)
LEMMA InsertedAt ==
  ASSUME NEW E, NEW s \in Seq(E), NEW e \in E, NEW p \in 1 .. Len(s) + 1
  PROVE  /\ InsertAt(s, p, e) \in Seq(E)
         /\ Len(InsertAt(s, p, e)) = Len(s) + 1
         /\ \A k \in 1 .. p - 1 : InsertAt(s, p, e)[k] = s[k]
         /\ InsertAt(s, p, e)[p] = e
         /\ \A k \in p + 1 .. Len(s) + 1 : InsertAt(s, p, e)[k] = s[k - 1]
<1> DEFINE left == SubSeq(s, 1, p - 1)
           right == SubSeq(s, p, Len(s))
           front == left \o <<e>>
<1>0. Len(s) \in Nat /\ \A k \in 1 .. Len(s) : s[k] \in E
  OBVIOUS
<1>1. /\ left \in Seq(E) /\ Len(left) = p - 1
      /\ \A k \in 1 .. p - 1 : left[k] = s[k]
  <2>1. \A k \in 1 .. p - 1 : s[k] \in E
    BY <1>0
  <2>2. QED
    BY <1>0, <2>1, SubSeqProperties
<1>2. /\ right \in Seq(E) /\ Len(right) = Len(s) + 1 - p
      /\ \A k \in 1 .. Len(s) + 1 - p : right[k] = s[p + k - 1]
  <2>1. \A k \in p .. Len(s) : s[k] \in E
    BY <1>0
  <2>2. QED
    BY <1>0, <2>1, SubSeqProperties
<1>3. InsertAt(s, p, e) = front \o right
  BY DEF InsertAt
<1> HIDE DEF left, right
<1>4. /\ front \in Seq(E) /\ Len(front) = p
      /\ \A k \in 1 .. p : front[k] = IF k <= p - 1 THEN left[k] ELSE e
  <2>1. <<e>> \in Seq(E) /\ Len(<<e>>) = 1 /\ <<e>>[1] = e
    OBVIOUS
  <2>2. QED
    BY <1>0, <1>1, <2>1, ConcatProperties
<1> HIDE DEF front
<1>5. /\ InsertAt(s, p, e) \in Seq(E) /\ Len(InsertAt(s, p, e)) = Len(s) + 1
      /\ \A k \in 1 .. Len(s) + 1 :
           InsertAt(s, p, e)[k] = IF k <= p THEN front[k] ELSE right[k - p]
  <2>1. /\ front \o right \in Seq(E) /\ Len(front \o right) = Len(front) + Len(right)
        /\ \A k \in 1 .. Len(front) + Len(right) :
             (front \o right)[k] = IF k <= Len(front) THEN front[k] ELSE right[k - Len(front)]
    BY <1>2, <1>4, ConcatProperties
  <2>2. Len(front) + Len(right) = Len(s) + 1
    BY <1>0, <1>2, <1>4
  <2>3. QED
    BY <1>3, <1>4, <2>1, <2>2
<1>6. ASSUME NEW k \in 1 .. Len(s) + 1
      PROVE  InsertAt(s, p, e)[k] = IF k < p THEN s[k] ELSE IF k = p THEN e ELSE s[k - 1]
  <2>1. CASE k <= p
    BY <1>0, <1>1, <1>4, <1>5, <2>1
  <2>2. CASE k > p
    <3>1. k - p \in 1 .. Len(s) + 1 - p /\ p + (k - p) - 1 = k - 1
      BY <1>0, <2>2
    <3>2. right[k - p] = s[k - 1]
      BY <1>2, <3>1
    <3>3. ~(k <= p) /\ ~(k < p) /\ k # p
      BY <1>0, <2>2
    <3>4. QED
      BY <1>5, <3>2, <3>3
  <2>3. QED
    BY <1>0, <2>1, <2>2
<1>7. /\ \A k \in 1 .. p - 1 : k \in 1 .. Len(s) + 1 /\ k < p
      /\ p \in 1 .. Len(s) + 1 /\ ~(p < p)
      /\ \A k \in p + 1 .. Len(s) + 1 : k \in 1 .. Len(s) + 1 /\ ~(k < p) /\ k # p
  BY <1>0
<1>8. QED
  BY <1>5, <1>6, <1>7

(* A rule moves left past those it is less than, and stops.                *)
LEMMA InsertStops ==
  ASSUME NEW rs, NEW E, NEW s \in Seq(E), NEW i
  PROVE  \E p \in 1 .. Len(s) + 1 :
           /\ Insert(rs, s, i) = InsertAt(s, p, i)
           /\ p > 1 => ~Less(rs, i, s[p - 1])
           /\ \A k \in p .. Len(s) : Less(rs, i, s[k])
<1> DEFINE I == {k \in 1 .. Len(s) : ~Less(rs, i, s[k])}
           p == (IF I # {} THEN Max(I) ELSE 0) + 1
<1>0. Len(s) \in Nat
  OBVIOUS
<1>1. Insert(rs, s, i) = InsertAt(s, p, i)
  BY DEF Insert, SelectLastInSeq
<1>2. I \in SUBSET (1 .. Len(s))
  OBVIOUS
<1>3. CASE I = {}
  <2>1. p = 1 /\ \A k \in 1 .. Len(s) : Less(rs, i, s[k])
    BY <1>3
  <2>2. QED
    BY <1>0, <1>1, <2>1
<1>4. CASE I # {}
  <2>1. Max(I) \in I /\ \A k \in I : k <= Max(I)
    <3> HIDE DEF I
    <3>1. QED
      BY <1>0, <1>2, <1>4, MaxIsGreatest
  <2>2. p = Max(I) + 1
    BY <1>4
  <2>3. p \in 2 .. Len(s) + 1 /\ ~Less(rs, i, s[p - 1])
    <3>1. Max(I) \in 1 .. Len(s) /\ ~Less(rs, i, s[Max(I)])
      BY <2>1
    <3> HIDE DEF I, p
    <3>2. p - 1 = Max(I)
      BY <2>2, <3>1
    <3>3. QED
      BY <1>0, <2>2, <3>1, <3>2
  <2>4. ASSUME NEW k \in p .. Len(s) PROVE Less(rs, i, s[k])
    <3>1. k \notin I
      BY <1>0, <2>1, <2>2, <2>3
    <3>2. QED
      BY <1>0, <2>3, <3>1
  <2> HIDE DEF I, p
  <2>5. p \in 1 .. Len(s) + 1
    BY <1>0, <2>3
  <2>6. QED
    BY <1>1, <2>3, <2>4, <2>5
<1>5. QED
  BY <1>3, <1>4

-----------------------------------------------------------------------------
(* The sort                                                                *)

Stages(rs, n, stages) ==
  stages = [m \in 0 .. n |-> IF m = 0 THEN <<>> ELSE Insert(rs, stages[m - 1], m)]

(* The sort is defined by its rounds, ...                                  *)
LEMMA StagesExist ==
  ASSUME NEW rs, NEW n \in Nat
  PROVE  \E stages : Stages(rs, n, stages)
<1> DEFINE S == {m \in Nat : ~\E stages : Stages(rs, m, stages)}
<1>1. SUFFICES ASSUME S # {} PROVE FALSE
  OBVIOUS
<1>2. PICK m \in S : \A k \in S : m <= k
  <2>1. S \in SUBSET Nat
    OBVIOUS
  <2> HIDE DEF S
  <2>2. QED
    BY <1>1, <2>1, LeastNatural
<1>3. m # 0
  <2>1. Stages(rs, 0, [k \in 0 .. 0 |-> <<>>])
    BY DEF Stages
  <2>2. QED
    BY <1>2, <2>1
<1>4. PICK g : Stages(rs, m - 1, g)
  <2>1. m - 1 \in Nat /\ m - 1 \notin S
    BY <1>2, <1>3
  <2>2. QED
    BY <2>1
<1> DEFINE h == [k \in 0 .. m |-> IF k = m THEN Insert(rs, g[m - 1], m) ELSE g[k]]
<1>5. m \in Nat \ {0}
  BY <1>2, <1>3
<1>6. ASSUME NEW k \in 0 .. m
      PROVE  h[k] = IF k = 0 THEN <<>> ELSE Insert(rs, h[k - 1], k)
  <2>1. g = [l \in 0 .. m - 1 |-> IF l = 0 THEN <<>> ELSE Insert(rs, g[l - 1], l)]
    BY <1>4 DEF Stages
  <2>2. CASE k = m
    BY <1>5, <2>2
  <2>3. CASE k # m
    <3>1. k \in 0 .. m - 1 /\ h[k] = g[k]
      BY <1>5, <2>3
    <3>2. g[k] = IF k = 0 THEN <<>> ELSE Insert(rs, g[k - 1], k)
      BY <2>1, <3>1
    <3>3. k # 0 => h[k - 1] = g[k - 1]
      BY <1>5, <3>1
    <3>4. QED
      BY <3>1, <3>2, <3>3
  <2>4. QED
    BY <2>2, <2>3
<1>7. Stages(rs, m, h)
  BY <1>6 DEF Stages
<1>8. QED
  BY <1>2, <1>7

LEMMA SortedByRounds ==
  ASSUME NEW rs, Len(rs) \in Nat
  PROVE  /\ Sorted(rs)[0] = <<>>
         /\ \A n \in 1 .. Len(rs) : Sorted(rs)[n] = Insert(rs, Sorted(rs)[n - 1], n)
<1>1. PICK stages : Stages(rs, Len(rs), stages)
  BY StagesExist
<1>2. Sorted(rs)
        = [n \in 0 .. Len(rs) |-> IF n = 0 THEN <<>> ELSE Insert(rs, Sorted(rs)[n - 1], n)]
  BY <1>1 DEF Sorted, Stages
<1>3. QED
  BY <1>2

(* ... each of which leaves the rules so far sorted: by priority, and those *)
(* that are not prefixes by their place in the file, although the          *)
(* comparison is not a weak order.                                         *)
InOrder(rs, n, s) ==
  /\ s \in Seq(1 .. n)
  /\ \A i \in 1 .. n : \E k \in 1 .. Len(s) : s[k] = i
  /\ \A k, l \in 1 .. Len(s) : k < l => rs[s[k]].priority >= rs[s[l]].priority
  /\ \A k, l \in 1 .. Len(s) :
       /\ k < l /\ rs[s[k]].priority = rs[s[l]].priority
       /\ "prefix" \notin {rs[s[k]].type, rs[s[l]].type}
       => s[k] < s[l]

LEMMA InsertKeepsOrder ==
  ASSUME NEW rs \in Seq(Rules), NEW n \in 1 .. Len(rs), NEW s, InOrder(rs, n - 1, s)
  PROVE  InOrder(rs, n, Insert(rs, s, n))
<1>0. /\ Len(rs) \in Nat /\ \A i \in 1 .. n : rs[i].priority \in Int
      /\ s \in Seq(1 .. n) /\ Len(s) \in Nat
      /\ \A k \in 1 .. Len(s) : s[k] \in 1 .. n - 1
  <2>1. Len(rs) \in Nat /\ \A i \in 1 .. n : rs[i] \in Rules
    OBVIOUS
  <2>2. s \in Seq(1 .. n - 1)
    BY DEF InOrder
  <2>3. Len(s) \in Nat /\ \A k \in 1 .. Len(s) : s[k] \in 1 .. n - 1
    BY <2>2
  <2>4. 1 .. n - 1 \subseteq 1 .. n
    OBVIOUS
  <2>5. s \in Seq(1 .. n)
    BY <2>2, <2>4
  <2>6. QED
    BY <2>1, <2>3, <2>5, RulesAssumption
<1>1. PICK p \in 1 .. Len(s) + 1 :
        /\ Insert(rs, s, n) = InsertAt(s, p, n)
        /\ p > 1 => ~Less(rs, n, s[p - 1])
        /\ \A k \in p .. Len(s) : Less(rs, n, s[k])
  BY <1>0, InsertStops
<1> DEFINE t == InsertAt(s, p, n)
<1>2. /\ t \in Seq(1 .. n) /\ Len(t) = Len(s) + 1
      /\ \A k \in 1 .. Len(s) + 1 : t[k] = IF k < p THEN s[k] ELSE IF k = p THEN n ELSE s[k - 1]
  <2> DEFINE E == 1 .. n
  <2>1. n \in E /\ s \in Seq(E)
    BY <1>0
  <2> HIDE DEF E
  <2>2. /\ InsertAt(s, p, n) \in Seq(E)
        /\ Len(InsertAt(s, p, n)) = Len(s) + 1
        /\ \A k \in 1 .. p - 1 : InsertAt(s, p, n)[k] = s[k]
        /\ InsertAt(s, p, n)[p] = n
        /\ \A k \in p + 1 .. Len(s) + 1 : InsertAt(s, p, n)[k] = s[k - 1]
    BY <2>1, InsertedAt
  <2> HIDE DEF t
  <2>3. /\ t \in Seq(E) /\ Len(t) = Len(s) + 1
        /\ \A k \in 1 .. p - 1 : t[k] = s[k]
        /\ t[p] = n
        /\ \A k \in p + 1 .. Len(s) + 1 : t[k] = s[k - 1]
    BY <2>2 DEF t
  <2>4. \A k \in 1 .. Len(s) + 1 : t[k] = IF k < p THEN s[k] ELSE IF k = p THEN n ELSE s[k - 1]
    BY <1>0, <2>3
  <2>5. QED
    BY <2>3, <2>4 DEF E
<1> HIDE DEF t
<1>2a. Len(s) \in Nat /\ p \in 1 .. Len(s) + 1 /\ Len(t) = Len(s) + 1
  BY <1>0, <1>2
<1>2b. /\ \A k \in 1 .. p - 1 : t[k] = s[k]
       /\ t[p] = n
       /\ \A k \in p + 1 .. Len(s) + 1 : t[k] = s[k - 1]
  BY <1>2, <1>2a
<1>3. \A i \in 1 .. n : \E k \in 1 .. Len(t) : t[k] = i
  <2>1. t[p] = n /\ p \in 1 .. Len(t)
    BY <1>0, <1>2
  <2>2. ASSUME NEW i \in 1 .. n - 1 PROVE \E k \in 1 .. Len(t) : t[k] = i
    <3>1. PICK k \in 1 .. Len(s) : s[k] = i
      BY DEF InOrder
    <3>2. CASE k < p
      <4>1. k \in 1 .. p - 1 /\ k \in 1 .. Len(t)
        BY <1>2a, <3>2
      <4>2. QED
        BY <1>2b, <3>1, <4>1
    <3>3. CASE k >= p
      <4>1. k + 1 \in p + 1 .. Len(s) + 1 /\ k + 1 \in 1 .. Len(t) /\ (k + 1) - 1 = k
        BY <1>2a, <3>3
      <4>2. QED
        BY <1>2b, <3>1, <4>1
    <3>4. QED
      BY <1>2a, <3>2, <3>3
  <2>3. QED
    BY <2>1, <2>2
<1>4. \A k \in 1 .. p - 1 : rs[s[k]].priority >= rs[n].priority
  <2>1. ASSUME NEW k \in 1 .. p - 1 PROVE rs[s[k]].priority >= rs[n].priority
    <3>1. p > 1 /\ p - 1 \in 1 .. Len(s) /\ k \in 1 .. Len(s)
      BY <1>0
    <3>2. ~(rs[n].priority > rs[s[p - 1]].priority)
      BY <1>1, <3>1 DEF Less
    <3>3. /\ rs[n].priority \in Int /\ rs[s[p - 1]].priority \in Int /\ rs[s[k]].priority \in Int
      <4>1. s[p - 1] \in 1 .. n /\ s[k] \in 1 .. n /\ n \in 1 .. n
        BY <1>0, <3>1
      <4>2. QED
        BY <1>0, <4>1
    <3>4. rs[s[k]].priority >= rs[s[p - 1]].priority
      <4>1. CASE k = p - 1
        BY <3>3, <4>1
      <4>2. CASE k < p - 1
        BY <3>1, <4>2 DEF InOrder
      <4>3. QED
        BY <1>0, <4>1, <4>2
    <3>5. QED
      BY <3>2, <3>3, <3>4
  <2>2. QED
    BY <2>1
<1>5. \A k \in p .. Len(s) :
        /\ rs[n].priority >= rs[s[k]].priority
        /\ rs[n].priority = rs[s[k]].priority => "prefix" \in {rs[n].type, rs[s[k]].type}
  <2>1. ASSUME NEW k \in p .. Len(s)
        PROVE  /\ rs[n].priority >= rs[s[k]].priority
               /\ rs[n].priority = rs[s[k]].priority => "prefix" \in {rs[n].type, rs[s[k]].type}
    <3>1. Less(rs, n, s[k]) /\ k \in 1 .. Len(s)
      BY <1>0, <1>1
    <3>2. rs[n].priority \in Int /\ rs[s[k]].priority \in Int
      <4>1. s[k] \in 1 .. n /\ n \in 1 .. n
        BY <1>0, <3>1
      <4>2. QED
        BY <1>0, <4>1
    <3>3. QED
      BY <3>1, <3>2 DEF Less
  <2>2. QED
    BY <2>1
<1>6. ASSUME NEW k \in 1 .. Len(t), NEW l \in 1 .. Len(t), k < l
      PROVE  /\ rs[t[k]].priority >= rs[t[l]].priority
             /\ /\ rs[t[k]].priority = rs[t[l]].priority
                /\ "prefix" \notin {rs[t[k]].type, rs[t[l]].type}
                => t[k] < t[l]
  <2>1. CASE k # p /\ l # p
    <3>1. PICK x \in 1 .. Len(s), y \in 1 .. Len(s) : x < y /\ t[k] = s[x] /\ t[l] = s[y]
      <4>1. CASE l < p
        <5>1. k \in 1 .. p - 1 /\ l \in 1 .. p - 1 /\ k \in 1 .. Len(s) /\ l \in 1 .. Len(s)
          BY <1>2a, <1>6, <4>1
        <5>2. QED
          BY <1>2b, <1>6, <5>1
      <4>2. CASE k < p /\ p < l
        <5>1. /\ k \in 1 .. p - 1 /\ l \in p + 1 .. Len(s) + 1
              /\ k \in 1 .. Len(s) /\ l - 1 \in 1 .. Len(s) /\ k < l - 1
          BY <1>2a, <4>2
        <5>2. QED
          BY <1>2b, <5>1
      <4>3. CASE p < k
        <5>1. /\ k \in p + 1 .. Len(s) + 1 /\ l \in p + 1 .. Len(s) + 1
              /\ k - 1 \in 1 .. Len(s) /\ l - 1 \in 1 .. Len(s) /\ k - 1 < l - 1
          BY <1>2a, <1>6, <4>3
        <5>2. QED
          BY <1>2b, <5>1
      <4>4. l < p \/ (k < p /\ p < l) \/ p < k
        BY <1>2a, <2>1
      <4>5. QED
        BY <4>1, <4>2, <4>3, <4>4
    <3>2. QED
      BY <3>1 DEF InOrder
  <2>2. CASE l = p
    <3>1. k \in 1 .. p - 1 /\ k \in 1 .. Len(s)
      BY <1>2a, <1>6, <2>2
    <3>2. t[k] = s[k] /\ t[l] = n /\ s[k] < n
      BY <1>0, <1>2b, <2>2, <3>1
    <3>3. QED
      BY <1>4, <3>1, <3>2
  <2>3. CASE k = p
    <3>1. l \in p + 1 .. Len(s) + 1 /\ l - 1 \in p .. Len(s)
      BY <1>2a, <1>6, <2>3
    <3>2. t[l] = s[l - 1] /\ t[k] = n
      BY <1>2b, <2>3, <3>1
    <3>3. /\ rs[n].priority >= rs[s[l - 1]].priority
          /\ rs[n].priority = rs[s[l - 1]].priority => "prefix" \in {rs[n].type, rs[s[l - 1]].type}
      BY <1>5, <3>1
    <3>4. QED
      BY <3>2, <3>3
  <2>4. QED
    BY <2>1, <2>2, <2>3
<1>7. InOrder(rs, n, t)
  BY <1>2, <1>3, <1>6 DEF InOrder
<1>8. QED
  BY <1>1, <1>7 DEF t

LEMMA SortedInOrder ==
  ASSUME NEW rs \in Seq(Rules), NEW n \in 0 .. Len(rs)
  PROVE  InOrder(rs, n, Sorted(rs)[n])
<1> DEFINE S == {m \in 0 .. Len(rs) : ~InOrder(rs, m, Sorted(rs)[m])}
<1>0. Len(rs) \in Nat
  OBVIOUS
<1>1. SUFFICES ASSUME S # {} PROVE FALSE
  OBVIOUS
<1>2. PICK m \in S : \A k \in S : m <= k
  <2>1. S \in SUBSET Nat
    BY <1>0
  <2> HIDE DEF S
  <2>2. QED
    BY <1>1, <2>1, LeastNatural
<1>3. m # 0
  <2>1. InOrder(rs, 0, <<>>)
    BY DEF InOrder
  <2>2. QED
    BY <1>0, <1>2, <2>1, SortedByRounds
<1>4. InOrder(rs, m - 1, Sorted(rs)[m - 1])
  <2>1. m - 1 \in 0 .. Len(rs) /\ m - 1 \notin S
    BY <1>0, <1>2, <1>3
  <2>2. QED
    BY <2>1
<1>5. m \in 1 .. Len(rs) /\ Sorted(rs)[m] = Insert(rs, Sorted(rs)[m - 1], m)
  BY <1>0, <1>2, <1>3, SortedByRounds
<1>6. InOrder(rs, m, Sorted(rs)[m])
  BY <1>4, <1>5, InsertKeepsOrder
<1>7. QED
  BY <1>2, <1>6

-----------------------------------------------------------------------------
(* Finding                                                                 *)

Places(s, T) == {k \in 1 .. Len(s) : s[k] \in T}

FirstOf(s, T) == IF Places(s, T) = {} THEN NoRule ELSE s[Min(Places(s, T))]

LastOf(s, T) == IF Places(s, T) = {} THEN NoRule ELSE s[Max(Places(s, T))]

LEMMA FirstIsFirst ==
  ASSUME NEW E, NEW s \in Seq(E), NEW T, Places(s, T) # {}
  PROVE  \E k \in Places(s, T) : FirstOf(s, T) = s[k] /\ \A l \in Places(s, T) : k <= l
<1>1. Places(s, T) \in SUBSET Nat
  BY DEF Places
<1>2. QED
  BY <1>1, MinIsLeast DEF FirstOf

LEMMA LastIsLast ==
  ASSUME NEW E, NEW s \in Seq(E), NEW T, Places(s, T) # {}
  PROVE  \E k \in Places(s, T) : LastOf(s, T) = s[k] /\ \A l \in Places(s, T) : l <= k
<1>1. Places(s, T) \in SUBSET (1 .. Len(s)) /\ Len(s) \in Nat
  BY DEF Places
<1>2. QED
  BY <1>1, MaxIsGreatest DEF LastOf

ExactRules(host, path) ==
  {i \in DOMAIN rules : rules[i].type = "exact" /\ rules[i].host = host /\ rules[i].path = path}

RouterInv ==
  /\ rules \in Seq(Rules) /\ Len(rules) <= RuleBound
  /\ router = New(rules)

(* The stages of Match, as a choice of the rules that apply.               *)
LEMMA StagesOfMatch ==
  RouterInv =>
    \A host, path :
      /\ ExactAt(host, path) = LastOf(router.sorted, ExactRules(host, path))
      /\ MatchPrefix(host, path) = FirstOf(router.sorted, Applicable(host, path, {"prefix"}))
      /\ MatchRegex(host, path) = FirstOf(router.sorted, Applicable(host, path, {"regex", "glob"}))
<1> SUFFICES ASSUME RouterInv, NEW host, NEW path
             PROVE  /\ ExactAt(host, path) = LastOf(router.sorted, ExactRules(host, path))
                    /\ MatchPrefix(host, path) = FirstOf(router.sorted, Applicable(host, path, {"prefix"}))
                    /\ MatchRegex(host, path) = FirstOf(router.sorted, Applicable(host, path, {"regex", "glob"}))
  OBVIOUS
<1> DEFINE s == router.sorted
<1>1. /\ s \in Seq(1 .. Len(rules)) /\ Len(s) \in Nat /\ DOMAIN rules = 1 .. Len(rules)
      /\ \A k \in 1 .. Len(s) : s[k] \in DOMAIN rules
  <2>1. Len(rules) \in Nat /\ Len(rules) \in 0 .. Len(rules) /\ s = Sorted(rules)[Len(rules)]
    BY DEF RouterInv, New, Sort
  <2>2. s \in Seq(1 .. Len(rules))
    BY <2>1, SortedInOrder DEF RouterInv, InOrder
  <2>3. QED
    BY <2>1, <2>2 DEF RouterInv
<1>2. \A k \in Nat \ {0} : At(k) = s[k]
  BY DEF At
<1>3. At(0) = NoRule
  BY DEF At
<1> HIDE DEF s
<1>4. ExactAt(host, path) = LastOf(s, ExactRules(host, path))
  <2> DEFINE I == {k \in 1 .. Len(s) : /\ rules[s[k]].type = "exact" /\ rules[s[k]].host = host
                                       /\ rules[s[k]].path = path}
  <2>1. ExactAt(host, path) = At(IF I # {} THEN Max(I) ELSE 0)
    BY DEF ExactAt, SelectLastInSeq, s
  <2>2. I = Places(s, ExactRules(host, path))
    BY <1>1 DEF Places, ExactRules
  <2>3. I # {} => Max(I) \in Nat \ {0}
    <3>1. I \in SUBSET (1 .. Len(s))
      OBVIOUS
    <3> HIDE DEF I
    <3>2. ASSUME I # {} PROVE Max(I) \in 1 .. Len(s)
      BY <1>1, <3>1, <3>2, MaxIsGreatest
    <3>3. QED
      BY <1>1, <3>2
  <2> HIDE DEF I
  <2>4. QED
    BY <1>2, <1>3, <2>1, <2>2, <2>3 DEF LastOf
<1>5. MatchPrefix(host, path) = FirstOf(s, Applicable(host, path, {"prefix"}))
  <2> DEFINE I == {k \in 1 .. Len(s) : /\ rules[s[k]].type = "prefix" /\ HostFits(s[k], host)
                                       /\ IsPrefix(rules[s[k]].path, path)}
  <2>1. MatchPrefix(host, path) = At(IF I # {} THEN Min(I) ELSE 0)
    BY DEF MatchPrefix, SelectInSeq, s
  <2>2. I = Places(s, Applicable(host, path, {"prefix"}))
    BY <1>1 DEF Places, Applicable, Applies
  <2>3. I # {} => Min(I) \in Nat \ {0}
    <3>1. I \in SUBSET Nat /\ 0 \notin I
      OBVIOUS
    <3> HIDE DEF I
    <3>2. QED
      BY <3>1, MinIsLeast
  <2> HIDE DEF I
  <2>4. QED
    BY <1>2, <1>3, <2>1, <2>2, <2>3 DEF FirstOf
<1>6. MatchRegex(host, path) = FirstOf(s, Applicable(host, path, {"regex", "glob"}))
  <2> DEFINE I == {k \in 1 .. Len(s) : /\ rules[s[k]].type \in {"regex", "glob"} /\ HostFits(s[k], host)
                                       /\ path \in rules[s[k]].accepts}
  <2>1. MatchRegex(host, path) = At(IF I # {} THEN Min(I) ELSE 0)
    BY DEF MatchRegex, SelectInSeq, s
  <2>2. I = Places(s, Applicable(host, path, {"regex", "glob"}))
    BY <1>1 DEF Places, Applicable, Applies
  <2>3. I # {} => Min(I) \in Nat \ {0}
    <3>1. I \in SUBSET Nat /\ 0 \notin I
      OBVIOUS
    <3> HIDE DEF I
    <3>2. QED
      BY <3>1, MinIsLeast
  <2> HIDE DEF I
  <2>4. QED
    BY <1>2, <1>3, <2>1, <2>2, <2>3 DEF FirstOf
<1>7. QED
  BY <1>4, <1>5, <1>6 DEF s

LEMMA StagesNext ==
  RouterInv' =>
    (\A host, path :
      /\ ExactAt(host, path) = LastOf(router.sorted, ExactRules(host, path))
      /\ MatchPrefix(host, path) = FirstOf(router.sorted, Applicable(host, path, {"prefix"}))
      /\ MatchRegex(host, path) = FirstOf(router.sorted, Applicable(host, path, {"regex", "glob"})))'
BY StagesOfMatch, PTL

(* The first stage that finds a rule answers.                              *)
LEMMA MatchIsFirstStage ==
  \A host, path :
    Match(host, path) =
      IF MatchExact(host, path) # NoRule THEN MatchExact(host, path)
      ELSE IF MatchPrefix(host, path) # NoRule THEN MatchPrefix(host, path)
      ELSE MatchRegex(host, path)
<1> SUFFICES ASSUME NEW host, NEW path
             PROVE  Match(host, path) =
                      IF MatchExact(host, path) # NoRule THEN MatchExact(host, path)
                      ELSE IF MatchPrefix(host, path) # NoRule THEN MatchPrefix(host, path)
                      ELSE MatchRegex(host, path)
  OBVIOUS
<1> DEFINE found == <<MatchExact(host, path), MatchPrefix(host, path), MatchRegex(host, path)>>
           I == {k \in 1 .. Len(found) : found[k] # NoRule}
           hit == IF I # {} THEN Min(I) ELSE 0
<1>1. Match(host, path) = IF hit = 0 THEN NoRule ELSE found[hit]
  BY DEF Match, SelectInSeq
<1>2. I \subseteq {1, 2, 3} /\ \A k \in {1, 2, 3} : k \in I <=> found[k] # NoRule
  OBVIOUS
<1>3. I # {} => Min(I) \in I /\ \A k \in I : Min(I) <= k
  <2>1. I \in SUBSET Nat
    OBVIOUS
  <2> HIDE DEF I
  <2>2. QED
    BY <2>1, MinIsLeast
<1>4. /\ found[1] = MatchExact(host, path) /\ found[2] = MatchPrefix(host, path)
      /\ found[3] = MatchRegex(host, path)
  OBVIOUS
<1> HIDE DEF found, I
<1>5. hit = IF 1 \in I THEN 1 ELSE IF 2 \in I THEN 2 ELSE IF 3 \in I THEN 3 ELSE 0
  <2>1. CASE I = {}
    BY <2>1
  <2>2. CASE I # {}
    <3>1. hit \in I /\ hit \in {1, 2, 3} /\ \A k \in I : hit <= k
      BY <1>2, <1>3, <2>2
    <3> HIDE DEF hit
    <3>2. QED
      BY <3>1
  <2>3. QED
    BY <2>1, <2>2
<1> HIDE DEF hit
<1>6. QED
  BY <1>1, <1>2, <1>4, <1>5

LEMMA MatchNext ==
  (\A host, path :
    Match(host, path) =
      IF MatchExact(host, path) # NoRule THEN MatchExact(host, path)
      ELSE IF MatchPrefix(host, path) # NoRule THEN MatchPrefix(host, path)
      ELSE MatchRegex(host, path))'
BY MatchIsFirstStage, PTL

LEMMA RouterAlways == Spec => []RouterInv
<1>1. Init => RouterInv
  <2> SUFFICES ASSUME Init PROVE RouterInv
    OBVIOUS
  <2>1. PICK r \in Rules : rules = <<r>> /\ router = New(<<r>>)
    BY DEF Init
  <2>2. rules \in Seq(Rules) /\ Len(rules) = 1
    BY <2>1
  <2>3. QED
    BY <2>1, <2>2, NoRuleAssumption DEF RouterInv
<1>2. RouterInv /\ [Next]_vars => RouterInv'
  <2> SUFFICES ASSUME RouterInv, [Next]_vars PROVE RouterInv'
    OBVIOUS
  <2>1. CASE Next
    <3>1. PICK r \in Rules : Len(rules) < RuleBound /\ Load(Append(rules, r))
      BY <2>1 DEF Next, AppendRule
    <3>2. rules' \in Seq(Rules) /\ Len(rules') = Len(rules) + 1 /\ router' = New(rules')
      BY <3>1, AppendProperties DEF Load, RouterInv
    <3>3. Len(rules') <= RuleBound
      BY <3>1, <3>2, NoRuleAssumption DEF RouterInv
    <3>4. QED
      BY <3>2, <3>3 DEF RouterInv
  <2>2. CASE UNCHANGED vars
    BY <2>2 DEF vars, RouterInv
  <2>3. QED
    BY <2>1, <2>2
<1>3. QED
  BY <1>1, <1>2, PTL DEF Spec

(* What is sorted is all the rules.                                        *)
LEMMA SortedIsComplete ==
  ASSUME RouterInv
  PROVE  /\ InOrder(rules, Len(rules), router.sorted)
         /\ router.sorted \in Seq(DOMAIN rules) /\ Len(router.sorted) \in Nat
         /\ DOMAIN rules = 1 .. Len(rules) /\ Len(rules) \in Nat
         /\ NoRule \notin DOMAIN rules
<1>1. /\ Len(rules) \in Nat /\ Len(rules) \in 0 .. Len(rules) /\ DOMAIN rules = 1 .. Len(rules)
      /\ router.sorted = Sorted(rules)[Len(rules)]
  BY DEF RouterInv, New, Sort
<1>2. InOrder(rules, Len(rules), router.sorted)
  BY <1>1, SortedInOrder DEF RouterInv
<1>3. router.sorted \in Seq(DOMAIN rules) /\ Len(router.sorted) \in Nat
  BY <1>1, <1>2 DEF InOrder
<1>4. NoRule \notin DOMAIN rules
  BY <1>1, NoRuleAssumption DEF RouterInv
<1>5. QED
  BY <1>1, <1>2, <1>3, <1>4

(* So a rule is found among those looked for exactly if there is one.      *)
LEMMA FindsOneOf ==
  ASSUME RouterInv, NEW T \in SUBSET DOMAIN rules
  PROVE  /\ T = {} => FirstOf(router.sorted, T) = NoRule /\ LastOf(router.sorted, T) = NoRule
         /\ T # {} => FirstOf(router.sorted, T) \in T /\ LastOf(router.sorted, T) \in T
<1>1. CASE T = {}
  BY <1>1 DEF FirstOf, LastOf, Places
<1>2. CASE T # {}
  <2>1. PICK k \in 1 .. Len(router.sorted) : router.sorted[k] \in T
    BY <1>2, SortedIsComplete DEF InOrder
  <2>2. Places(router.sorted, T) # {} /\ \A l \in Places(router.sorted, T) : router.sorted[l] \in T
    BY <2>1 DEF Places
  <2>3. QED
    BY <1>2, <2>2, SortedIsComplete, FirstIsFirst, LastIsLast
<1>3. QED
  BY <1>1, <1>2

(* The rule that answers is of the first stage that has one.               *)
LEMMA MatchChooses ==
  ASSUME RouterInv, NEW host, NEW path
  PROVE  LET exact   == Applicable(host, path, {"exact"})
             prefix  == Applicable(host, path, {"prefix"})
             pattern == Applicable(host, path, {"regex", "glob"})
         IN  /\ exact # {} => Match(host, path) \in exact
             /\ exact = {} => Match(host, path) = FirstOf(router.sorted, IF prefix # {} THEN prefix ELSE pattern)
<1> DEFINE exact   == Applicable(host, path, {"exact"})
           prefix  == Applicable(host, path, {"prefix"})
           pattern == Applicable(host, path, {"regex", "glob"})
<1>1. /\ exact = ExactRules(host, path) \union ExactRules(NoHost, path)
      /\ ExactRules(host, path) \in SUBSET DOMAIN rules
      /\ ExactRules(NoHost, path) \in SUBSET DOMAIN rules
  BY DEF ExactRules, Applicable, Applies, HostFits
<1>2. prefix \in SUBSET DOMAIN rules /\ pattern \in SUBSET DOMAIN rules
  BY DEF Applicable
<1>3. /\ ExactAt(host, path) = LastOf(router.sorted, ExactRules(host, path))
      /\ ExactAt(NoHost, path) = LastOf(router.sorted, ExactRules(NoHost, path))
      /\ MatchPrefix(host, path) = FirstOf(router.sorted, prefix)
      /\ MatchRegex(host, path) = FirstOf(router.sorted, pattern)
  BY StagesOfMatch
<1>4. NoRule \notin DOMAIN rules
  BY SortedIsComplete
<1> HIDE DEF exact, prefix, pattern
<1>5. IF exact # {} THEN MatchExact(host, path) \in exact /\ MatchExact(host, path) # NoRule
                    ELSE MatchExact(host, path) = NoRule
  BY <1>1, <1>3, <1>4, FindsOneOf DEF MatchExact
<1>6. IF prefix # {} THEN MatchPrefix(host, path) # NoRule ELSE MatchPrefix(host, path) = NoRule
  BY <1>2, <1>3, <1>4, FindsOneOf
<1>7. QED
  BY <1>3, <1>5, <1>6, MatchIsFirstStage DEF exact, prefix, pattern

LEMMA MatchApplies ==
  ASSUME RouterInv, NEW host, NEW path
  PROVE  LET all == Applicable(host, path, {"exact", "prefix", "regex", "glob"})
         IN  IF all = {} THEN Match(host, path) = NoRule
             ELSE Match(host, path) \in all /\ Match(host, path) # NoRule
<1> DEFINE exact   == Applicable(host, path, {"exact"})
           prefix  == Applicable(host, path, {"prefix"})
           pattern == Applicable(host, path, {"regex", "glob"})
           all     == Applicable(host, path, {"exact", "prefix", "regex", "glob"})
<1>1. all = exact \union prefix \union pattern
  BY DEF Applicable
<1>2. prefix \in SUBSET DOMAIN rules /\ pattern \in SUBSET DOMAIN rules
  BY DEF Applicable
<1>3. /\ exact # {} => Match(host, path) \in exact
      /\ exact = {} => Match(host, path) = FirstOf(router.sorted, IF prefix # {} THEN prefix ELSE pattern)
  BY MatchChooses
<1>4. NoRule \notin DOMAIN rules /\ all \subseteq DOMAIN rules
  BY SortedIsComplete DEF Applicable
<1> HIDE DEF exact, prefix, pattern
<1>5. QED
  BY <1>1, <1>2, <1>3, <1>4, FindsOneOf

(* For any number of rules: the three-stage lookup answers no request with *)
(* a rule that does not cover it, and misses none that a rule covers and   *)
(* whose host names no port (router.go:119-200).                           *)
THEOREM NothingIsMissed == Spec => []MissesNothing
<1>1. RouterInv => MissesNothing
  BY MatchApplies DEF MissesNothing, Covering
<1>2. QED
  BY <1>1, RouterAlways, PTL

(* For any number of rules: while no rule names a port, a host turned away *)
(* early is one no rule would have answered (router.go:72-94).             *)
THEOREM ShortCutIsHarmless == Spec => []RejectionIsHarmless
<1>1. RouterInv => RejectionIsHarmless
  <2> SUFFICES ASSUME RouterInv, \A i \in DOMAIN rules : Len(rules[i].host) < 2,
                      NEW host \in Hosts, NEW path \in Paths, Match(host, path) # NoRule
               PROVE  IsAllowedHost(host)
    BY DEF RejectionIsHarmless
  <2> DEFINE i == Match(host, path)
  <2>1. i \in DOMAIN rules /\ rules[i].host \in {NoHost, host}
    BY MatchApplies DEF Applicable, Applies, HostFits
  <2> HIDE DEF i
  <2>2. /\ router.allowedHosts = {rules[j].host : j \in DOMAIN rules} \ {NoHost}
        /\ router.allowAnyHost = (\E j \in DOMAIN rules : rules[j].host = NoHost)
    BY DEF RouterInv, New
  <2>3. CASE rules[i].host = NoHost
    BY <2>1, <2>2, <2>3 DEF IsAllowedHost
  <2>4. CASE rules[i].host # NoHost
    <3>1. rules[i].host = host /\ Len(host) < 2
      BY <2>1, <2>4
    <3>2. StripPort(host) = host
      <4>1. ASSUME Len(host) = 2 PROVE FALSE
        <5>1. 2 < 2
          BY <3>1, <4>1, Zenon
        <5>2. QED
          BY <5>1
      <4>2. QED
        BY <4>1, Zenon DEF StripPort
    <3>3. host \in router.allowedHosts
      BY <2>1, <2>2, <2>4, <3>1
    <3>4. QED
      BY <3>2, <3>3 DEF IsAllowedHost
  <2>5. QED
    BY <2>3, <2>4
<1>2. QED
  BY <1>1, RouterAlways, PTL

(* The first of several rules in sorted order.                             *)
LEMMA FirstIsBest ==
  ASSUME RouterInv, NEW T \in SUBSET DOMAIN rules, NEW j \in T
  PROVE  LET i == FirstOf(router.sorted, T)
         IN  /\ rules[i].priority >= rules[j].priority
             /\ /\ rules[i].priority = rules[j].priority
                /\ "prefix" \notin {rules[i].type, rules[j].type}
                => i <= j
<1> DEFINE s == router.sorted
           i == FirstOf(s, T)
<1>1. /\ InOrder(rules, Len(rules), s) /\ s \in Seq(DOMAIN rules) /\ Len(s) \in Nat
      /\ DOMAIN rules = 1 .. Len(rules) /\ Len(rules) \in Nat
  BY SortedIsComplete
<1>2. PICK l \in 1 .. Len(s) : s[l] = j
  BY <1>1 DEF InOrder
<1>3. l \in Places(s, T)
  BY <1>2 DEF Places
<1>4. PICK k \in Places(s, T) : i = s[k] /\ k <= l
  BY <1>1, <1>3, FirstIsFirst
<1>5. k \in 1 .. Len(s)
  BY <1>4 DEF Places
<1> HIDE DEF s, i
<1>6. rules[j].priority \in Int /\ j \in Nat
  BY <1>1, RulesAssumption DEF RouterInv
<1>7. CASE k = l
  BY <1>2, <1>4, <1>6, <1>7 DEF s, i
<1>8. CASE k < l
  <2>1. /\ rules[s[k]].priority >= rules[s[l]].priority
        /\ /\ rules[s[k]].priority = rules[s[l]].priority
           /\ "prefix" \notin {rules[s[k]].type, rules[s[l]].type}
           => s[k] < s[l]
    BY <1>1, <1>5, <1>8 DEF InOrder
  <2>2. i \in Nat
    BY <1>1, <1>4, <1>5
  <2>3. QED
    BY <1>2, <1>4, <1>6, <2>1, <2>2 DEF s, i
<1>9. QED
  BY <1>1, <1>4, <1>5, <1>7, <1>8

(* For any number of rules sorted by insertion, as up to 20 are: a prefix, *)
(* regex or glob rule that answers has the highest priority among the      *)
(* covering rules of its own type, and for a regex or a glob it is the     *)
(* first of the file among those of that priority, although the comparison *)
(* is not a weak order (router.go:41-52, 157-200).                         *)
THEOREM BestAnswers == Spec => []BestOfItsKind
<1>1. RouterInv => BestOfItsKind
  <2> SUFFICES ASSUME RouterInv, NEW host \in Hosts, NEW path \in Paths,
                      Match(host, path) # NoRule, rules[Match(host, path)].type # "exact",
                      NEW j \in Applicable(host, path, {rules[Match(host, path)].type})
               PROVE  /\ rules[Match(host, path)].priority >= rules[j].priority
                      /\ /\ rules[Match(host, path)].priority = rules[j].priority
                         /\ rules[Match(host, path)].type # "prefix"
                         => Match(host, path) <= j
    BY DEF BestOfItsKind
  <2> DEFINE i       == Match(host, path)
             exact   == Applicable(host, path, {"exact"})
             prefix  == Applicable(host, path, {"prefix"})
             pattern == Applicable(host, path, {"regex", "glob"})
             rivals  == IF prefix # {} THEN prefix ELSE pattern
  <2>1. exact = {} /\ i = FirstOf(router.sorted, rivals)
    <3>1. exact # {} => rules[i].type = "exact"
      BY MatchChooses DEF Applicable
    <3>2. QED
      BY <3>1, MatchChooses
  <2>2. rivals \in SUBSET DOMAIN rules
    BY DEF Applicable
  <2>3. rivals # {} /\ i \in rivals
    <3> HIDE DEF rivals, i
    <3>1. i # NoRule
      BY DEF i
    <3>2. QED
      BY <2>1, <2>2, <3>1, FindsOneOf
  <2>4. rules[i].type = "prefix" <=> prefix # {}
    BY <2>3 DEF Applicable
  <2>5. j \in rivals
    <3>1. j \in DOMAIN rules /\ rules[j].type = rules[i].type /\ Applies(j, host, path)
      BY DEF Applicable
    <3>2. QED
      BY <2>3, <2>4, <3>1 DEF Applicable
  <2>6. rules[i].type # "prefix" => "prefix" \notin {rules[i].type, rules[j].type}
    BY <2>4, <2>5 DEF Applicable
  <2>7. /\ rules[i].priority >= rules[j].priority
        /\ /\ rules[i].priority = rules[j].priority
           /\ "prefix" \notin {rules[i].type, rules[j].type}
           => i <= j
    <3> HIDE DEF rivals, i
    <3>1. QED
      BY <2>1, <2>2, <2>5, FirstIsBest
  <2>8. QED
    BY <2>6, <2>7
<1>2. QED
  BY <1>1, RouterAlways, PTL

-----------------------------------------------------------------------------
(* One more rule                                                           *)

(* A rule at the end of the file plays no part in the rounds before its own.*)
LEMMA RoundsAgree ==
  ASSUME NEW rs \in Seq(Rules), NEW r \in Rules, NEW n \in 0 .. Len(rs)
  PROVE  Sorted(Append(rs, r))[n] = Sorted(rs)[n]
<1> DEFINE more == Append(rs, r)
           S == {m \in 0 .. Len(rs) : Sorted(more)[m] # Sorted(rs)[m]}
<1>0. /\ Len(rs) \in Nat /\ more \in Seq(Rules) /\ Len(more) = Len(rs) + 1
      /\ \A i \in 1 .. Len(rs) : more[i] = rs[i]
  BY AppendProperties
<1> HIDE DEF more
<1>1. SUFFICES ASSUME S # {} PROVE FALSE
  BY DEF more
<1>2. PICK m \in S : \A k \in S : m <= k
  <2>1. S \in SUBSET Nat
    BY <1>0
  <2> HIDE DEF S
  <2>2. QED
    BY <1>1, <2>1, LeastNatural
<1>3. m # 0
  BY <1>0, <1>2, SortedByRounds
<1> DEFINE s == Sorted(rs)[m - 1]
<1>4. Sorted(more)[m - 1] = s
  <2>1. m - 1 \in 0 .. Len(rs) /\ m - 1 \notin S
    BY <1>0, <1>2, <1>3
  <2>2. QED
    BY <2>1
<1>5. m \in 1 .. Len(rs) /\ m \in 1 .. Len(more)
  BY <1>0, <1>2, <1>3
<1>6. Sorted(more)[m] = Insert(more, s, m) /\ Sorted(rs)[m] = Insert(rs, s, m)
  BY <1>0, <1>4, <1>5, SortedByRounds
<1>7. Len(s) \in Nat /\ \A k \in 1 .. Len(s) : s[k] \in 1 .. Len(rs)
  <2>1. InOrder(rs, m - 1, s) /\ m - 1 \in Nat
    BY <1>0, <1>5, SortedInOrder
  <2> HIDE DEF s
  <2>2. s \in Seq(1 .. m - 1)
    BY <2>1 DEF InOrder
  <2>3. Len(s) \in Nat /\ \A k \in 1 .. Len(s) : s[k] \in 1 .. m - 1
    BY <2>2
  <2>4. QED
    BY <1>0, <1>5, <2>1, <2>3
<1> HIDE DEF s
<1>8. Insert(more, s, m) = Insert(rs, s, m)
  <2> DEFINE I(q) == {k \in 1 .. Len(s) : ~Less(q, m, s[k])}
  <2>1. \A k \in 1 .. Len(s) : Less(more, m, s[k]) <=> Less(rs, m, s[k])
    BY <1>0, <1>5, <1>7 DEF Less
  <2>2. I(more) = I(rs)
    BY <2>1
  <2>3. \A q \in {more, rs} : Insert(q, s, m) = InsertAt(s, (IF I(q) # {} THEN Max(I(q)) ELSE 0) + 1, m)
    BY DEF Insert, SelectLastInSeq
  <2> HIDE DEF I
  <2>4. QED
    BY <2>2, <2>3
<1>9. QED
  BY <1>2, <1>6, <1>8

(* What is inserted elsewhere is not looked at.                            *)
LEMMA InsertedAside ==
  ASSUME NEW E, NEW s \in Seq(E), NEW e \in E, NEW p \in 1 .. Len(s) + 1, NEW T, e \notin T
  PROVE  /\ FirstOf(InsertAt(s, p, e), T) = FirstOf(s, T)
         /\ LastOf(InsertAt(s, p, e), T) = LastOf(s, T)
<1>0. /\ InsertAt(s, p, e) \in Seq(E)
      /\ Len(InsertAt(s, p, e)) = Len(s) + 1
      /\ \A k \in 1 .. p - 1 : InsertAt(s, p, e)[k] = s[k]
      /\ InsertAt(s, p, e)[p] = e
      /\ \A k \in p + 1 .. Len(s) + 1 : InsertAt(s, p, e)[k] = s[k - 1]
  <2>1. InsertAt(s, p, e) \in Seq(E) /\ Len(InsertAt(s, p, e)) = Len(s) + 1
    BY InsertedAt
  <2>2. \A k \in 1 .. p - 1 : InsertAt(s, p, e)[k] = s[k]
    BY InsertedAt
  <2>3. InsertAt(s, p, e)[p] = e
    BY InsertedAt
  <2>4. \A k \in p + 1 .. Len(s) + 1 : InsertAt(s, p, e)[k] = s[k - 1]
    BY InsertedAt
  <2>5. QED
    BY <2>1, <2>2, <2>3, <2>4
<1> DEFINE t == InsertAt(s, p, e)
<1>1. t \in Seq(E) /\ Len(s) \in Nat /\ Len(t) = Len(s) + 1
  BY <1>0
<1> HIDE DEF t
<1>2. \A k \in 1 .. Len(s) + 1 : t[k] = IF k < p THEN s[k] ELSE IF k = p THEN e ELSE s[k - 1]
  <2>1. /\ \A k \in 1 .. p - 1 : t[k] = s[k]
        /\ t[p] = e
        /\ \A k \in p + 1 .. Len(s) + 1 : t[k] = s[k - 1]
    BY <1>0 DEF t
  <2>2. QED
    BY <1>1, <2>1
<1> DEFINE Right(k) == IF k < p THEN k ELSE k + 1
           Left(k) == IF k < p THEN k ELSE k - 1
<1>3. ASSUME NEW k \in Places(s, T)
      PROVE  Right(k) \in Places(t, T) /\ t[Right(k)] = s[k]
  <2>1. k \in 1 .. Len(s) /\ s[k] \in T
    BY DEF Places
  <2>2. Right(k) \in 1 .. Len(t) /\ t[Right(k)] = s[k]
    <3>1. CASE k < p
      BY <1>1, <1>2, <2>1, <3>1
    <3>2. CASE ~(k < p)
      <4>1. Right(k) = k + 1 /\ k + 1 \in 1 .. Len(s) + 1 /\ ~(k + 1 < p) /\ k + 1 # p /\ (k + 1) - 1 = k
        BY <1>1, <2>1, <3>2
      <4>2. QED
        BY <1>1, <1>2, <4>1
    <3>3. QED
      BY <3>1, <3>2
  <2>3. QED
    BY <2>1, <2>2 DEF Places
<1>4. ASSUME NEW k \in Places(t, T)
      PROVE  Left(k) \in Places(s, T) /\ k # p
  <2>1. k \in 1 .. Len(s) + 1 /\ t[k] \in T
    BY <1>1 DEF Places
  <2>2. k # p
    BY <1>2, <2>1
  <2>3. CASE k < p
    BY <1>1, <1>2, <2>1, <2>2, <2>3 DEF Places
  <2>4. CASE ~(k < p)
    <3>1. Left(k) = k - 1 /\ k - 1 \in 1 .. Len(s)
      BY <1>1, <2>1, <2>2, <2>4
    <3>2. s[k - 1] \in T
      BY <1>2, <2>1, <2>2, <2>4
    <3>3. QED
      BY <2>2, <3>1, <3>2 DEF Places
  <2>5. QED
    BY <2>3, <2>4
<1>5. Places(s, T) = {} <=> Places(t, T) = {}
  BY <1>3, <1>4
<1>6. Places(s, T) \subseteq Nat /\ Places(t, T) \subseteq Nat /\ p \in Nat
  BY <1>1 DEF Places
<1>7. CASE Places(s, T) = {}
  BY <1>5, <1>7 DEF FirstOf, LastOf, t
<1>8. CASE Places(s, T) # {}
  <2>1. PICK k \in Places(s, T) : FirstOf(s, T) = s[k] /\ \A x \in Places(s, T) : k <= x
    BY <1>8, FirstIsFirst
  <2>2. PICK l \in Places(t, T) : FirstOf(t, T) = t[l] /\ \A x \in Places(t, T) : l <= x
    BY <1>1, <1>5, <1>8, FirstIsFirst
  <2>3. l <= Right(k) /\ k <= Left(l) /\ l # p /\ k \in Nat /\ l \in Nat
    BY <1>3, <1>4, <1>6, <2>1, <2>2
  <2>4. l = Right(k)
    BY <1>6, <2>3
  <2>5. FirstOf(t, T) = FirstOf(s, T)
    BY <1>3, <2>1, <2>2, <2>4
  <2>6. PICK x \in Places(s, T) : LastOf(s, T) = s[x] /\ \A y \in Places(s, T) : y <= x
    BY <1>8, LastIsLast
  <2>7. PICK y \in Places(t, T) : LastOf(t, T) = t[y] /\ \A z \in Places(t, T) : z <= y
    BY <1>1, <1>5, <1>8, LastIsLast
  <2>8. Right(x) <= y /\ Left(y) <= x /\ y # p /\ x \in Nat /\ y \in Nat
    BY <1>3, <1>4, <1>6, <2>6, <2>7
  <2>9. y = Right(x)
    BY <1>6, <2>8
  <2>10. LastOf(t, T) = LastOf(s, T)
    BY <1>3, <2>6, <2>7, <2>9
  <2>11. QED
    BY <2>5, <2>10 DEF t
<1>9. QED
  BY <1>7, <1>8

(* The rules that apply to a request it does not cover stay the same.      *)
LEMMA OthersApply ==
  ASSUME RouterInv, NEW r \in Rules, rules' = Append(rules, r), NEW host, NEW path,
         ~Applies(Len(rules), host, path)'
  PROVE  /\ \A types : Applicable(host, path, types)' = Applicable(host, path, types)
         /\ \A h \in {host, NoHost} : ExactRules(h, path)' = ExactRules(h, path)
<1>1. /\ Len(rules) \in Nat /\ DOMAIN rules = 1 .. Len(rules)
      /\ DOMAIN rules' = 1 .. Len(rules) + 1 /\ Len(rules') = Len(rules) + 1
      /\ \A i \in 1 .. Len(rules) : rules'[i] = rules[i]
  BY AppendProperties DEF RouterInv
<1>2. \A i \in DOMAIN rules : Applies(i, host, path)' <=> Applies(i, host, path)
  BY <1>1 DEF Applies, HostFits
<1>3. /\ \A i \in DOMAIN rules' : i \in DOMAIN rules \/ i = Len(rules')
      /\ DOMAIN rules \subseteq DOMAIN rules' /\ Len(rules') \notin DOMAIN rules
  BY <1>1
<1>4. ~(/\ rules'[Len(rules')].host \in {NoHost, host}
        /\ CASE rules'[Len(rules')].type = "exact" -> rules'[Len(rules')].path = path
             [] rules'[Len(rules')].type = "prefix" -> IsPrefix(rules'[Len(rules')].path, path)
             [] OTHER -> path \in rules'[Len(rules')].accepts)
  BY DEF Applies, HostFits
<1>5. ASSUME NEW types PROVE Applicable(host, path, types)' = Applicable(host, path, types)
  <2>1. \A i \in DOMAIN rules' :
          i \in Applicable(host, path, types)' <=> i \in Applicable(host, path, types)
    <3>1. ASSUME NEW i \in DOMAIN rules PROVE i \in Applicable(host, path, types)' <=> i \in Applicable(host, path, types)
      BY <1>1, <1>2, <1>3 DEF Applicable
    <3>2. Len(rules') \notin Applicable(host, path, types)' /\ Len(rules') \notin Applicable(host, path, types)
      BY <1>3 DEF Applicable
    <3>3. QED
      BY <1>3, <3>1, <3>2
  <2>2. QED
    BY <1>3, <2>1 DEF Applicable
<1>6. ASSUME NEW h \in {host, NoHost} PROVE ExactRules(h, path)' = ExactRules(h, path)
  <2>1. ~(rules'[Len(rules')].type = "exact" /\ rules'[Len(rules')].host = h /\ rules'[Len(rules')].path = path)
    BY <1>4
  <2>2. QED
    BY <1>1, <1>3, <2>1 DEF ExactRules
<1>7. QED
  BY <1>5, <1>6

(* For any number of rules sorted by insertion, as up to 20 are: one more  *)
(* at the end of the file changes no answer to a request it does not       *)
(* cover, wherever the sort puts it (router.go:38-70).                     *)
THEOREM UnrelatedIsNeutral == Spec => UnrelatedRuleIsNeutral
<1>1. RouterInv /\ RouterInv' /\ [Next]_vars =>
        [\A host \in Hosts, path \in Paths :
           ~Applies(Len(rules), host, path)' => Match(host, path)' = Match(host, path)]_vars
  <2> SUFFICES ASSUME RouterInv, RouterInv', Next, NEW host \in Hosts, NEW path \in Paths,
                      ~Applies(Len(rules), host, path)'
               PROVE  Match(host, path)' = Match(host, path)
    OBVIOUS
  <2> DEFINE n == Len(rules)
             s == router.sorted
  <2>1. PICK r \in Rules : rules' = Append(rules, r) /\ router' = New(rules')
    BY DEF Next, AppendRule, Load
  <2>2. n \in Nat /\ s = Sorted(rules)[n] /\ Len(rules') = n + 1 /\ rules' \in Seq(Rules)
    BY <2>1, AppendProperties DEF RouterInv, New, Sort
  <2>3. s \in Seq(1 .. n) /\ Len(s) \in Nat
    BY SortedIsComplete
  <2>4. router'.sorted = Insert(rules', s, n + 1)
    <3>1. router'.sorted = Sorted(rules')[n + 1]
      BY <2>1, <2>2 DEF New, Sort
    <3>2. n + 1 \in 1 .. Len(rules') /\ (n + 1) - 1 = n /\ n \in 0 .. Len(rules)
      BY <2>2
    <3>3. Sorted(rules')[n] = s
      BY <2>1, <2>2, <3>2, RoundsAgree DEF RouterInv
    <3>4. Sorted(rules')[n + 1] = Insert(rules', Sorted(rules')[n], n + 1)
      BY <2>2, <3>2, SortedByRounds
    <3>5. QED
      BY <3>1, <3>3, <3>4
  <2> HIDE DEF n, s
  <2>5. PICK p \in 1 .. Len(s) + 1 : router'.sorted = InsertAt(s, p, n + 1)
    BY <2>3, <2>4, InsertStops
  <2>6. ASSUME NEW T \in SUBSET (1 .. n)
        PROVE  FirstOf(router'.sorted, T) = FirstOf(s, T) /\ LastOf(router'.sorted, T) = LastOf(s, T)
    <3>1. n + 1 \notin T /\ n + 1 \in 1 .. n + 1
      BY <2>2
    <3>2. s \in Seq(1 .. n + 1)
      <4>1. 1 .. n \subseteq 1 .. n + 1
        BY <2>2
      <4>2. QED
        BY <2>3, <4>1, SeqMonotonic
    <3>3. p \in 1 .. Len(s) + 1
      OBVIOUS
    <3>4. /\ FirstOf(InsertAt(s, p, n + 1), T) = FirstOf(s, T)
          /\ LastOf(InsertAt(s, p, n + 1), T) = LastOf(s, T)
      BY <3>1, <3>2, <3>3, InsertedAside, Zenon
    <3>5. QED
      BY <2>5, <3>4, Zenon
  <2>7. /\ \A types : Applicable(host, path, types)' = Applicable(host, path, types)
        /\ \A h \in {host, NoHost} : ExactRules(h, path)' = ExactRules(h, path)
    BY <2>1, OthersApply
  <2>8. DOMAIN rules = 1 .. n
    BY SortedIsComplete DEF n
  <2>9. /\ \A types : Applicable(host, path, types) \in SUBSET (1 .. n)
        /\ \A h : ExactRules(h, path) \in SUBSET (1 .. n)
    BY <2>8 DEF Applicable, ExactRules
  <2>10. /\ ExactAt(host, path)' = ExactAt(host, path)
         /\ ExactAt(NoHost, path)' = ExactAt(NoHost, path)
         /\ MatchPrefix(host, path)' = MatchPrefix(host, path)
         /\ MatchRegex(host, path)' = MatchRegex(host, path)
    <3>1. /\ \A h : ExactAt(h, path)' = LastOf(router'.sorted, ExactRules(h, path)')
          /\ MatchPrefix(host, path)' = FirstOf(router'.sorted, Applicable(host, path, {"prefix"})')
          /\ MatchRegex(host, path)' = FirstOf(router'.sorted, Applicable(host, path, {"regex", "glob"})')
      BY StagesNext
    <3>2. /\ \A h : ExactAt(h, path) = LastOf(s, ExactRules(h, path))
          /\ MatchPrefix(host, path) = FirstOf(s, Applicable(host, path, {"prefix"}))
          /\ MatchRegex(host, path) = FirstOf(s, Applicable(host, path, {"regex", "glob"}))
      BY StagesOfMatch DEF s
    <3>3. QED
      BY <2>6, <2>7, <2>9, <3>1, <3>2
  <2>11. MatchExact(host, path)' = MatchExact(host, path)
    BY <2>10 DEF MatchExact
  <2>12. /\ Match(host, path)' =
              IF MatchExact(host, path)' # NoRule THEN MatchExact(host, path)'
              ELSE IF MatchPrefix(host, path)' # NoRule THEN MatchPrefix(host, path)'
              ELSE MatchRegex(host, path)'
    BY MatchNext
  <2>13. QED
    BY <2>10, <2>11, <2>12, MatchIsFirstStage
<1>2. QED
  BY <1>1, RouterAlways, PTL DEF Spec, UnrelatedRuleIsNeutral
=============================================================================
