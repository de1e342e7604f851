--------------------------- MODULE MergeSyncProofs ---------------------------
(***************************************************************************)
(* MergeSync for any sources, any rules and any number of targets: what a  *)
(* merge makes of the rules it is given, and that nothing a sync publishes *)
(* is anything but such a merge.                                           *)
(*                                                                         *)
(* A merge is a loop over sources round a loop over rules.  MergeInv says  *)
(* what holds after each round of it, of the set of all the pairs of a     *)
(* source and a rule met so far; the rounds are counted by least           *)
(* counterexample.                                                         *)
(***************************************************************************)
EXTENDS MergeSync, SequenceTheorems, FiniteSetTheorems, WellFoundedInduction, TLAPS

LEMMA LeastNatural ==
  ASSUME NEW S \in SUBSET Nat, S # {}
  PROVE  \E m \in S : \A k \in S : m <= k
<1>1. PICK m \in S : \A k \in S : ~(<<k, m>> \in OpToRel(<, Nat))
  BY NatLessThanWellFounded, WFMin
<1>2. \A k \in S : ~(k < m)
  BY <1>1 DEF OpToRel
<1>3. QED
  BY <1>2

-----------------------------------------------------------------------------
(* The loops are defined by their rounds                                   *)

KeepStages(list, keep, n, f) ==
  f = [k \in 0 .. n |-> IF k = 0 THEN <<>>
                        ELSE IF k \in keep THEN Append(f[k - 1], list[k]) ELSE f[k - 1]]

LEMMA KeepStagesExist ==
  ASSUME NEW list, NEW keep, NEW n \in Nat
  PROVE  \E f : KeepStages(list, keep, n, f)
<1> DEFINE S == {m \in Nat : ~\E f : KeepStages(list, keep, m, f)}
<1>1. SUFFICES ASSUME S # {} PROVE FALSE
  OBVIOUS
<1>2. PICK m \in S : \A k \in S : m <= k
  <2>1. S \in SUBSET Nat
    OBVIOUS
  <2> HIDE DEF S
  <2>2. QED
    BY <1>1, <2>1, LeastNatural
<1>3. m # 0
  <2>1. KeepStages(list, keep, 0, [k \in 0 .. 0 |-> <<>>])
    BY DEF KeepStages
  <2>2. QED
    BY <1>2, <2>1
<1>4. PICK g : KeepStages(list, keep, m - 1, g)
  <2>1. m - 1 \in Nat /\ m - 1 \notin S
    BY <1>2, <1>3
  <2>2. QED
    BY <2>1
<1> DEFINE last == IF m \in keep THEN Append(g[m - 1], list[m]) ELSE g[m - 1]
           h == [k \in 0 .. m |-> IF k = m THEN last ELSE g[k]]
<1>5. m \in Nat \ {0}
  BY <1>2, <1>3
<1>6. ASSUME NEW k \in 0 .. m
      PROVE  h[k] = IF k = 0 THEN <<>>
                    ELSE IF k \in keep THEN Append(h[k - 1], list[k]) ELSE h[k - 1]
  <2>1. g = [l \in 0 .. m - 1 |-> IF l = 0 THEN <<>>
                    ELSE IF l \in keep THEN Append(g[l - 1], list[l]) ELSE g[l - 1]]
    BY <1>4 DEF KeepStages
  <2>2. CASE k = m
    <3>1. h[m] = last /\ h[m - 1] = g[m - 1]
      BY <1>5
    <3>2. QED
      BY <1>5, <2>2, <3>1
  <2>3. CASE k # m
    <3>1. k \in 0 .. m - 1 /\ h[k] = g[k]
      BY <1>5, <2>3
    <3>2. g[k] = IF k = 0 THEN <<>>
                 ELSE IF k \in keep THEN Append(g[k - 1], list[k]) ELSE g[k - 1]
      BY <2>1, <3>1
    <3>3. k # 0 => h[k - 1] = g[k - 1]
      BY <1>5, <3>1
    <3>4. QED
      BY <3>1, <3>2, <3>3
  <2>4. QED
    BY <2>2, <2>3
<1>7. KeepStages(list, keep, m, h)
  BY <1>6 DEF KeepStages
<1>8. QED
  BY <1>2, <1>7

LEMMA KeptByRounds ==
  ASSUME NEW list, Len(list) \in Nat, NEW keep
  PROVE  /\ KeepRounds(list, keep)[0] = <<>>
         /\ \A n \in 1 .. Len(list) :
              /\ n \in keep => KeepRounds(list, keep)[n] = Append(KeepRounds(list, keep)[n - 1], list[n])
              /\ n \notin keep => KeepRounds(list, keep)[n] = KeepRounds(list, keep)[n - 1]
<1>1. PICK f : KeepStages(list, keep, Len(list), f)
  BY KeepStagesExist
<1>2. KeepRounds(list, keep)
        = [n \in 0 .. Len(list) |->
             IF n = 0 THEN <<>>
             ELSE IF n \in keep THEN Append(KeepRounds(list, keep)[n - 1], list[n])
                                ELSE KeepRounds(list, keep)[n - 1]]
  BY <1>1 DEF KeepRounds, KeepStages
<1>3. KeepRounds(list, keep)[0] = <<>>
  BY <1>2
<1>4. ASSUME NEW n \in 1 .. Len(list)
      PROVE  KeepRounds(list, keep)[n]
               = IF n \in keep THEN Append(KeepRounds(list, keep)[n - 1], list[n])
                               ELSE KeepRounds(list, keep)[n - 1]
  <2>1. n \in 0 .. Len(list) /\ n # 0
    OBVIOUS
  <2>2. QED
    BY <1>2, <2>1
<1>5. QED
  BY <1>3, <1>4

RuleStages(mode, merged, source, config, n, f) ==
  f = [k \in 0 .. n |-> IF k = 0 THEN merged
                        ELSE MergeRule(mode, source, f[k - 1], config.rules[k])]

LEMMA RuleStagesExist ==
  ASSUME NEW mode, NEW merged, NEW source, NEW config, NEW n \in Nat
  PROVE  \E f : RuleStages(mode, merged, source, config, n, f)
<1> DEFINE S == {m \in Nat : ~\E f : RuleStages(mode, merged, source, config, m, f)}
<1>1. SUFFICES ASSUME S # {} PROVE FALSE
  OBVIOUS
<1>2. PICK m \in S : \A k \in S : m <= k
  <2>1. S \in SUBSET Nat
    OBVIOUS
  <2> HIDE DEF S
  <2>2. QED
    BY <1>1, <2>1, LeastNatural
<1>3. m # 0
  <2>1. RuleStages(mode, merged, source, config, 0, [k \in 0 .. 0 |-> merged])
    BY DEF RuleStages
  <2>2. QED
    BY <1>2, <2>1
<1>4. PICK g : RuleStages(mode, merged, source, config, m - 1, g)
  <2>1. m - 1 \in Nat /\ m - 1 \notin S
    BY <1>2, <1>3
  <2>2. QED
    BY <2>1
<1> DEFINE h == [k \in 0 .. m |-> IF k = m THEN MergeRule(mode, source, g[m - 1], config.rules[m])
                                  ELSE g[k]]
<1>5. m \in Nat \ {0}
  BY <1>2, <1>3
<1>6. ASSUME NEW k \in 0 .. m
      PROVE  h[k] = IF k = 0 THEN merged ELSE MergeRule(mode, source, h[k - 1], config.rules[k])
  <2>1. g = [l \in 0 .. m - 1 |-> IF l = 0 THEN merged
                                  ELSE MergeRule(mode, source, g[l - 1], config.rules[l])]
    BY <1>4 DEF RuleStages
  <2>2. CASE k = m
    BY <1>5, <2>2
  <2>3. CASE k # m
    <3>1. k \in 0 .. m - 1 /\ h[k] = g[k]
      BY <1>5, <2>3
    <3>2. g[k] = IF k = 0 THEN merged ELSE MergeRule(mode, source, g[k - 1], config.rules[k])
      BY <2>1, <3>1
    <3>3. k # 0 => h[k - 1] = g[k - 1]
      BY <1>5, <3>1
    <3>4. QED
      BY <3>1, <3>2, <3>3
  <2>4. QED
    BY <2>2, <2>3
<1>7. RuleStages(mode, merged, source, config, m, h)
  BY <1>6 DEF RuleStages
<1>8. QED
  BY <1>2, <1>7

LEMMA RulesByRounds ==
  ASSUME NEW mode, NEW merged, NEW source, NEW config, Len(config.rules) \in Nat
  PROVE  /\ RuleRounds(mode, merged, source, config)[0] = merged
         /\ \A n \in 1 .. Len(config.rules) :
              RuleRounds(mode, merged, source, config)[n]
                = MergeRule(mode, source, RuleRounds(mode, merged, source, config)[n - 1],
                            config.rules[n])
<1>1. PICK f : RuleStages(mode, merged, source, config, Len(config.rules), f)
  BY RuleStagesExist
<1>2. RuleRounds(mode, merged, source, config)
        = [n \in 0 .. Len(config.rules) |->
             IF n = 0 THEN merged
             ELSE MergeRule(mode, source, RuleRounds(mode, merged, source, config)[n - 1],
                            config.rules[n])]
  BY <1>1 DEF RuleRounds, RuleStages
<1>3. QED
  BY <1>2

SourceStages(mode, order, configs, n, f) ==
  f = [k \in 0 .. n |-> IF k = 0 THEN NothingMerged
                        ELSE MergeSource(mode, f[k - 1], order[k], configs[order[k].name])]

LEMMA SourceStagesExist ==
  ASSUME NEW mode, NEW order, NEW configs, NEW n \in Nat
  PROVE  \E f : SourceStages(mode, order, configs, n, f)
<1> DEFINE S == {m \in Nat : ~\E f : SourceStages(mode, order, configs, m, f)}
<1>1. SUFFICES ASSUME S # {} PROVE FALSE
  OBVIOUS
<1>2. PICK m \in S : \A k \in S : m <= k
  <2>1. S \in SUBSET Nat
    OBVIOUS
  <2> HIDE DEF S
  <2>2. QED
    BY <1>1, <2>1, LeastNatural
<1>3. m # 0
  <2>1. SourceStages(mode, order, configs, 0, [k \in 0 .. 0 |-> NothingMerged])
    BY DEF SourceStages
  <2>2. QED
    BY <1>2, <2>1
<1>4. PICK g : SourceStages(mode, order, configs, m - 1, g)
  <2>1. m - 1 \in Nat /\ m - 1 \notin S
    BY <1>2, <1>3
  <2>2. QED
    BY <2>1
<1> DEFINE last == MergeSource(mode, g[m - 1], order[m], configs[order[m].name])
           h == [k \in 0 .. m |-> IF k = m THEN last ELSE g[k]]
<1>5. m \in Nat \ {0}
  BY <1>2, <1>3
<1>6. ASSUME NEW k \in 0 .. m
      PROVE  h[k] = IF k = 0 THEN NothingMerged
                    ELSE MergeSource(mode, h[k - 1], order[k], configs[order[k].name])
  <2>1. g = [l \in 0 .. m - 1 |-> IF l = 0 THEN NothingMerged
                    ELSE MergeSource(mode, g[l - 1], order[l], configs[order[l].name])]
    BY <1>4 DEF SourceStages
  <2>2. CASE k = m
    BY <1>5, <2>2
  <2>3. CASE k # m
    <3>1. k \in 0 .. m - 1 /\ h[k] = g[k]
      BY <1>5, <2>3
    <3>2. g[k] = IF k = 0 THEN NothingMerged
                 ELSE MergeSource(mode, g[k - 1], order[k], configs[order[k].name])
      BY <2>1, <3>1
    <3>3. k # 0 => h[k - 1] = g[k - 1]
      BY <1>5, <3>1
    <3>4. QED
      BY <3>1, <3>2, <3>3
  <2>4. QED
    BY <2>2, <2>3
<1>7. SourceStages(mode, order, configs, m, h)
  BY <1>6 DEF SourceStages
<1>8. QED
  BY <1>2, <1>7

LEMMA SourcesByRounds ==
  ASSUME NEW mode, NEW order, NEW configs, Len(order) \in Nat
  PROVE  /\ SourceRounds(mode, order, configs)[0] = NothingMerged
         /\ \A n \in 1 .. Len(order) :
              SourceRounds(mode, order, configs)[n]
                = MergeSource(mode, SourceRounds(mode, order, configs)[n - 1], order[n],
                              configs[order[n].name])
<1>1. PICK f : SourceStages(mode, order, configs, Len(order), f)
  BY SourceStagesExist
<1>2. SourceRounds(mode, order, configs)
        = [n \in 0 .. Len(order) |->
             IF n = 0 THEN NothingMerged
             ELSE MergeSource(mode, SourceRounds(mode, order, configs)[n - 1], order[n],
                              configs[order[n].name])]
  BY <1>1 DEF SourceRounds, SourceStages
<1>3. SourceRounds(mode, order, configs)[0] = NothingMerged
  BY <1>2
<1>4. ASSUME NEW n \in 1 .. Len(order)
      PROVE  SourceRounds(mode, order, configs)[n]
               = MergeSource(mode, SourceRounds(mode, order, configs)[n - 1], order[n],
                             configs[order[n].name])
  <2>1. n \in 0 .. Len(order) /\ n # 0
    OBVIOUS
  <2>2. QED
    BY <1>2, <2>1
<1>5. QED
  BY <1>3, <1>4

-----------------------------------------------------------------------------
(* Removing a rule by its path                                             *)

UniqueKeys(rules) ==
  \A i, j \in 1 .. Len(rules) : PathKey(rules[i]) = PathKey(rules[j]) => i = j

(* What is kept of the first n places.                                     *)
KeptSoFar(S, list, keep, n, kept) ==
  /\ kept \in Seq(S)
  /\ \A k \in 1 .. Len(kept) : \E i \in 1 .. n : i \in keep /\ kept[k] = list[i]
  /\ \A i \in 1 .. n : i \in keep => \E k \in 1 .. Len(kept) : kept[k] = list[i]
  /\ UniqueKeys(kept)

LEMMA KeepOneMore ==
  ASSUME NEW S, NEW list \in Seq(S), UniqueKeys(list), NEW keep, NEW n \in 1 .. Len(list),
         NEW kept, KeptSoFar(S, list, keep, n - 1, kept)
  PROVE  /\ n \in keep => KeptSoFar(S, list, keep, n, Append(kept, list[n]))
         /\ n \notin keep => KeptSoFar(S, list, keep, n, kept)
<1>0. /\ Len(list) \in Nat /\ list[n] \in S
      /\ kept \in Seq(S) /\ Len(kept) \in Nat
  BY DEF KeptSoFar
<1>1. ASSUME n \notin keep PROVE KeptSoFar(S, list, keep, n, kept)
  <2>1. \A i \in 1 .. n : i \in keep => i \in 1 .. n - 1
    BY <1>0, <1>1
  <2>2. \A i \in 1 .. n - 1 : i \in 1 .. n
    BY <1>0
  <2>3. QED
    BY <2>1, <2>2 DEF KeptSoFar
<1>2. ASSUME n \in keep PROVE KeptSoFar(S, list, keep, n, Append(kept, list[n]))
  <2> DEFINE more == Append(kept, list[n])
  <2>1. /\ more \in Seq(S) /\ Len(more) = Len(kept) + 1
        /\ \A k \in 1 .. Len(kept) : more[k] = kept[k]
        /\ more[Len(kept) + 1] = list[n]
    BY <1>0
  <2> HIDE DEF more
  <2>2. ASSUME NEW k \in 1 .. Len(more)
        PROVE  \E i \in 1 .. n : i \in keep /\ more[k] = list[i]
    <3>1. CASE k = Len(kept) + 1
      BY <1>0, <1>2, <2>1, <3>1
    <3>2. CASE k \in 1 .. Len(kept)
      <4>1. PICK i \in 1 .. n - 1 : i \in keep /\ kept[k] = list[i]
        BY <3>2 DEF KeptSoFar
      <4>2. QED
        BY <1>0, <2>1, <3>2, <4>1
    <3>3. QED
      BY <1>0, <2>1, <3>1, <3>2
  <2>3. ASSUME NEW i \in 1 .. n, i \in keep
        PROVE  \E k \in 1 .. Len(more) : more[k] = list[i]
    <3>1. CASE i = n
      BY <1>0, <2>1, <3>1
    <3>2. CASE i # n
      <4>1. PICK k \in 1 .. Len(kept) : kept[k] = list[i]
        <5>1. i \in 1 .. n - 1
          BY <3>2
        <5>2. QED
          BY <2>3, <5>1 DEF KeptSoFar
      <4>2. k \in 1 .. Len(more) /\ more[k] = list[i]
        BY <1>0, <2>1, <4>1
      <4>3. QED
        BY <4>2
    <3>3. QED
      BY <3>1, <3>2
  <2>4. ASSUME NEW k \in 1 .. Len(kept) PROVE PathKey(kept[k]) # PathKey(list[n])
    <3>1. PICK i \in 1 .. n - 1 : i \in keep /\ kept[k] = list[i]
      BY DEF KeptSoFar
    <3>2. i \in 1 .. Len(list) /\ n \in 1 .. Len(list) /\ i # n
      BY <1>0
    <3>3. QED
      BY <3>1, <3>2 DEF UniqueKeys
  <2>5. UniqueKeys(more)
    <3> SUFFICES ASSUME NEW i \in 1 .. Len(more), NEW j \in 1 .. Len(more),
                        PathKey(more[i]) = PathKey(more[j])
                 PROVE  i = j
      BY DEF UniqueKeys
    <3>1. CASE i \in 1 .. Len(kept) /\ j \in 1 .. Len(kept)
      BY <2>1, <3>1 DEF KeptSoFar, UniqueKeys
    <3>2. CASE i = Len(kept) + 1 /\ j \in 1 .. Len(kept)
      BY <2>1, <2>4, <3>2
    <3>3. CASE i \in 1 .. Len(kept) /\ j = Len(kept) + 1
      BY <2>1, <2>4, <3>3
    <3>4. CASE i = Len(kept) + 1 /\ j = Len(kept) + 1
      BY <3>4
    <3>5. \A k \in 1 .. Len(more) : k \in 1 .. Len(kept) \/ k = Len(kept) + 1
      BY <1>0, <2>1
    <3>6. QED
      BY <3>1, <3>2, <3>3, <3>4, <3>5
  <2>6. KeptSoFar(S, list, keep, n, more)
    BY <2>1, <2>2, <2>3, <2>5 DEF KeptSoFar
  <2>7. QED
    BY <2>6 DEF more
<1>3. QED
  BY <1>1, <1>2

LEMMA KeptAfter ==
  ASSUME NEW S, NEW list \in Seq(S), UniqueKeys(list), NEW keep
  PROVE  KeptSoFar(S, list, keep, Len(list), KeepRounds(list, keep)[Len(list)])
<1> DEFINE kept(n) == KeepRounds(list, keep)[n]
           B == {n \in 0 .. Len(list) : ~KeptSoFar(S, list, keep, n, kept(n))}
<1>0. Len(list) \in Nat
  OBVIOUS
<1>1. SUFFICES B = {}
  BY <1>0
<1>2. SUFFICES ASSUME B # {} PROVE FALSE
  OBVIOUS
<1>3. PICK n \in B : \A k \in B : n <= k
  <2>1. B \in SUBSET Nat
    BY <1>0
  <2> HIDE DEF B
  <2>2. QED
    BY <1>2, <2>1, LeastNatural
<1>4. kept(0) = <<>> /\ 0 \in 0 .. Len(list)
  BY <1>0, KeptByRounds
<1> HIDE DEF kept
<1>5. n # 0
  <2>1. KeptSoFar(S, list, keep, 0, <<>>)
    BY DEF KeptSoFar, UniqueKeys
  <2>2. QED
    BY <1>3, <1>4, <2>1
<1>6. n \in 1 .. Len(list) /\ n - 1 \in 0 .. Len(list) /\ ~(n <= n - 1)
  BY <1>0, <1>3, <1>5
<1>7. KeptSoFar(S, list, keep, n - 1, kept(n - 1))
  BY <1>3, <1>6
<1>8. /\ n \in keep => kept(n) = Append(kept(n - 1), list[n])
      /\ n \notin keep => kept(n) = kept(n - 1)
  BY <1>0, <1>6, KeptByRounds DEF kept
<1>9. KeptSoFar(S, list, keep, n, kept(n))
  BY <1>6, <1>7, <1>8, KeepOneMore
<1>10. QED
  BY <1>3, <1>9

(* A rule is removed if it has the key, and no other is.                   *)
LEMMA RemovedByPath ==
  ASSUME NEW S, NEW rules \in Seq(S), UniqueKeys(rules), NEW key,
         NEW left, left = RemoveRuleByPath(rules, key)
  PROVE  /\ left \in Seq(S) /\ UniqueKeys(left)
         /\ Range(left) = {rule \in Range(rules) : PathKey(rule) # key}
<1> DEFINE keep == {k \in DOMAIN rules : PathKey(rules[k]) # key}
<1>1. left = KeepRounds(rules, keep)[Len(rules)]
  BY DEF RemoveRuleByPath
<1>2. \A i \in 1 .. Len(rules) : i \in keep <=> PathKey(rules[i]) # key
  OBVIOUS
<1> HIDE DEF keep
<1>3. KeptSoFar(S, rules, keep, Len(rules), left)
  BY <1>1, KeptAfter
<1>4. left \in Seq(S)
  BY <1>3 DEF KeptSoFar
<1>5. Range(rules) = {rules[i] : i \in 1 .. Len(rules)} /\ Range(left) = {left[i] : i \in 1 .. Len(left)}
  <2>1. Range(rules) = {rules[i] : i \in 1 .. Len(rules)}
    BY RangeEquality
  <2>2. Range(left) = {left[i] : i \in 1 .. Len(left)}
    BY <1>4, RangeEquality
  <2>3. QED
    BY <2>1, <2>2
<1>6. ASSUME NEW rule \in Range(left) PROVE rule \in Range(rules) /\ PathKey(rule) # key
  <2>1. PICK k \in 1 .. Len(left) : left[k] = rule
    BY <1>5
  <2>2. PICK i \in 1 .. Len(rules) : i \in keep /\ left[k] = rules[i]
    BY <1>3 DEF KeptSoFar
  <2>3. QED
    BY <1>2, <1>5, <2>1, <2>2
<1>7. ASSUME NEW rule \in Range(rules), PathKey(rule) # key PROVE rule \in Range(left)
  <2>1. PICK i \in 1 .. Len(rules) : rules[i] = rule
    BY <1>5
  <2>2. i \in keep
    BY <1>2, <1>7, <2>1
  <2>3. PICK k \in 1 .. Len(left) : left[k] = rules[i]
    BY <1>3, <2>2 DEF KeptSoFar
  <2>4. QED
    BY <1>5, <2>1, <2>3
<1>8. QED
  BY <1>3, <1>6, <1>7 DEF KeptSoFar

-----------------------------------------------------------------------------
(* One more rule                                                           *)

Modes == {"error", "first", "priority"}

Claim(p) == [source |-> p[1].name, id |-> Prefixed(p[1], p[2].id)]

Renamed(p) == [p[2] EXCEPT !.id = Prefixed(p[1], @)]

Key(p) == PathKey(p[2])

May(p) == Allowed(p[1], p[2])

(* A pair of a source and a rule as they are given.                        *)
Fit(p) ==
  /\ p[1].priority \in Int
  /\ {"id", "type", "host", "path", "pattern"} \subseteq DOMAIN p[2]

(* A conflict in the report names the rule of a pair.                      *)
Named(conflicts, p) == \E c \in conflicts : c.key = Key(p) /\ Claim(p) \in Range(c.claims)

(* The conflict of a pair with the owner of its key, and the owners with   *)
(* the pair among them.                                                    *)
Conflict(owner, p) == [key |-> Key(p), claims |-> <<owner[Key(p)], Claim(p)>>]

OwnedBy(owner, p) ==
  [k \in DOMAIN owner \union {Key(p)} |-> IF k = Key(p) THEN Claim(p) ELSE owner[k]]

Skipped(m, p) == [m EXCEPT !.skipped = @ \union {Claim(p)}]

(* Where the rule of a pair has gone: it is published and owns its key, or *)
(* it is reported.                                                         *)
Settled(rules, owner, conflicts, skipped, p) ==
  \/ Claim(p) \in skipped /\ ~May(p)
  \/ Key(p) \in DOMAIN owner /\ owner[Key(p)] = Claim(p) /\ Renamed(p) \in Range(rules)
  \/ Named(conflicts, p)

Outranks(mode, p, q) ==
  /\ mode = "priority" => p[1].priority >= q[1].priority
  /\ mode = "first" => p[1].priority <= q[1].priority

(* The pair that owns a key outranks every other that might.               *)
Owns(mode, owner, done, key, p) ==
  /\ owner[key] = Claim(p) /\ Key(p) = key /\ May(p)
  /\ \A q \in done : Key(q) = key /\ May(q) => Outranks(mode, p, q)

Between(c, p, q) == Key(p) = Key(q) /\ c = [key |-> Key(q), claims |-> <<Claim(p), Claim(q)>>]

RulesInv(rules, owner) ==
  /\ rules \in Seq(Range(rules)) /\ UniqueKeys(rules)
  /\ \A rule \in Range(rules) : PathKey(rule) \in DOMAIN owner

OwnersInv(mode, owner, done) ==
  /\ \A key \in DOMAIN owner : \E p \in done : Owns(mode, owner, done, key, p)
  /\ \A p \in done : May(p) => Key(p) \in DOMAIN owner

ConflictsInv(conflicts, done) ==
  \A c \in conflicts : \E p, q \in done : Between(c, p, q)

Merge6(m) ==
  m = [server |-> m.server, defaults |-> m.defaults, rules |-> m.rules,
       owner |-> m.owner, conflicts |-> m.conflicts, skipped |-> m.skipped]

MergeInv(mode, m, done) ==
  /\ Merge6(m)
  /\ \A p \in done : Fit(p)
  /\ RulesInv(m.rules, m.owner)
  /\ OwnersInv(mode, m.owner, done)
  /\ ConflictsInv(m.conflicts, done)
  /\ \A p \in done : Settled(m.rules, m.owner, m.conflicts, m.skipped, p)

(* The ID changes neither the key nor whether the rule is allowed.         *)
LEMMA RenamedIsTheSame ==
  ASSUME NEW p, Fit(p)
  PROVE  /\ PathKey(Renamed(p)) = Key(p)
         /\ Renamed(p).id = Prefixed(p[1], p[2].id)
         /\ Allowed(p[1], Renamed(p)) <=> May(p)
<1>1. /\ Renamed(p).host = p[2].host /\ Renamed(p).path = p[2].path
      /\ Renamed(p).pattern = p[2].pattern
      /\ Renamed(p).id = Prefixed(p[1], p[2].id)
  BY DEF Fit, Renamed
<1>2. QED
  BY <1>1 DEF PathKey, Key, May, Allowed

LEMMA KeptConflicts ==
  ASSUME NEW conflicts, NEW done, NEW more, ConflictsInv(conflicts, done)
  PROVE  ConflictsInv(conflicts, done \union more)
BY DEF ConflictsInv

(* A rule outside the allowed paths.                                       *)
LEMMA SkipRuleInv ==
  ASSUME NEW mode \in Modes, NEW m, NEW done, MergeInv(mode, m, done), NEW p, Fit(p), ~May(p)
  PROVE  MergeInv(mode, Skipped(m, p), done \union {p})
<1> DEFINE n == Skipped(m, p)
<1>1. /\ Merge6(n) /\ n.rules = m.rules /\ n.owner = m.owner /\ n.conflicts = m.conflicts
      /\ n.skipped = m.skipped \union {Claim(p)}
  BY DEF MergeInv, Merge6, Skipped
<1> HIDE DEF n
<1>2. \A q \in done \union {p} : Fit(q)
  BY DEF MergeInv
<1>3. OwnersInv(mode, m.owner, done \union {p})
  <2>1. ASSUME NEW key \in DOMAIN m.owner
        PROVE  \E q \in done \union {p} : Owns(mode, m.owner, done \union {p}, key, q)
    <3>1. PICK q \in done : Owns(mode, m.owner, done, key, q)
      BY DEF MergeInv, OwnersInv
    <3>2. QED
      BY <3>1 DEF Owns
  <2>2. QED
    BY <2>1 DEF MergeInv, OwnersInv
<1>4. ConflictsInv(m.conflicts, done \union {p})
  BY KeptConflicts DEF MergeInv
<1>5. ASSUME NEW q \in done \union {p}
      PROVE  Settled(m.rules, m.owner, m.conflicts, n.skipped, q)
  BY <1>1 DEF MergeInv, Settled, Named
<1>6. MergeInv(mode, n, done \union {p})
  BY <1>1, <1>2, <1>3, <1>4, <1>5 DEF MergeInv
<1>7. QED
  BY <1>6 DEF n

(* A rule whose path is taken, in the modes that leave it with its owner.  *)
LEMMA ReportRuleInv ==
  ASSUME NEW mode \in {"error", "first"}, NEW m, NEW done, MergeInv(mode, m, done),
         NEW p, Fit(p), May(p), Key(p) \in DOMAIN m.owner,
         \A q \in done : q[1].priority <= p[1].priority,
         NEW c, c = Conflict(m.owner, p)
  PROVE  MergeInv(mode, [m EXCEPT !.conflicts = @ \union {c}], done \union {p})
<1> DEFINE n == [m EXCEPT !.conflicts = @ \union {c}]
<1>1. /\ Merge6(n) /\ n.rules = m.rules /\ n.owner = m.owner /\ n.skipped = m.skipped
      /\ n.conflicts = m.conflicts \union {c}
  BY DEF MergeInv, Merge6
<1> HIDE DEF n
<1>2. \A q \in done \union {p} : Fit(q)
  BY DEF MergeInv
<1>3. PICK o \in done : Owns(mode, m.owner, done, Key(p), o)
  BY DEF MergeInv, OwnersInv
<1>4. OwnersInv(mode, m.owner, done \union {p})
  <2>1. ASSUME NEW key \in DOMAIN m.owner
        PROVE  \E q \in done \union {p} : Owns(mode, m.owner, done \union {p}, key, q)
    <3>1. PICK q \in done : Owns(mode, m.owner, done, key, q)
      BY DEF MergeInv, OwnersInv
    <3>2. Outranks(mode, q, p)
      BY DEF Outranks
    <3>3. QED
      BY <3>1, <3>2 DEF Owns
  <2>2. QED
    BY <2>1 DEF MergeInv, OwnersInv
<1>5. ConflictsInv(n.conflicts, done \union {p})
  <2>1. Between(c, o, p)
    BY <1>3 DEF Owns, Between, Conflict
  <2>2. QED
    BY <1>1, <2>1 DEF ConflictsInv, MergeInv
<1>6. ASSUME NEW q \in done \union {p}
      PROVE  Settled(m.rules, m.owner, n.conflicts, m.skipped, q)
  <2>1. CASE q \in done
    BY <1>1, <2>1 DEF MergeInv, Settled, Named
  <2>2. CASE q = p
    <3>1. c \in n.conflicts /\ c.key = Key(p) /\ c.claims[2] = Claim(p)
          /\ DOMAIN c.claims = 1 .. 2
      BY <1>1 DEF Conflict
    <3>2. Claim(p) \in Range(c.claims)
      BY <3>1 DEF Range
    <3>3. QED
      BY <2>2, <3>1, <3>2 DEF Settled, Named
  <2>3. QED
    BY <2>1, <2>2
<1>7. MergeInv(mode, n, done \union {p})
  BY <1>1, <1>2, <1>4, <1>5, <1>6 DEF MergeInv
<1>8. QED
  BY <1>7 DEF n

(* A rule that is published: its path was free, or the rule that had it is *)
(* gone and reported.                                                      *)
LEMMA AppendedRules ==
  ASSUME NEW S, NEW rules \in Seq(S), UniqueKeys(rules), NEW rule,
         \A r \in Range(rules) : PathKey(r) # PathKey(rule)
  PROVE  LET more == Append(rules, rule)
         IN  /\ more \in Seq(Range(more)) /\ UniqueKeys(more)
             /\ Range(more) = Range(rules) \union {rule}
<1> DEFINE more == Append(rules, rule)
           U == S \union {rule}
<1>1. /\ Len(rules) \in Nat /\ more \in Seq(U) /\ Len(more) = Len(rules) + 1
      /\ \A k \in 1 .. Len(rules) : more[k] = rules[k]
      /\ more[Len(rules) + 1] = rule
  OBVIOUS
<1> HIDE DEF more
<1>2. Range(rules) = {rules[i] : i \in 1 .. Len(rules)}
  BY RangeEquality
<1>3. Range(more) = {more[i] : i \in 1 .. Len(more)}
  <2> HIDE DEF U
  <2>1. QED
    BY <1>1, RangeEquality
<1>4. \A k \in 1 .. Len(more) : k \in 1 .. Len(rules) \/ k = Len(rules) + 1
  BY <1>1
<1>5. \A k \in 1 .. Len(rules) + 1 : k \in 1 .. Len(more)
  BY <1>1
<1>6. Range(more) = Range(rules) \union {rule}
  <2>1. ASSUME NEW r \in Range(more) PROVE r \in Range(rules) \union {rule}
    BY <1>1, <1>2, <1>3, <1>4
  <2>2. ASSUME NEW r \in Range(rules) PROVE r \in Range(more)
    <3>1. PICK k \in 1 .. Len(rules) : rules[k] = r
      BY <1>2
    <3>2. k \in 1 .. Len(more) /\ more[k] = r
      BY <1>1, <3>1
    <3>3. QED
      BY <1>3, <3>2
  <2>3. rule \in Range(more)
    BY <1>1, <1>3
  <2>4. QED
    BY <2>1, <2>2, <2>3
<1>7. UniqueKeys(more)
  <2>1. \A k \in 1 .. Len(rules) : PathKey(rules[k]) # PathKey(rule)
    BY <1>2
  <2> SUFFICES ASSUME NEW i \in 1 .. Len(more), NEW j \in 1 .. Len(more),
                      PathKey(more[i]) = PathKey(more[j])
               PROVE  i = j
    BY DEF UniqueKeys
  <2>2. CASE i \in 1 .. Len(rules) /\ j \in 1 .. Len(rules)
    BY <1>1, <2>2 DEF UniqueKeys
  <2>3. CASE i \in 1 .. Len(rules) /\ j = Len(rules) + 1
    BY <1>1, <2>1, <2>3
  <2>4. CASE i = Len(rules) + 1 /\ j \in 1 .. Len(rules)
    BY <1>1, <2>1, <2>4
  <2>5. QED
    BY <1>4, <2>2, <2>3, <2>4
<1>8. more \in Seq(Range(more))
  <2> HIDE DEF U
  <2>1. QED
    BY <1>1, SeqOfRange
<1>9. QED
  BY <1>6, <1>7, <1>8 DEF more

LEMMA AdoptRuleInv ==
  ASSUME NEW mode \in Modes, NEW m, NEW done, MergeInv(mode, m, done), NEW p, Fit(p), May(p),
         \A q \in done : Key(q) = Key(p) /\ May(q) => Outranks(mode, p, q),
         NEW S, NEW rules \in Seq(S), UniqueKeys(rules),
         Range(rules) = {r \in Range(m.rules) : PathKey(r) # Key(p)},
         NEW n, Merge6(n), n.rules = Append(rules, Renamed(p)), n.skipped = m.skipped,
         n.owner = OwnedBy(m.owner, p),
         m.conflicts \subseteq n.conflicts, ConflictsInv(n.conflicts, done \union {p}),
         \A q \in done : Key(q) = Key(p) /\ Key(p) \in DOMAIN m.owner /\ m.owner[Key(p)] = Claim(q)
           => Named(n.conflicts, q)
  PROVE  MergeInv(mode, n, done \union {p})
<1>1. PathKey(Renamed(p)) = Key(p)
  BY RenamedIsTheSame
<1>2. /\ n.rules \in Seq(Range(n.rules)) /\ UniqueKeys(n.rules)
      /\ Range(n.rules) = Range(rules) \union {Renamed(p)}
  <2>1. \A r \in Range(rules) : PathKey(r) # PathKey(Renamed(p))
    BY <1>1
  <2>2. QED
    BY <2>1, AppendedRules
<1>3. /\ DOMAIN n.owner = DOMAIN m.owner \union {Key(p)}
      /\ n.owner[Key(p)] = Claim(p)
      /\ \A k \in DOMAIN m.owner : k # Key(p) => n.owner[k] = m.owner[k]
  BY DEF OwnedBy
<1>4. \A q \in done \union {p} : Fit(q)
  BY DEF MergeInv
<1>5. RulesInv(n.rules, n.owner)
  <2>1. \A r \in Range(m.rules) : PathKey(r) \in DOMAIN m.owner
    BY DEF MergeInv, RulesInv
  <2>2. \A r \in Range(n.rules) : PathKey(r) \in DOMAIN n.owner
    BY <1>1, <1>2, <1>3, <2>1
  <2>3. QED
    BY <1>2, <2>2 DEF RulesInv
<1>6. OwnersInv(mode, n.owner, done \union {p})
  <2>1. ASSUME NEW key \in DOMAIN n.owner
        PROVE  \E q \in done \union {p} : Owns(mode, n.owner, done \union {p}, key, q)
    <3>1. CASE key = Key(p)
      <4>1. Outranks(mode, p, p)
        BY DEF Outranks, Fit
      <4>2. Owns(mode, n.owner, done \union {p}, key, p)
        BY <1>3, <3>1, <4>1 DEF Owns
      <4>3. QED
        BY <4>2
    <3>2. CASE key # Key(p)
      <4>1. key \in DOMAIN m.owner /\ n.owner[key] = m.owner[key]
        BY <1>3, <3>2
      <4>2. PICK q \in done : Owns(mode, m.owner, done, key, q)
        BY <4>1 DEF MergeInv, OwnersInv
      <4>3. Owns(mode, n.owner, done \union {p}, key, q)
        BY <3>2, <4>1, <4>2 DEF Owns
      <4>4. QED
        BY <4>3
    <3>3. QED
      BY <3>1, <3>2
  <2>2. \A q \in done : May(q) => Key(q) \in DOMAIN m.owner
    BY DEF MergeInv, OwnersInv
  <2>3. \A q \in done \union {p} : May(q) => Key(q) \in DOMAIN n.owner
    BY <1>3, <2>2
  <2>4. QED
    BY <2>1, <2>3 DEF OwnersInv
<1>7. ASSUME NEW q \in done \union {p}
      PROVE  Settled(n.rules, n.owner, n.conflicts, n.skipped, q)
  <2>1. CASE q = p
    BY <1>2, <1>3, <2>1 DEF Settled
  <2>2. CASE q \in done
    <3>0. Settled(m.rules, m.owner, m.conflicts, m.skipped, q)
      BY <2>2 DEF MergeInv
    <3>1. CASE Claim(q) \in m.skipped /\ ~May(q)
      BY <3>1 DEF Settled
    <3>2. CASE Named(m.conflicts, q)
      BY <3>2 DEF Settled, Named
    <3>3. CASE Key(q) \in DOMAIN m.owner /\ m.owner[Key(q)] = Claim(q) /\ Renamed(q) \in Range(m.rules)
      <4>1. CASE Key(q) = Key(p)
        BY <2>2, <3>3, <4>1 DEF Settled
      <4>2. CASE Key(q) # Key(p)
        <5>1. PathKey(Renamed(q)) = Key(q)
          BY <1>4, RenamedIsTheSame
        <5>2. Renamed(q) \in Range(n.rules)
          BY <1>2, <3>3, <4>2, <5>1
        <5>3. QED
          BY <1>3, <3>3, <4>2, <5>2 DEF Settled
      <4>3. QED
        BY <4>1, <4>2
    <3>4. QED
      BY <3>0, <3>1, <3>2, <3>3 DEF Settled
  <2>3. QED
    BY <2>1, <2>2
<1>8. QED
  BY <1>4, <1>5, <1>6, <1>7 DEF MergeInv

LEMMA MergeRuleCases ==
  ASSUME NEW mode \in Modes, NEW m, Merge6(m), NEW p, Fit(p),
         NEW merged, merged = MergeRule(mode, p[1], m, p[2])
  PROVE  /\ ~May(p) => merged = Skipped(m, p)
         /\ May(p) /\ Key(p) \in DOMAIN m.owner /\ mode \in {"error", "first"}
              => merged = [m EXCEPT !.conflicts = @ \union {Conflict(m.owner, p)}]
         /\ May(p) /\ Key(p) \in DOMAIN m.owner /\ mode = "priority"
              => /\ Merge6(merged)
                 /\ merged.rules = Append(RemoveRuleByPath(m.rules, Key(p)), Renamed(p))
                 /\ merged.skipped = m.skipped /\ merged.owner = OwnedBy(m.owner, p)
                 /\ merged.conflicts = m.conflicts \union {Conflict(m.owner, p)}
         /\ May(p) /\ Key(p) \notin DOMAIN m.owner
              => /\ Merge6(merged) /\ merged.rules = Append(m.rules, Renamed(p))
                 /\ merged.skipped = m.skipped /\ merged.owner = OwnedBy(m.owner, p)
                 /\ merged.conflicts = m.conflicts
<1>1. PICK rule : rule = [p[2] EXCEPT !.id = Prefixed(p[1], @)]
  OBVIOUS
<1>2. PICK key : key = PathKey(rule)
  OBVIOUS
<1>3. PICK claim : claim = [source |-> p[1].name, id |-> rule.id]
  OBVIOUS
<1>4. PICK owner : owner = [k \in DOMAIN m.owner \union {key} |->
                              IF k = key THEN claim ELSE m.owner[k]]
  OBVIOUS
<1>5. PICK c : c = [key |-> key, claims |-> <<m.owner[key], claim>>]
  OBVIOUS
<1>6. PICK left : left = RemoveRuleByPath(m.rules, key)
  OBVIOUS
<1>7. /\ rule = Renamed(p) /\ key = Key(p) /\ claim = Claim(p)
      /\ Allowed(p[1], rule) <=> May(p)
  BY <1>1, <1>2, <1>3, RenamedIsTheSame DEF Renamed, Claim
<1>8. owner = OwnedBy(m.owner, p) /\ c = Conflict(m.owner, p)
  BY <1>4, <1>5, <1>7 DEF OwnedBy, Conflict
<1>9. ASSUME ~Allowed(p[1], rule) PROVE merged = [m EXCEPT !.skipped = @ \union {claim}]
  BY <1>1, <1>3, <1>9 DEF MergeRule
<1>10. ASSUME Allowed(p[1], rule), key \in DOMAIN m.owner, mode \in {"error", "first"}
       PROVE  merged = [m EXCEPT !.conflicts = @ \union {c}]
  BY <1>1, <1>2, <1>3, <1>5, <1>10 DEF MergeRule
<1>11. ASSUME Allowed(p[1], rule), key \in DOMAIN m.owner, mode = "priority"
       PROVE  /\ Merge6(merged) /\ merged.rules = Append(left, rule)
              /\ merged.skipped = m.skipped /\ merged.owner = owner
              /\ merged.conflicts = m.conflicts \union {c}
  <2>1. merged = [m EXCEPT !.conflicts = @ \union {c}, !.rules = Append(left, rule), !.owner = owner]
    BY <1>1, <1>2, <1>3, <1>4, <1>5, <1>6, <1>11 DEF MergeRule
  <2>2. QED
    BY <2>1 DEF Merge6
<1>12. ASSUME Allowed(p[1], rule), key \notin DOMAIN m.owner
       PROVE  /\ Merge6(merged) /\ merged.rules = Append(m.rules, rule)
              /\ merged.skipped = m.skipped /\ merged.owner = owner
              /\ merged.conflicts = m.conflicts
  <2>1. merged = [m EXCEPT !.rules = Append(m.rules, rule), !.owner = owner]
    BY <1>1, <1>2, <1>3, <1>4, <1>12 DEF MergeRule
  <2>2. QED
    BY <2>1 DEF Merge6
<1>13. ASSUME ~May(p) PROVE merged = Skipped(m, p)
  BY <1>7, <1>9, <1>13 DEF Skipped
<1>14. ASSUME May(p), Key(p) \in DOMAIN m.owner, mode \in {"error", "first"}
       PROVE  merged = [m EXCEPT !.conflicts = @ \union {Conflict(m.owner, p)}]
  BY <1>7, <1>8, <1>10, <1>14
<1>15. ASSUME May(p), Key(p) \in DOMAIN m.owner, mode = "priority"
       PROVE  /\ Merge6(merged)
              /\ merged.rules = Append(RemoveRuleByPath(m.rules, Key(p)), Renamed(p))
              /\ merged.skipped = m.skipped /\ merged.owner = OwnedBy(m.owner, p)
              /\ merged.conflicts = m.conflicts \union {Conflict(m.owner, p)}
  BY <1>6, <1>7, <1>8, <1>11, <1>15
<1>16. ASSUME May(p), Key(p) \notin DOMAIN m.owner
       PROVE  /\ Merge6(merged) /\ merged.rules = Append(m.rules, Renamed(p))
              /\ merged.skipped = m.skipped /\ merged.owner = OwnedBy(m.owner, p)
              /\ merged.conflicts = m.conflicts
  BY <1>7, <1>8, <1>12, <1>16
<1>17. QED
  BY <1>13, <1>14, <1>15, <1>16

LEMMA MergeRuleInv ==
  ASSUME NEW mode \in Modes, NEW m, NEW done, MergeInv(mode, m, done), NEW p, Fit(p),
         \A q \in done : q[1].priority <= p[1].priority
  PROVE  MergeInv(mode, MergeRule(mode, p[1], m, p[2]), done \union {p})
<1>1. PICK merged : merged = MergeRule(mode, p[1], m, p[2])
  OBVIOUS
<1>2. PICK c : c = Conflict(m.owner, p)
  OBVIOUS
<1>3. /\ Merge6(m) /\ m.rules \in Seq(Range(m.rules)) /\ UniqueKeys(m.rules)
      /\ \A r \in Range(m.rules) : PathKey(r) \in DOMAIN m.owner
      /\ ConflictsInv(m.conflicts, done)
  BY DEF MergeInv, RulesInv
<1>4. SUFFICES MergeInv(mode, merged, done \union {p})
  BY <1>1
<1>5. CASE ~May(p)
  <2>1. merged = Skipped(m, p)
    BY <1>1, <1>3, <1>5, MergeRuleCases
  <2>2. QED
    BY <1>5, <2>1, SkipRuleInv
<1>6. CASE May(p) /\ Key(p) \in DOMAIN m.owner /\ mode \in {"error", "first"}
  <2>1. merged = [m EXCEPT !.conflicts = @ \union {c}]
    BY <1>1, <1>2, <1>3, <1>6, MergeRuleCases
  <2>2. QED
    BY <1>2, <1>6, <2>1, ReportRuleInv
<1>7. CASE May(p) /\ Key(p) \in DOMAIN m.owner /\ mode = "priority"
  <2>1. PICK left : left = RemoveRuleByPath(m.rules, Key(p))
    OBVIOUS
  <2>2. /\ Merge6(merged) /\ merged.rules = Append(left, Renamed(p))
        /\ merged.skipped = m.skipped /\ merged.owner = OwnedBy(m.owner, p)
        /\ merged.conflicts = m.conflicts \union {c}
    BY <1>1, <1>2, <1>3, <1>7, <2>1, MergeRuleCases
  <2>3. /\ left \in Seq(Range(m.rules)) /\ UniqueKeys(left)
        /\ Range(left) = {r \in Range(m.rules) : PathKey(r) # Key(p)}
    BY <1>3, <2>1, RemovedByPath
  <2>4. PICK o \in done : Owns(mode, m.owner, done, Key(p), o)
    BY <1>7 DEF MergeInv, OwnersInv
  <2>5. ConflictsInv(merged.conflicts, done \union {p})
    <3>1. Between(c, o, p)
      BY <1>2, <2>4 DEF Owns, Between, Conflict
    <3>2. ASSUME NEW d \in merged.conflicts PROVE \E q, r \in done \union {p} : Between(d, q, r)
      <4>1. CASE d = c
        BY <3>1, <4>1
      <4>2. CASE d \in m.conflicts
        BY <1>3, <4>2 DEF ConflictsInv
      <4>3. QED
        BY <2>2, <4>1, <4>2
    <3>3. QED
      BY <3>2 DEF ConflictsInv
  <2>6. \A q \in done : Key(q) = Key(p) /\ May(q) => Outranks(mode, p, q)
    <3>1. \A q \in done : Fit(q)
      BY DEF MergeInv
    <3>2. QED
      BY <1>7, <3>1 DEF Outranks, Fit
  <2>7. ASSUME NEW q \in done, Key(q) = Key(p), m.owner[Key(p)] = Claim(q)
        PROVE  Named(merged.conflicts, q)
    <3>1. c.claims[1] = Claim(q) /\ DOMAIN c.claims = 1 .. 2 /\ c.key = Key(q)
      BY <1>2, <2>7 DEF Conflict
    <3>2. Claim(q) \in Range(c.claims)
      BY <3>1 DEF Range
    <3>3. QED
      BY <2>2, <3>1, <3>2 DEF Named
  <2>8. m.conflicts \subseteq merged.conflicts
    BY <2>2
  <2>9. QED
    BY <1>7, <2>2, <2>3, <2>5, <2>6, <2>7, <2>8, AdoptRuleInv
<1>8. CASE May(p) /\ Key(p) \notin DOMAIN m.owner
  <2>1. /\ Merge6(merged) /\ merged.rules = Append(m.rules, Renamed(p))
        /\ merged.skipped = m.skipped /\ merged.owner = OwnedBy(m.owner, p)
        /\ merged.conflicts = m.conflicts
    BY <1>1, <1>3, <1>8, MergeRuleCases
  <2>2. Range(m.rules) = {r \in Range(m.rules) : PathKey(r) # Key(p)}
    BY <1>3, <1>8
  <2>3. ConflictsInv(merged.conflicts, done \union {p})
    BY <1>3, <2>1, KeptConflicts
  <2>4. \A q \in done : Key(q) = Key(p) /\ May(q) => Outranks(mode, p, q)
    BY <1>8 DEF MergeInv, OwnersInv
  <2>5. \A q \in done : Key(q) = Key(p) /\ Key(p) \in DOMAIN m.owner /\ m.owner[Key(p)] = Claim(q)
          => Named(merged.conflicts, q)
    BY <1>8
  <2>6. m.conflicts \subseteq merged.conflicts
    BY <2>1
  <2>7. QED
    BY <1>3, <1>8, <2>1, <2>2, <2>3, <2>4, <2>5, <2>6, AdoptRuleInv
<1>9. QED
  BY <1>5, <1>6, <1>7, <1>8 DEF Modes

-----------------------------------------------------------------------------
(* One more source, and all of them                                        *)

RulesMet(source, config, n) == {<<source, config.rules[k]>> : k \in 1 .. n}

PairsOf(source, config) == {<<source, rule>> : rule \in Range(config.rules)}

LEMMA MergeSourceInv ==
  ASSUME NEW mode \in Modes, NEW m, NEW done, MergeInv(mode, m, done),
         NEW source, NEW config, config.rules \in Seq(Range(config.rules)),
         \A p \in PairsOf(source, config) : Fit(p),
         \A q \in done : q[1].priority <= source.priority, source.priority \in Int
  PROVE  MergeInv(mode, MergeSource(mode, m, source, config), done \union PairsOf(source, config))
<1>1. PICK start : start = [m EXCEPT !.server   = IF @.port = 0 /\ config.server.port # 0
                                                      THEN config.server ELSE @,
                                     !.defaults = IF @.status = 0 THEN config.defaults ELSE @]
  OBVIOUS
<1>2. MergeInv(mode, start, done)
  <2>1. /\ Merge6(start) /\ start.rules = m.rules /\ start.owner = m.owner
        /\ start.conflicts = m.conflicts /\ start.skipped = m.skipped
    BY <1>1 DEF MergeInv, Merge6
  <2>2. QED
    BY <2>1 DEF MergeInv
<1>3. PICK count \in Nat : count = Len(config.rules)
  OBVIOUS
<1>4. PICK after : after = RuleRounds(mode, start, source, config)
  OBVIOUS
<1>5. /\ after[0] = start
      /\ \A n \in 1 .. count : after[n] = MergeRule(mode, source, after[n - 1], config.rules[n])
  BY <1>3, <1>4, RulesByRounds
<1>6. Range(config.rules) = {config.rules[k] : k \in 1 .. count}
  BY <1>3, RangeEquality
<1> DEFINE B == {n \in 0 .. count : ~MergeInv(mode, after[n], done \union RulesMet(source, config, n))}
<1>7. B = {}
  <2>1. SUFFICES ASSUME B # {} PROVE FALSE
    OBVIOUS
  <2>2. PICK n \in B : \A k \in B : n <= k
    <3>1. B \in SUBSET Nat
      OBVIOUS
    <3> HIDE DEF B
    <3>2. QED
      BY <2>1, <3>1, LeastNatural
  <2>3. n # 0
    <3>1. done \union RulesMet(source, config, 0) = done
      BY DEF RulesMet
    <3>2. QED
      BY <1>2, <1>5, <2>2, <3>1
  <2>4. n \in 1 .. count /\ n - 1 \in 0 .. count /\ ~(n <= n - 1)
    BY <2>2, <2>3
  <2>5. MergeInv(mode, after[n - 1], done \union RulesMet(source, config, n - 1))
    BY <2>2, <2>4
  <2>6. PICK p : p = <<source, config.rules[n]>>
    OBVIOUS
  <2>7. /\ p[1] = source /\ p[2] = config.rules[n]
        /\ after[n] = MergeRule(mode, p[1], after[n - 1], p[2])
    BY <1>5, <2>4, <2>6
  <2>8. Fit(p)
    BY <1>6, <2>4, <2>6 DEF PairsOf
  <2>9. \A q \in done \union RulesMet(source, config, n - 1) : q[1].priority <= p[1].priority
    BY <2>7 DEF RulesMet
  <2>10. MergeInv(mode, after[n], (done \union RulesMet(source, config, n - 1)) \union {p})
    <3>1. PICK met : met = done \union RulesMet(source, config, n - 1)
      OBVIOUS
    <3>2. MergeInv(mode, after[n - 1], met) /\ \A q \in met : q[1].priority <= p[1].priority
      BY <2>5, <2>9, <3>1
    <3>3. PICK last : last = after[n - 1]
      OBVIOUS
    <3>4. MergeInv(mode, MergeRule(mode, p[1], last, p[2]), met \union {p})
      <4> HIDE DEF B
      <4>1. MergeInv(mode, last, met)
        BY <3>2, <3>3
      <4>2. QED
        BY <2>8, <3>2, <4>1, MergeRuleInv
    <3>5. QED
      BY <2>7, <3>1, <3>3, <3>4
  <2>11. (done \union RulesMet(source, config, n - 1)) \union {p} = done \union RulesMet(source, config, n)
    <3>1. \A k \in 1 .. n : k \in 1 .. n - 1 \/ k = n
      BY <2>4
    <3>2. \A k \in 1 .. n - 1 : k \in 1 .. n
      BY <2>4
    <3>3. n \in 1 .. n
      BY <2>4
    <3>4. RulesMet(source, config, n) = RulesMet(source, config, n - 1) \union {p}
      BY <2>6, <3>1, <3>2, <3>3 DEF RulesMet
    <3>5. QED
      BY <3>4
  <2>12. QED
    BY <2>2, <2>10, <2>11
<1>8. MergeInv(mode, after[count], done \union RulesMet(source, config, count))
  BY <1>7
<1>9. RulesMet(source, config, count) = PairsOf(source, config)
  BY <1>6 DEF RulesMet, PairsOf
<1>10. MergeSource(mode, m, source, config) = after[count]
  BY <1>1, <1>3, <1>4 DEF MergeSource
<1>11. QED
  BY <1>8, <1>9, <1>10

SourcesMet(order, configs, n) ==
  UNION {PairsOf(order[k], configs[order[k].name]) : k \in 1 .. n}

LEMMA NothingMergedInv == ASSUME NEW mode PROVE MergeInv(mode, NothingMerged, {})
<1>1. /\ Merge6(NothingMerged) /\ NothingMerged.rules = <<>> /\ NothingMerged.owner = <<>>
      /\ NothingMerged.conflicts = {} /\ NothingMerged.skipped = {}
  BY DEF NothingMerged, Merge6
<1>2. Range(<<>>) = {} /\ DOMAIN <<>> = {} /\ Len(<<>>) = 0 /\ <<>> \in Seq({})
  BY DEF Range
<1>3. QED
  BY <1>1, <1>2 DEF MergeInv, RulesInv, OwnersInv, ConflictsInv, UniqueKeys

LEMMA MergeAllInv ==
  ASSUME NEW mode \in Modes, NEW sources, NEW order \in Seq(sources), NEW configs,
         \A s \in sources :
           /\ s.priority \in Int
           /\ configs[s.name].rules \in Seq(Range(configs[s.name].rules))
           /\ \A p \in PairsOf(s, configs[s.name]) : Fit(p),
         \A i, j \in 1 .. Len(order) : i < j => order[i].priority <= order[j].priority
  PROVE  MergeInv(mode, MergeAll(mode, order, configs), SourcesMet(order, configs, Len(order)))
<1>1. PICK count \in Nat : count = Len(order)
  OBVIOUS
<1>2. PICK after : after = SourceRounds(mode, order, configs)
  OBVIOUS
<1>3. /\ after[0] = NothingMerged
      /\ \A n \in 1 .. count :
           after[n] = MergeSource(mode, after[n - 1], order[n], configs[order[n].name])
  BY <1>1, <1>2, SourcesByRounds
<1> DEFINE B == {n \in 0 .. count : ~MergeInv(mode, after[n], SourcesMet(order, configs, n))}
<1>4. B = {}
  <2>1. SUFFICES ASSUME B # {} PROVE FALSE
    OBVIOUS
  <2>2. PICK n \in B : \A k \in B : n <= k
    <3>1. B \in SUBSET Nat
      OBVIOUS
    <3> HIDE DEF B
    <3>2. QED
      BY <2>1, <3>1, LeastNatural
  <2>3. n # 0
    <3>1. SourcesMet(order, configs, 0) = {}
      BY DEF SourcesMet
    <3>2. QED
      BY <1>3, <2>2, <3>1, NothingMergedInv
  <2>4. n \in 1 .. count /\ n - 1 \in 0 .. count /\ ~(n <= n - 1)
    BY <2>2, <2>3
  <2>5. MergeInv(mode, after[n - 1], SourcesMet(order, configs, n - 1))
    BY <2>2, <2>4
  <2>6. PICK s \in sources : s = order[n]
    BY <1>1, <2>4
  <2>7. PICK config : config = configs[s.name]
    OBVIOUS
  <2>8. after[n] = MergeSource(mode, after[n - 1], s, config)
    BY <1>3, <2>4, <2>6, <2>7
  <2>9. ASSUME NEW q \in SourcesMet(order, configs, n - 1) PROVE q[1].priority <= s.priority
    <3>1. PICK k \in 1 .. n - 1 : q \in PairsOf(order[k], configs[order[k].name])
      BY DEF SourcesMet
    <3>2. q[1] = order[k]
      BY <3>1 DEF PairsOf
    <3>3. k \in 1 .. Len(order) /\ n \in 1 .. Len(order) /\ k < n
      BY <1>1, <2>4
    <3>4. QED
      BY <2>6, <3>2, <3>3
  <2>10. MergeInv(mode, after[n], SourcesMet(order, configs, n - 1) \union PairsOf(s, config))
    <3>1. /\ config.rules \in Seq(Range(config.rules)) /\ s.priority \in Int
          /\ \A p \in PairsOf(s, config) : Fit(p)
      BY <2>7
    <3>2. QED
      BY <2>5, <2>8, <2>9, <3>1, MergeSourceInv
  <2>11. SourcesMet(order, configs, n - 1) \union PairsOf(s, config) = SourcesMet(order, configs, n)
    <3>1. \A k \in 1 .. n : k \in 1 .. n - 1 \/ k = n
      BY <2>4
    <3>2. \A k \in 1 .. n - 1 : k \in 1 .. n
      BY <2>4
    <3>3. n \in 1 .. n
      BY <2>4
    <3>4. QED
      BY <2>6, <2>7, <3>1, <3>2, <3>3 DEF SourcesMet
  <2>12. QED
    BY <2>2, <2>10, <2>11
<1>5. QED
  BY <1>1, <1>2, <1>4 DEF MergeAll

-----------------------------------------------------------------------------
(* What is fetched and merged                                              *)

(* A list in which a finite set is written out, each element once, leaves  *)
(* none out.                                                               *)
LEMMA OrderIsOnto ==
  ASSUME NEW S, IsFiniteSet(S), NEW order \in [1 .. Cardinality(S) -> S], IsInjective(order)
  PROVE  /\ order \in Seq(S)
         /\ \A s \in S : \E k \in 1 .. Len(order) : order[k] = s
<1>1. PICK n \in Nat : n = Cardinality(S)
  BY FS_CardinalityType
<1>2. order \in Seq(S) /\ Len(order) = n
  BY <1>1
<1>3. IsFiniteSet(1 .. n) /\ Cardinality(1 .. n) = n
  BY FS_Interval
<1>4. order \in Injection(1 .. n, S)
  BY <1>1 DEF Injection, IsInjective
<1>5. order \in Surjection(1 .. n, S)
  BY <1>1, <1>3, <1>4, FS_Injection
<1>6. \A s \in S : \E k \in 1 .. n : order[k] = s
  BY <1>5 DEF Surjection
<1>7. QED
  BY <1>1, <1>2, <1>6

LEMMA SetToSeqIsOnto ==
  ASSUME NEW S, IsFiniteSet(S), NEW order, order = SetToSeq(S)
  PROVE  /\ order \in Seq(S)
         /\ \A s \in S : \E k \in 1 .. Len(order) : order[k] = s
<1>1. \E f \in [1 .. Cardinality(S) -> S] : IsInjective(f)
  <2>1. PICK f : f \in Bijection(1 .. Cardinality(S), S)
    BY FS_CardinalityType DEF ExistsBijection
  <2>2. QED
    BY <2>1 DEF Bijection, Injection
<1>2. order \in [1 .. Cardinality(S) -> S] /\ IsInjective(order)
  BY <1>1 DEF SetToSeq
<1>3. QED
  BY <1>2, OrderIsOnto

(* All the rules of the sources that answered.                             *)
AllPairs(sources, configs) == UNION {PairsOf(s, configs[s.name]) : s \in sources}

Configs == [Names -> Contents \union {NoConfig}]

Answered(sources, configs) == {s \in sources : configs[s.name] # NoConfig}

LEMMA PairsFit ==
  ASSUME NEW s0 \in Setups, NEW configs \in Configs, NEW s \in Answered(s0.sources, configs)
  PROVE  /\ s \in s0.sources /\ s.name \in Names /\ s.priority \in Int
         /\ configs[s.name] \in Contents
         /\ configs[s.name].rules \in Seq(Range(configs[s.name].rules))
         /\ \A p \in PairsOf(s, configs[s.name]) : Fit(p)
<1>1. s \in s0.sources /\ s.name \in Names /\ s.priority \in Int
  BY SetupsAssumption DEF Answered
<1>2. configs[s.name] \in Contents
  BY <1>1 DEF Answered, Configs
<1>3. PICK c \in Contents : c = configs[s.name]
  BY <1>2
<1>4. /\ c.rules \in Seq(Range(c.rules))
      /\ \A rule \in Range(c.rules) :
           {"id", "type", "host", "path", "pattern"} \subseteq DOMAIN rule
  BY ContentsAssumption
<1>5. ASSUME NEW p \in PairsOf(s, c) PROVE Fit(p)
  <2>1. PICK rule \in Range(c.rules) : p = <<s, rule>>
    BY DEF PairsOf
  <2>2. p[1] = s /\ p[2] = rule
    BY <2>1
  <2>3. QED
    BY <1>1, <1>4, <2>2 DEF Fit
<1>6. QED
  BY <1>1, <1>2, <1>3, <1>4, <1>5

LEMMA MergesInv ==
  ASSUME NEW merge \in Merges
  PROVE  /\ merge.setup \in Setups /\ merge.fetched \in Configs
         /\ MergeInv(merge.setup.mode, merge.merged,
                     AllPairs(Answered(merge.setup.sources, merge.fetched), merge.fetched))
<1>1. PICK s \in Setups, f \in Configs :
        \E order \in MergeOrders({x \in s.sources : f[x.name] # NoConfig}) :
          merge = [setup |-> s, fetched |-> f, merged |-> MergeAll(s.mode, order, f)]
  BY DEF Merges, Configs
<1>2. PICK sources : sources = Answered(s.sources, f)
  OBVIOUS
<1>3. PICK order \in MergeOrders(sources) :
        merge = [setup |-> s, fetched |-> f, merged |-> MergeAll(s.mode, order, f)]
  BY <1>1, <1>2 DEF Answered
<1>4. merge.setup = s /\ merge.fetched = f /\ merge.merged = MergeAll(s.mode, order, f)
  BY <1>3
<1>5. IsFiniteSet(sources)
  <2>1. IsFiniteSet(s.sources) /\ sources \in SUBSET s.sources
    BY <1>2, SetupsAssumption DEF Answered
  <2>2. QED
    BY <2>1, FS_Subset
<1>6. /\ order \in [1 .. Cardinality(sources) -> sources]
      /\ IsInjective(order)
      /\ \A i, j \in DOMAIN order : i < j => order[i].priority <= order[j].priority
  BY DEF MergeOrders, SetToSeqs, IsInjective
<1>7. /\ order \in Seq(sources)
      /\ \A x \in sources : \E k \in 1 .. Len(order) : order[k] = x
  BY <1>5, <1>6, OrderIsOnto
<1>8. \A i, j \in 1 .. Len(order) : i < j => order[i].priority <= order[j].priority
  <2>1. DOMAIN order = 1 .. Len(order)
    BY <1>7
  <2>2. QED
    BY <1>6, <2>1
<1>9. \A x \in sources :
        /\ x.priority \in Int
        /\ f[x.name].rules \in Seq(Range(f[x.name].rules))
        /\ \A p \in PairsOf(x, f[x.name]) : Fit(p)
  BY <1>2, PairsFit
<1>10. s.mode \in Modes
  BY SetupsAssumption DEF Modes
<1>11. MergeInv(s.mode, MergeAll(s.mode, order, f), SourcesMet(order, f, Len(order)))
  BY <1>7, <1>8, <1>9, <1>10, MergeAllInv
<1>12. SourcesMet(order, f, Len(order)) = AllPairs(sources, f)
  <2>1. \A k \in 1 .. Len(order) : order[k] \in sources
    BY <1>7
  <2>2. QED
    BY <1>7, <2>1 DEF SourcesMet, AllPairs
<1>13. QED
  BY <1>2, <1>4, <1>11, <1>12

-----------------------------------------------------------------------------
(* The goroutines                                                          *)

Outcomes == {"none", "delivered", "failed", "done", "given up"}

SyncStates ==
  [stage : {"idle", "fetching", "pushing"}, sent : [Names -> Contents \union {Unset}],
   fetched : [Names -> Contents \union {NoConfig, Unset}],
   merged : {merge.merged : merge \in Merges} \union {NothingMerged},
   attempts : [Targets -> Nat], outcome : [Targets -> Outcomes]]

SyncTypeOK ==
  /\ setup \in Setups
  /\ content \in [Names -> Contents]
  /\ tags \in [Names -> Contents \union {Unset}]
  /\ syncs \in [Processes -> SyncStates]

Accepted(merge) == ~Refused(merge) /\ ~Invalid(merge)

(* What is current is what the answers to one and the same sync are merged *)
(* to, neither refused for its conflicts nor, where merges are validated,  *)
(* invalid, whichever syncs overlap, fail, give up or push what they have  *)
(* watched (syncer.go:287-339, 514-527).                                   *)
CurrentIsAccepted ==
  current # NoConfig =>
    \E merge \in Merges :
      merge.setup = setup /\ Accepted(merge) /\ current = Published(merge.merged)

(* What a sync is pushing is a merge of what it fetched, and accepted.     *)
MergedInv ==
  \A p \in Merged :
    \E merge \in Merges :
      /\ merge.setup = setup /\ merge.fetched = syncs[p].fetched /\ merge.merged = syncs[p].merged
      /\ Accepted(merge)

SyncInv == SyncTypeOK /\ MergedInv

LEMMA IdleType == Idle \in SyncStates
BY DEF Idle, SyncStates, Outcomes

LEMMA TagType ==
  ASSUME SyncTypeOK, NEW n \in Names
  PROVE  Tag(n) \in [Names -> Contents \union {Unset}]
<1>1. [tags EXCEPT ![n] = content[n]] \in [Names -> Contents \union {Unset}]
  BY DEF SyncTypeOK
<1>2. QED
  BY <1>1 DEF Tag, SyncTypeOK

LEMMA InitInv == Init => SyncInv
<1> SUFFICES ASSUME Init PROVE SyncInv
  OBVIOUS
<1>1. SyncTypeOK
  BY IdleType DEF Init, SyncTypeOK
<1>2. MergedInv
  BY DEF Init, MergedInv, Merged, Idle
<1>3. QED
  BY <1>1, <1>2 DEF SyncInv

(* An action that does not merge changes nothing of a merge.               *)
LEMMA KeepsMerged ==
  ASSUME SyncInv, UNCHANGED setup,
         \A q \in Processes :
           syncs'[q].stage = "pushing" /\ q # "watch" =>
             /\ syncs[q].stage = "pushing"
             /\ syncs'[q].fetched = syncs[q].fetched /\ syncs'[q].merged = syncs[q].merged
  PROVE  MergedInv'
<1> SUFFICES ASSUME NEW q \in Processes \ {"watch"}, syncs'[q].stage = "pushing"
             PROVE  \E merge \in Merges :
                      /\ merge.setup = setup' /\ merge.fetched = syncs'[q].fetched
                      /\ merge.merged = syncs'[q].merged /\ Accepted(merge)
  BY DEF MergedInv, Merged
<1>1. q \in Merged /\ syncs'[q].fetched = syncs[q].fetched /\ syncs'[q].merged = syncs[q].merged
  BY DEF Merged
<1>2. QED
  BY <1>1 DEF SyncInv, MergedInv

LEMMA BeginInv ==
  ASSUME SyncInv, NEW p \in Processes, Begin(p)
  PROVE  SyncInv'
<1>1. [Idle EXCEPT !.stage = "fetching", !.sent = tags] \in SyncStates
  BY IdleType DEF SyncInv, SyncTypeOK, SyncStates
<1>2. SyncTypeOK'
  BY <1>1 DEF Begin, SyncInv, SyncTypeOK
<1>3. [Idle EXCEPT !.stage = "fetching", !.sent = tags].stage = "fetching"
  BY DEF Idle
<1>4. ASSUME NEW q \in Processes, syncs'[q].stage = "pushing"
      PROVE  syncs'[q] = syncs[q]
  BY <1>3, <1>4 DEF Begin, SyncInv, SyncTypeOK
<1>5. MergedInv'
  BY <1>4, KeepsMerged DEF Begin
<1>6. QED
  BY <1>2, <1>5 DEF SyncInv

LEMMA WatchedInv ==
  ASSUME SyncInv, NEW n \in Names, WatchedChange(n)
  PROVE  SyncInv'
<1>1. [Idle EXCEPT !.stage = "pushing"] \in SyncStates /\ "watch" \in Processes
  BY IdleType DEF SyncStates, Processes
<1>2. SyncTypeOK'
  BY <1>1, TagType DEF WatchedChange, SyncInv, SyncTypeOK
<1>3. ASSUME NEW q \in Processes, q # "watch"
      PROVE  syncs'[q] = syncs[q]
  BY <1>3 DEF WatchedChange, SyncInv, SyncTypeOK
<1>4. MergedInv'
  BY <1>3, KeepsMerged DEF WatchedChange
<1>5. QED
  BY <1>2, <1>4 DEF SyncInv

(* An action that changes one part of one goroutine that is not its merge. *)
LEMMA FetchInv ==
  ASSUME SyncInv, NEW p \in Processes, NEW n \in Names, NEW answer \in Contents \union {NoConfig},
         Fetch(p, n, answer), tags' \in {tags, Tag(n)}
  PROVE  SyncInv'
<1>1. [syncs[p] EXCEPT !.fetched[n] = answer] \in SyncStates
  BY DEF SyncInv, SyncTypeOK, SyncStates
<1>2. syncs' = [syncs EXCEPT ![p] = [syncs[p] EXCEPT !.fetched[n] = answer]]
  BY DEF Fetch
<1>3. SyncTypeOK'
  BY <1>1, <1>2, TagType DEF Fetch, SyncInv, SyncTypeOK
<1>4. ASSUME NEW q \in Processes, syncs'[q].stage = "pushing"
      PROVE  syncs'[q] = syncs[q]
  <2>1. [syncs[p] EXCEPT !.fetched[n] = answer].stage = "fetching"
    BY DEF Fetch, SyncInv, SyncTypeOK, SyncStates
  <2>2. QED
    BY <1>2, <1>4, <2>1 DEF SyncInv, SyncTypeOK
<1>5. MergedInv'
  BY <1>4, KeepsMerged DEF Fetch
<1>6. QED
  BY <1>3, <1>5 DEF SyncInv

LEMMA OneSyncInv ==
  ASSUME SyncInv, UNCHANGED <<setup, content, tags>>, NEW p \in Processes, NEW r \in SyncStates,
         syncs' = [syncs EXCEPT ![p] = r],
         r.stage = "pushing" => r.stage = syncs[p].stage /\ r.fetched = syncs[p].fetched
                                  /\ r.merged = syncs[p].merged
  PROVE  SyncInv'
<1>1. SyncTypeOK'
  BY DEF SyncInv, SyncTypeOK
<1>2. ASSUME NEW q \in Processes, syncs'[q].stage = "pushing"
      PROVE  /\ syncs[q].stage = "pushing"
             /\ syncs'[q].fetched = syncs[q].fetched /\ syncs'[q].merged = syncs[q].merged
  <2>1. syncs'[p] = r
    BY DEF SyncInv, SyncTypeOK
  <2>2. q # p => syncs'[q] = syncs[q]
    BY DEF SyncInv, SyncTypeOK
  <2>3. QED
    BY <1>2, <2>1, <2>2
<1>3. MergedInv'
  BY <1>2, KeepsMerged
<1>4. QED
  BY <1>1, <1>3 DEF SyncInv

LEMMA MergeFetchedInv ==
  ASSUME SyncInv, NEW p \in Processes, MergeFetched(p)
  PROVE  SyncInv'
<1>1. PICK merge \in Merges :
        /\ merge.setup = setup /\ merge.fetched = syncs[p].fetched
        /\ syncs' = [syncs EXCEPT ![p] =
             IF Refused(merge) \/ Invalid(merge) THEN Idle
             ELSE [syncs[p] EXCEPT !.stage = "pushing", !.merged = merge.merged]]
  BY DEF MergeFetched
<1>2. PICK r : r = IF Refused(merge) \/ Invalid(merge) THEN Idle
                   ELSE [syncs[p] EXCEPT !.stage = "pushing", !.merged = merge.merged]
  OBVIOUS
<1>3. /\ r \in SyncStates
      /\ r.stage = "pushing" =>
           r.fetched = merge.fetched /\ r.merged = merge.merged /\ Accepted(merge)
  <2>1. CASE Refused(merge) \/ Invalid(merge)
    <3>1. r = Idle /\ r.stage = "idle"
      BY <1>2, <2>1 DEF Idle
    <3>2. QED
      BY <3>1, IdleType
  <2>2. CASE ~(Refused(merge) \/ Invalid(merge))
    <3>1. r = [syncs[p] EXCEPT !.stage = "pushing", !.merged = merge.merged]
      BY <1>2, <2>2
    <3>2. syncs[p] \in SyncStates
      BY DEF SyncInv, SyncTypeOK
    <3>3. QED
      BY <1>1, <2>2, <3>1, <3>2 DEF SyncStates, Accepted
  <2>3. QED
    BY <2>1, <2>2
<1>4. syncs' = [syncs EXCEPT ![p] = r] /\ UNCHANGED <<setup, content, tags>>
  BY <1>1, <1>2 DEF MergeFetched
<1>5. syncs'[p] = r /\ \A q \in Processes \ {p} : syncs'[q] = syncs[q]
  BY <1>4 DEF SyncInv, SyncTypeOK
<1>6. SyncTypeOK'
  BY <1>3, <1>4 DEF SyncInv, SyncTypeOK
<1>7. MergedInv'
  <2> SUFFICES ASSUME NEW q \in Processes \ {"watch"}, syncs'[q].stage = "pushing"
               PROVE  \E mm \in Merges :
                        /\ mm.setup = setup' /\ mm.fetched = syncs'[q].fetched
                        /\ mm.merged = syncs'[q].merged /\ Accepted(mm)
    BY DEF MergedInv, Merged
  <2>1. CASE q = p
    BY <1>1, <1>3, <1>4, <1>5, <2>1
  <2>2. CASE q # p
    <3>1. syncs'[q] = syncs[q] /\ q \in Merged
      BY <1>5, <2>2 DEF Merged
    <3>2. QED
      BY <1>4, <3>1 DEF SyncInv, MergedInv
  <2>3. QED
    BY <2>1, <2>2
<1>8. QED
  BY <1>6, <1>7 DEF SyncInv

LEMMA DeliverInv ==
  ASSUME SyncInv, NEW p \in Processes, NEW t \in Targets, Deliver(p, t)
  PROVE  SyncInv'
<1>1. PICK r : r = [syncs[p] EXCEPT !.outcome[t] = "delivered"]
  OBVIOUS
<1>2. /\ r \in SyncStates /\ r.stage = syncs[p].stage /\ r.fetched = syncs[p].fetched
      /\ r.merged = syncs[p].merged
  BY <1>1 DEF SyncInv, SyncTypeOK, SyncStates, Outcomes
<1>3. syncs' = [syncs EXCEPT ![p] = r] /\ UNCHANGED <<setup, content, tags>>
  BY <1>1 DEF Deliver
<1>4. QED
  BY <1>2, <1>3, OneSyncInv

LEMMA PushFailsInv ==
  ASSUME SyncInv, NEW p \in Processes, NEW t \in Targets, PushFails(p, t)
  PROVE  SyncInv'
<1>1. syncs[p] \in SyncStates
  BY DEF SyncInv, SyncTypeOK
<1>2. PICK now : now = IF syncs[p].attempts[t] = RetryAttempts THEN "failed" ELSE syncs[p].outcome[t]
  OBVIOUS
<1>3. now \in Outcomes
  BY <1>1, <1>2 DEF SyncStates, Outcomes
<1>4. PICK r : r = [syncs[p] EXCEPT !.attempts[t] = @ + 1, !.outcome[t] = now]
  OBVIOUS
<1>5. /\ r \in SyncStates /\ r.stage = syncs[p].stage /\ r.fetched = syncs[p].fetched
      /\ r.merged = syncs[p].merged
  <2>1. PICK before \in SyncStates : before = syncs[p]
    BY <1>1
  <2>2. /\ [before.attempts EXCEPT ![t] = @ + 1] \in [Targets -> Nat]
        /\ [before.outcome EXCEPT ![t] = now] \in [Targets -> Outcomes]
    BY <1>3 DEF SyncStates
  <2>3. r = [before EXCEPT !.attempts = [before.attempts EXCEPT ![t] = @ + 1],
                          !.outcome = [before.outcome EXCEPT ![t] = now]]
    BY <1>4, <2>1 DEF SyncStates
  <2>4. QED
    BY <2>1, <2>2, <2>3 DEF SyncStates
<1>6. syncs' = [syncs EXCEPT ![p] = r] /\ UNCHANGED <<setup, content, tags>>
  BY <1>2, <1>4 DEF PushFails
<1>7. QED
  BY <1>5, <1>6, OneSyncInv

LEMMA GiveUpInv ==
  ASSUME SyncInv, NEW t \in Targets, GiveUp(t)
  PROVE  SyncInv'
<1>1. PICK r : r = [syncs["webhook"] EXCEPT !.outcome[t] = "failed"]
  OBVIOUS
<1>2. "webhook" \in Processes
  BY DEF Processes
<1>3. /\ r \in SyncStates /\ r.stage = syncs["webhook"].stage
      /\ r.fetched = syncs["webhook"].fetched /\ r.merged = syncs["webhook"].merged
  BY <1>1, <1>2 DEF SyncInv, SyncTypeOK, SyncStates, Outcomes
<1>4. syncs' = [syncs EXCEPT !["webhook"] = r] /\ UNCHANGED <<setup, content, tags>>
  BY <1>1 DEF GiveUp
<1>5. QED
  BY <1>2, <1>3, <1>4, OneSyncInv

LEMMA MarkTargetInv ==
  ASSUME SyncInv, NEW p \in Processes, NEW t \in Targets, MarkTarget(p, t)
  PROVE  SyncInv'
<1>1. PICK r : r = [syncs[p] EXCEPT !.outcome[t] = IF @ = "failed" THEN "given up" ELSE "done"]
  OBVIOUS
<1>2. /\ r \in SyncStates /\ r.stage = syncs[p].stage /\ r.fetched = syncs[p].fetched
      /\ r.merged = syncs[p].merged
  BY <1>1 DEF SyncInv, SyncTypeOK, SyncStates, Outcomes
<1>3. syncs' = [syncs EXCEPT ![p] = r] /\ UNCHANGED <<setup, content, tags>>
  BY <1>1 DEF MarkTarget
<1>4. QED
  BY <1>2, <1>3, OneSyncInv

LEMMA FinishInv ==
  ASSUME SyncInv, NEW p \in Processes, Finish(p)
  PROVE  SyncInv'
<1>1. syncs' = [syncs EXCEPT ![p] = Idle] /\ UNCHANGED <<setup, content, tags>>
  BY DEF Finish
<1>2. Idle \in SyncStates /\ Idle.stage # "pushing"
  BY IdleType DEF Idle
<1>3. QED
  BY <1>1, <1>2, OneSyncInv

LEMMA EditInv ==
  ASSUME SyncInv, NEW n \in Names, Edit(n)
  PROVE  SyncInv'
<1>1. SyncTypeOK'
  BY DEF Edit, SyncInv, SyncTypeOK
<1>2. MergedInv'
  BY KeepsMerged DEF Edit
<1>3. QED
  BY <1>1, <1>2 DEF SyncInv

LEMMA StepInv == SyncInv /\ [Next]_vars => SyncInv'
<1> SUFFICES ASSUME SyncInv, [Next]_vars PROVE SyncInv'
  OBVIOUS
<1>1. CASE UNCHANGED vars
  <2>1. UNCHANGED <<setup, content, tags, syncs>>
    BY <1>1 DEF vars
  <2>2. MergedInv'
    BY <2>1, KeepsMerged
  <2>3. QED
    BY <2>1, <2>2 DEF SyncInv, SyncTypeOK
<1>2. CASE Tick
  BY <1>2, BeginInv DEF Tick, Processes
<1>3. CASE Webhook
  BY <1>3, BeginInv DEF Webhook, Processes
<1>4. ASSUME NEW n \in Names, WatchedChange(n) PROVE SyncInv'
  BY <1>4, WatchedInv
<1>5. ASSUME NEW n \in Names, Edit(n) PROVE SyncInv'
  BY <1>5, EditInv
<1>6. ASSUME NEW p \in Processes, Proceed(p) PROVE SyncInv'
  <2>1. ASSUME NEW n \in Names, Answer(p, n) PROVE SyncInv'
    <3>1. /\ content[n] \in Contents \union {NoConfig} /\ Fetch(p, n, content[n])
          /\ tags' = Tag(n)
      BY <2>1 DEF Answer, SyncInv, SyncTypeOK
    <3>2. QED
      BY <3>1, FetchInv
  <2>7. ASSUME NEW n \in Names, NotModified(p, n) PROVE SyncInv'
    BY <2>7, FetchInv DEF NotModified
  <2>2. CASE MergeFetched(p)
    BY <2>2, MergeFetchedInv
  <2>3. ASSUME NEW t \in Targets, Deliver(p, t) PROVE SyncInv'
    BY <2>3, DeliverInv
  <2>4. ASSUME NEW t \in Targets, MarkTarget(p, t) PROVE SyncInv'
    BY <2>4, MarkTargetInv
  <2>5. CASE Finish(p)
    BY <2>5, FinishInv
  <2>6. QED
    BY <1>6, <2>1, <2>2, <2>3, <2>4, <2>5, <2>7 DEF Proceed
<1>7. ASSUME NEW p \in Processes, Trouble(p) PROVE SyncInv'
  <2>1. ASSUME NEW n \in Names, FetchFails(p, n) PROVE SyncInv'
    BY <2>1, FetchInv DEF FetchFails
  <2>2. ASSUME NEW t \in Targets, PushFails(p, t) PROVE SyncInv'
    BY <2>2, PushFailsInv
  <2>3. QED
    BY <1>7, <2>1, <2>2 DEF Trouble
<1>8. ASSUME NEW t \in Targets, GiveUp(t) PROVE SyncInv'
  BY <1>8, GiveUpInv
<1>9. QED
  BY <1>1, <1>2, <1>3, <1>4, <1>5, <1>6, <1>7, <1>8 DEF Next

LEMMA InvAlways == Spec => []SyncInv
BY InitInv, StepInv, PTL DEF Spec

(* What is current changes only when a sync has pushed what it merged.     *)
LEMMA CurrentStep == SyncInv /\ CurrentIsAccepted /\ [Next]_vars => CurrentIsAccepted'
<1> SUFFICES ASSUME SyncInv, CurrentIsAccepted, [Next]_vars PROVE CurrentIsAccepted'
  OBVIOUS
<1>1. setup' = setup
  BY DEF Next, vars, Tick, Webhook, Begin, WatchedChange, Edit, Proceed, Answer, NotModified, Fetch,
         MergeFetched, Deliver, MarkTarget, Finish, Trouble, FetchFails, PushFails, GiveUp
<1>2. CASE current' = current
  BY <1>1, <1>2 DEF CurrentIsAccepted
<1>3. CASE current' # current
  <2>1. PICK p \in Processes : Finish(p)
    BY <1>3 DEF Next, vars, Tick, Webhook, Begin, WatchedChange, Edit, Proceed, Answer, NotModified, Fetch,
         MergeFetched, Deliver, MarkTarget, Trouble, FetchFails, PushFails, GiveUp
  <2>2. p \in Merged /\ current' = Published(syncs[p].merged)
    BY <1>3, <2>1 DEF Finish, Merged
  <2>3. PICK merge \in Merges :
          merge.setup = setup /\ merge.merged = syncs[p].merged /\ Accepted(merge)
    BY <2>2 DEF SyncInv, MergedInv
  <2>4. QED
    BY <1>1, <2>2, <2>3 DEF CurrentIsAccepted
<1>4. QED
  BY <1>2, <1>3

(* Whatever overlaps and fails, nothing is current that no sync has merged *)
(* from one set of answers and accepted (syncer.go:315-339, 514-527).      *)
THEOREM OnlyAcceptedIsCurrent == Spec => []CurrentIsAccepted
<1>1. Init => CurrentIsAccepted
  BY DEF Init, CurrentIsAccepted
<1>2. QED
  BY <1>1, CurrentStep, InvAlways, PTL DEF Spec

-----------------------------------------------------------------------------
(* What is published                                                       *)

(* The merge a sync pushes, with what is known of it.                      *)
LEMMA PushedMerge ==
  ASSUME SyncInv, NEW p \in Merged
  PROVE  /\ setup \in Setups /\ syncs[p].fetched \in Configs
         /\ MergeInv(setup.mode, syncs[p].merged, AllPairs(Answering(p), syncs[p].fetched))
         /\ Answering(p) = Answered(setup.sources, syncs[p].fetched)
<1>1. PICK merge \in Merges :
        merge.setup = setup /\ merge.fetched = syncs[p].fetched /\ merge.merged = syncs[p].merged
  BY DEF SyncInv, MergedInv
<1>2. Answering(p) = Answered(setup.sources, syncs[p].fetched)
  BY DEF Answering, Answered
<1>3. /\ merge.setup \in Setups /\ merge.fetched \in Configs
      /\ MergeInv(merge.setup.mode, merge.merged,
                  AllPairs(Answered(merge.setup.sources, merge.fetched), merge.fetched))
  BY MergesInv
<1>4. QED
  BY <1>1, <1>2, <1>3

LEMMA PairsKnown ==
  ASSUME NEW sources, NEW configs
  PROVE  /\ \A s \in sources : \A rule \in Range(configs[s.name].rules) :
              <<s, rule>> \in AllPairs(sources, configs)
         /\ \A q \in AllPairs(sources, configs) :
              q[1] \in sources /\ q[2] \in Range(configs[q[1].name].rules) /\ q = <<q[1], q[2]>>
<1>1. ASSUME NEW s \in sources, NEW rule \in Range(configs[s.name].rules)
      PROVE  <<s, rule>> \in AllPairs(sources, configs)
  BY DEF AllPairs, PairsOf
<1>2. ASSUME NEW q \in AllPairs(sources, configs)
      PROVE  q[1] \in sources /\ q[2] \in Range(configs[q[1].name].rules) /\ q = <<q[1], q[2]>>
  BY DEF AllPairs, PairsOf
<1>3. QED
  BY <1>1, <1>2

LEMMA InvNothingLost == SyncInv => NothingLost
<1> SUFFICES ASSUME SyncInv, NEW p \in Merged
             PROVE  /\ \A i, j \in DOMAIN syncs[p].merged.rules :
                         PathKey(syncs[p].merged.rules[i]) = PathKey(syncs[p].merged.rules[j]) => i = j
                    /\ \A source \in Answering(p) : \A rule \in RulesOf(p, source) :
                         LET claim == [source |-> source.name, id |-> Prefixed(source, rule.id)]
                         IN  \/ claim \in syncs[p].merged.skipped /\ ~Allowed(source, rule)
                             \/ [rule EXCEPT !.id = claim.id] \in Range(syncs[p].merged.rules)
                             \/ \E c \in syncs[p].merged.conflicts :
                                  c.key = PathKey(rule) /\ claim \in Range(c.claims)
  BY DEF NothingLost
<1>1. PICK m : m = syncs[p].merged
  OBVIOUS
<1>2. MergeInv(setup.mode, m, AllPairs(Answering(p), syncs[p].fetched))
  BY <1>1, PushedMerge
<1>3. \A i, j \in DOMAIN m.rules : PathKey(m.rules[i]) = PathKey(m.rules[j]) => i = j
  <2>1. m.rules \in Seq(Range(m.rules)) /\ UniqueKeys(m.rules)
    BY <1>2 DEF MergeInv, RulesInv
  <2>2. QED
    BY <2>1 DEF UniqueKeys
<1>4. ASSUME NEW source \in Answering(p), NEW rule \in RulesOf(p, source)
      PROVE  LET claim == [source |-> source.name, id |-> Prefixed(source, rule.id)]
             IN  \/ claim \in m.skipped /\ ~Allowed(source, rule)
                 \/ [rule EXCEPT !.id = claim.id] \in Range(m.rules)
                 \/ \E c \in m.conflicts : c.key = PathKey(rule) /\ claim \in Range(c.claims)
  <2>1. PICK q : q = <<source, rule>>
    OBVIOUS
  <2>2. q \in AllPairs(Answering(p), syncs[p].fetched)
    BY <2>1, PairsKnown DEF RulesOf
  <2>3. Settled(m.rules, m.owner, m.conflicts, m.skipped, q)
    BY <1>2, <2>2 DEF MergeInv
  <2>4. /\ Claim(q) = [source |-> source.name, id |-> Prefixed(source, rule.id)]
        /\ Renamed(q) = [rule EXCEPT !.id = Prefixed(source, rule.id)]
        /\ Key(q) = PathKey(rule) /\ (May(q) <=> Allowed(source, rule))
        /\ Claim(q).id = Prefixed(source, rule.id)
    BY <2>1 DEF Claim, Renamed, Key, May
  <2>5. QED
    BY <2>3, <2>4 DEF Settled, Named
<1>5. QED
  BY <1>1, <1>3, <1>4

(* Whatever the sources hold and whatever their priorities, prefixes and   *)
(* allowed paths: no two rules a sync publishes have one path key, and no  *)
(* rule of a source that answered is gone without a word in the report.    *)
THEOREM NothingIsLost == Spec => []NothingLost
BY InvAlways, InvNothingLost, PTL

LEMMA InvWinner == SyncInv => WinnerByPriority
<1> SUFFICES ASSUME SyncInv, NEW p \in Merged, NEW key \in DOMAIN syncs[p].merged.owner,
                    NEW winner \in Answering(p), NEW loser \in Answering(p),
                    syncs[p].merged.owner[key].source = winner.name,
                    NEW rule \in RulesOf(p, loser), PathKey(rule) = key, Allowed(loser, rule)
             PROVE  /\ setup.mode = "priority" => winner.priority >= loser.priority
                    /\ setup.mode = "first" => winner.priority <= loser.priority
  BY DEF WinnerByPriority
<1>1. PICK m : m = syncs[p].merged
  OBVIOUS
<1>2. PICK done : done = AllPairs(Answering(p), syncs[p].fetched)
  OBVIOUS
<1>3. /\ MergeInv(setup.mode, m, done) /\ setup \in Setups
      /\ Answering(p) = Answered(setup.sources, syncs[p].fetched)
  BY <1>1, <1>2, PushedMerge
<1>4. PICK o \in done : Owns(setup.mode, m.owner, done, key, o)
  BY <1>1, <1>3 DEF MergeInv, OwnersInv
<1>5. o[1] \in Answering(p)
  BY <1>2, PairsKnown
<1>6. o[1].name = winner.name
  BY <1>1, <1>4 DEF Owns, Claim
<1>7. o[1] = winner
  <2>1. o[1] \in setup.sources /\ winner \in setup.sources
    BY <1>3, <1>5 DEF Answered
  <2>2. QED
    BY <1>3, <1>6, <2>1, SetupsAssumption
<1>8. PICK q : q = <<loser, rule>>
  OBVIOUS
<1>9. /\ q \in done /\ q[1] = loser /\ Key(q) = key /\ May(q)
  BY <1>2, <1>8, PairsKnown DEF RulesOf, Key, May
<1>10. Outranks(setup.mode, o, q)
  BY <1>4, <1>9 DEF Owns
<1>11. QED
  BY <1>7, <1>9, <1>10 DEF Outranks

(* In mode "priority" a path key goes to a source of the highest priority, *)
(* in mode "first" to one of the lowest, however the sort leaves those of  *)
(* one priority.                                                           *)
THEOREM PriorityDecides == Spec => []WinnerByPriority
BY InvAlways, InvWinner, PTL

-----------------------------------------------------------------------------
(* What the linter foresees                                                *)

IsSeq(s) == s \in Seq(Range(s))

LEMMA PrefixByElements ==
  ASSUME NEW s, IsSeq(s), NEW t, IsSeq(t)
  PROVE  IsPrefix(s, t) <=> Len(s) <= Len(t) /\ \A k \in 1 .. Len(s) : s[k] = t[k]
<1>1. PICK U : s \in Seq(U) /\ t \in Seq(U)
  <2>1. PICK A : s \in Seq(A)
    BY DEF IsSeq
  <2>2. PICK B : t \in Seq(B)
    BY DEF IsSeq
  <2>3. s \in Seq(A \union B) /\ t \in Seq(A \union B)
    BY <2>1, <2>2
  <2>4. QED
    BY <2>3
<1>2. Len(s) \in Nat /\ Len(t) \in Nat
  BY <1>1
<1>3. /\ SubSeq(s, 1, Len(s)) = s
      /\ Len(s) <= Len(t) =>
           /\ SubSeq(t, 1, Len(s)) \in Seq(U) /\ Len(SubSeq(t, 1, Len(s))) = Len(s)
           /\ \A k \in 1 .. Len(s) : SubSeq(t, 1, Len(s))[k] = t[k]
  BY <1>1, <1>2
<1>4. ASSUME Len(s) <= Len(t), \A k \in 1 .. Len(s) : s[k] = t[k]
      PROVE  SubSeq(t, 1, Len(s)) = s
  BY <1>1, <1>2, <1>3, <1>4
<1>5. QED
  BY <1>2, <1>3, <1>4 DEF IsPrefix

LEMMA PrefixesCompare ==
  ASSUME NEW a, IsSeq(a), NEW b, IsSeq(b), NEW path, IsSeq(path), IsPrefix(a, path), IsPrefix(b, path)
  PROVE  IsPrefix(a, b) \/ IsStrictPrefix(b, a)
<1>1. /\ Len(a) \in Nat /\ Len(b) \in Nat /\ Len(path) \in Nat
      /\ \A k \in 1 .. Len(a) : a[k] = path[k]
      /\ \A k \in 1 .. Len(b) : b[k] = path[k]
  <2>1. Len(a) \in Nat /\ Len(b) \in Nat /\ Len(path) \in Nat
    BY DEF IsSeq
  <2>2. QED
    BY <2>1, PrefixByElements
<1>2. CASE Len(a) <= Len(b)
  <2>1. \A k \in 1 .. Len(a) : k \in 1 .. Len(b)
    BY <1>1, <1>2
  <2>2. \A k \in 1 .. Len(a) : a[k] = b[k]
    BY <1>1, <2>1
  <2>3. QED
    BY <1>2, <2>2, PrefixByElements
<1>3. CASE Len(b) < Len(a)
  <2>1. \A k \in 1 .. Len(b) : k \in 1 .. Len(a)
    BY <1>1, <1>3
  <2>2. \A k \in 1 .. Len(b) : b[k] = a[k]
    BY <1>1, <2>1
  <2>3. Len(b) <= Len(a) /\ b # a
    BY <1>1, <1>3
  <2>4. QED
    BY <2>2, <2>3, PrefixByElements DEF IsStrictPrefix
<1>4. QED
  BY <1>1, <1>2, <1>3

LEMMA PrefixOfMore ==
  ASSUME NEW a, IsSeq(a), NEW b, IsSeq(b), IsPrefix(a, b), NEW e
  PROVE  IsPrefix(a, Append(b, e))
<1>1. PICK U : b \in Seq(U)
  BY DEF IsSeq
<1>2. PICK more : more = Append(b, e)
  OBVIOUS
<1>3. /\ more \in Seq(U \union {e}) /\ Len(more) = Len(b) + 1 /\ Len(b) \in Nat
      /\ \A k \in 1 .. Len(b) : more[k] = b[k]
  BY <1>1, <1>2
<1>4. IsSeq(more)
  BY <1>3, SeqOfRange DEF IsSeq
<1>5. Len(a) \in Nat /\ Len(a) <= Len(b) /\ \A k \in 1 .. Len(a) : a[k] = b[k]
  <2>1. Len(a) \in Nat
    BY DEF IsSeq
  <2>2. QED
    BY <2>1, PrefixByElements
<1>6. \A k \in 1 .. Len(a) : k \in 1 .. Len(b)
  BY <1>3, <1>5
<1>7. Len(a) <= Len(more) /\ \A k \in 1 .. Len(a) : a[k] = more[k]
  BY <1>3, <1>5, <1>6
<1>8. QED
  BY <1>2, <1>4, <1>7, PrefixByElements

WellFormed(rule) ==
  /\ rule.type \in {"exact", "prefix", "regex", "glob"}
  /\ IsSeq(rule.path)
  /\ rule.type \in {"exact", "prefix"} => rule.path # <<>>
  /\ rule.type = "glob" => IsSeq(rule.pattern.base)

(* What a rule matches by, if the linter looks for its kind.               *)
LEMMA MatchedBy ==
  ASSUME NEW rule, WellFormed(rule), Plain(rule), NEW path \in Paths, PathMatchesRule(path, rule),
         ~Unforeseen(rule, rule)
  PROVE  /\ rule.type \in {"exact", "prefix", "glob"}
         /\ rule.type = "exact" => rule.path = path /\ PathKey(rule)[2] = path
         /\ rule.type = "prefix" => IsPrefix(rule.path, path) /\ PathKey(rule)[2] = rule.path
         /\ rule.type = "glob" =>
              /\ IsPrefix(rule.pattern.base, path) /\ rule.pattern.shape = "all"
              /\ PathKey(rule)[2] = Append(rule.pattern.base, "**")
<1>1. rule.type \in {"exact", "prefix", "glob"} /\ (rule.type = "glob" => rule.pattern.shape = "all")
  BY DEF WellFormed, Unforeseen
<1>2. CASE rule.type = "exact"
  BY <1>1, <1>2 DEF WellFormed, PathMatchesRule, PathKey
<1>3. CASE rule.type = "prefix"
  BY <1>1, <1>3 DEF WellFormed, PathMatchesRule, PathKey
<1>4. CASE rule.type = "glob"
  <2>1. rule.path = <<>>
    BY <1>4 DEF Plain
  <2>2. PathKey(rule)[2] = Append(rule.pattern.base, "**")
    BY <1>1, <1>4, <2>1 DEF PathKey, PatternText
  <2>3. GlobMatchesPath(rule.pattern, path)
    BY <1>4 DEF PathMatchesRule
  <2>4. IsPrefix(rule.pattern.base, path)
    BY <1>1, <1>4, <2>3, PathsAssumption DEF GlobMatchesPath
  <2>5. QED
    BY <1>1, <1>4, <2>2, <2>4
<1>5. QED
  BY <1>1, <1>2, <1>3, <1>4

LEMMA MatchingRulesCover ==
  ASSUME NEW x, WellFormed(x), Plain(x), NEW y, WellFormed(y), Plain(y),
         NEW path \in Paths, PathMatchesRule(path, x), PathMatchesRule(path, y),
         ~Unforeseen(x, y)
  PROVE  PathKey(x) = PathKey(y) \/ CrossSourceOverlap(x, y)
<1>0. /\ ~Unforeseen(x, x) /\ ~Unforeseen(y, y) /\ IsSeq(path)
  BY PathsAssumption DEF Unforeseen, IsSeq
<1>1. /\ x.type \in {"exact", "prefix", "glob"}
      /\ x.type = "exact" => x.path = path /\ PathKey(x)[2] = path
      /\ x.type = "prefix" => IsPrefix(x.path, path) /\ PathKey(x)[2] = x.path
      /\ x.type = "glob" =>
           /\ IsPrefix(x.pattern.base, path) /\ x.pattern.shape = "all"
           /\ PathKey(x)[2] = Append(x.pattern.base, "**")
  BY <1>0, MatchedBy
<1>2. /\ y.type \in {"exact", "prefix", "glob"}
      /\ y.type = "exact" => y.path = path /\ PathKey(y)[2] = path
      /\ y.type = "prefix" => IsPrefix(y.path, path) /\ PathKey(y)[2] = y.path
      /\ y.type = "glob" =>
           /\ IsPrefix(y.pattern.base, path) /\ y.pattern.shape = "all"
           /\ PathKey(y)[2] = Append(y.pattern.base, "**")
  BY <1>0, MatchedBy
<1>3. /\ IsSeq(x.path) /\ IsSeq(y.path)
      /\ x.type = "glob" => IsSeq(x.pattern.base)
      /\ y.type = "glob" => IsSeq(y.pattern.base)
  BY DEF WellFormed
<1>4. CASE x.type = "exact" /\ y.type = "exact"
  <2>1. x.path # <<>> /\ y.path # <<>> /\ x.host = y.host
    BY <1>4 DEF WellFormed, Unforeseen
  <2>2. QED
    BY <1>1, <1>2, <1>4, <2>1 DEF PathKey
<1>5. CASE x.type = "prefix" /\ y.type = "exact"
  BY <1>1, <1>2, <1>5 DEF CrossSourceOverlap, Covers
<1>6. CASE x.type = "exact" /\ y.type = "prefix"
  BY <1>1, <1>2, <1>6 DEF CrossSourceOverlap, Covers
<1>7. CASE x.type = "prefix" /\ y.type = "prefix"
  <2>1. IsPrefix(x.path, y.path) \/ IsStrictPrefix(y.path, x.path)
    BY <1>0, <1>1, <1>2, <1>3, <1>7, PrefixesCompare
  <2>2. QED
    BY <1>7, <2>1 DEF CrossSourceOverlap, Covers, IsStrictPrefix
<1>8. CASE x.type = "glob" /\ y.type = "exact"
  BY <1>1, <1>2, <1>8 DEF CrossSourceOverlap, Covers
<1>9. CASE x.type = "exact" /\ y.type = "glob"
  BY <1>1, <1>2, <1>9 DEF CrossSourceOverlap, Covers
<1>10. CASE x.type = "glob" /\ y.type = "prefix"
  <2>1. IsPrefix(x.pattern.base, y.path) \/ IsStrictPrefix(y.path, x.pattern.base)
    BY <1>0, <1>1, <1>2, <1>3, <1>10, PrefixesCompare
  <2>2. ~IsStrictPrefix(y.path, x.pattern.base)
    BY <1>10 DEF Unforeseen
  <2>3. QED
    BY <1>1, <1>2, <1>10, <2>1, <2>2 DEF CrossSourceOverlap, Covers
<1>11. CASE x.type = "prefix" /\ y.type = "glob"
  <2>1. IsPrefix(y.pattern.base, x.path) \/ IsStrictPrefix(x.path, y.pattern.base)
    BY <1>0, <1>1, <1>2, <1>3, <1>11, PrefixesCompare
  <2>2. ~IsStrictPrefix(x.path, y.pattern.base)
    BY <1>11 DEF Unforeseen
  <2>3. QED
    BY <1>1, <1>2, <1>11, <2>1, <2>2 DEF CrossSourceOverlap, Covers
<1>12. CASE x.type = "glob" /\ y.type = "glob"
  <2>1. IsPrefix(x.pattern.base, y.pattern.base) \/ IsPrefix(y.pattern.base, x.pattern.base)
    BY <1>0, <1>1, <1>2, <1>3, <1>12, PrefixesCompare DEF IsStrictPrefix
  <2>2. CASE IsPrefix(x.pattern.base, y.pattern.base)
    <3>1. IsPrefix(x.pattern.base, Append(y.pattern.base, "**"))
      BY <1>3, <1>12, <2>2, PrefixOfMore
    <3>2. QED
      BY <1>1, <1>2, <1>12, <3>1 DEF CrossSourceOverlap, Covers
  <2>3. CASE IsPrefix(y.pattern.base, x.pattern.base)
    <3>1. IsPrefix(y.pattern.base, Append(x.pattern.base, "**"))
      BY <1>3, <1>12, <2>3, PrefixOfMore
    <3>2. QED
      BY <1>1, <1>2, <1>12, <3>1 DEF CrossSourceOverlap, Covers
  <2>4. QED
    BY <2>1, <2>2, <2>3
<1>13. QED
  BY <1>1, <1>2, <1>4, <1>5, <1>6, <1>7, <1>8, <1>9, <1>10, <1>11, <1>12

LEMMA NoOverlap ==
  ASSUME NEW sources, IsFiniteSet(sources), NEW configs, Overlaps(sources, configs) = {},
         NEW s \in sources, NEW t \in sources, s # t,
         NEW x \in Range(configs[s.name].rules), NEW y \in Range(configs[t.name].rules)
  PROVE  ~CrossSourceOverlap(x, y)
<1>1. PICK order : order = SetToSeq(sources)
  OBVIOUS
<1>2. PICK i \in 1 .. Len(order) : order[i] = s
  BY <1>1, SetToSeqIsOnto
<1>3. PICK j \in 1 .. Len(order) : order[j] = t
  BY <1>1, SetToSeqIsOnto
<1>4. DOMAIN order = 1 .. Len(order) /\ Len(order) \in Nat
  BY <1>1, SetToSeqIsOnto
<1>5. i < j \/ j < i
  BY <1>2, <1>3, <1>4
<1> DEFINE rules(k) == Range(configs[order[k].name].rules)
<1>6. \A k, l \in 1 .. Len(order) : k < l =>
        \A u \in rules(k), v \in rules(l) : ~CrossSourceOverlap(u, v)
  <2> SUFFICES ASSUME NEW k \in 1 .. Len(order), NEW l \in 1 .. Len(order), k < l,
                      NEW u \in rules(k), NEW v \in rules(l), CrossSourceOverlap(u, v)
               PROVE  FALSE
    OBVIOUS
  <2>1. <<k, l>> \in {p \in (DOMAIN order) \X (DOMAIN order) : p[1] < p[2]}
    BY <1>4
  <2>2. <<u, v>> \in {r \in rules(k) \X rules(l) : CrossSourceOverlap(r[1], r[2])}
    OBVIOUS
  <2>3. <<Prefixed(order[k], u.id), Prefixed(order[l], v.id)>> \in Overlaps(sources, configs)
    BY <1>1, <2>1, <2>2 DEF Overlaps
  <2>4. QED
    BY <2>3
<1>7. CASE i < j
  BY <1>2, <1>3, <1>6, <1>7
<1>8. CASE j < i
  BY <1>2, <1>3, <1>6, <1>8 DEF CrossSourceOverlap
<1>9. QED
  BY <1>5, <1>7, <1>8

LEMMA SharedBySources ==
  ASSUME NEW sources, NEW configs, NEW s \in sources, NEW t \in sources, s # t,
         NEW x \in Range(configs[s.name].rules), NEW y \in Range(configs[t.name].rules),
         PathKey(x) = PathKey(y)
  PROVE  PathKey(y) \in SharedPaths(sources, configs)
<1>1. PathKey(y) \in UNION {{PathKey(rule) : rule \in Range(configs[u.name].rules)} : u \in sources}
  OBVIOUS
<1>2. \A u \in {s, t} : \E rule \in Range(configs[u.name].rules) : PathKey(rule) = PathKey(y)
  OBVIOUS
<1>3. QED
  BY <1>1, <1>2 DEF SharedPaths

LEMMA InvForesees == SyncInv => LintForesees
<1> SUFFICES ASSUME SyncInv, NEW p \in Merged
             PROVE  LET shared == SharedPaths(Answering(p), syncs[p].fetched)
                    IN  /\ \A c \in syncs[p].merged.conflicts :
                             c.claims[1].source # c.claims[2].source => c.key \in shared
                        /\ shared = {} /\ Overlaps(Answering(p), syncs[p].fetched) = {} =>
                             \A s, t \in Answering(p) : s # t =>
                               \A x \in RulesOf(p, s), y \in RulesOf(p, t), path \in Paths :
                                 /\ Plain(x) /\ Plain(y) /\ HostsMeet(x, y)
                                 /\ PathMatchesRule(path, x) /\ PathMatchesRule(path, y)
                                 => Unforeseen(x, y)
  BY DEF LintForesees
<1>1. PICK m : m = syncs[p].merged
  OBVIOUS
<1>2. PICK sources : sources = Answering(p)
  OBVIOUS
<1>3. PICK configs : configs = syncs[p].fetched
  OBVIOUS
<1>4. PICK shared : shared = SharedPaths(sources, configs)
  OBVIOUS
<1>5. /\ setup \in Setups /\ configs \in Configs
      /\ MergeInv(setup.mode, m, AllPairs(sources, configs))
      /\ sources = Answered(setup.sources, configs)
  BY <1>1, <1>2, <1>3, PushedMerge
<1>6. ASSUME NEW c \in m.conflicts, c.claims[1].source # c.claims[2].source
      PROVE  c.key \in shared
  <2>1. PICK o \in AllPairs(sources, configs), q \in AllPairs(sources, configs) : Between(c, o, q)
    BY <1>5 DEF MergeInv, ConflictsInv
  <2>2. /\ c.key = Key(q) /\ c.claims[1].source = o[1].name /\ c.claims[2].source = q[1].name
        /\ Key(o) = Key(q)
    BY <2>1 DEF Between, Claim
  <2>3. /\ o[1] \in sources /\ o[2] \in Range(configs[o[1].name].rules)
        /\ q[1] \in sources /\ q[2] \in Range(configs[q[1].name].rules)
    BY PairsKnown
  <2>4. o[1] # q[1]
    BY <1>6, <2>2
  <2>5. QED
    BY <1>4, <2>2, <2>3, <2>4, SharedBySources DEF Key
<1>7. ASSUME shared = {}, Overlaps(sources, configs) = {},
             NEW s \in sources, NEW t \in sources, s # t,
             NEW x \in Range(configs[s.name].rules), NEW y \in Range(configs[t.name].rules),
             NEW path \in Paths, Plain(x), Plain(y), HostsMeet(x, y),
             PathMatchesRule(path, x), PathMatchesRule(path, y)
      PROVE  Unforeseen(x, y)
  <2>1. IsFiniteSet(sources)
    <3>1. IsFiniteSet(setup.sources) /\ sources \in SUBSET setup.sources
      BY <1>5, SetupsAssumption DEF Answered
    <3>2. QED
      BY <3>1, FS_Subset
  <2>2. ~CrossSourceOverlap(x, y)
    BY <1>7, <2>1, NoOverlap
  <2>3. PathKey(x) # PathKey(y)
    BY <1>4, <1>7, SharedBySources
  <2>4. configs[s.name] \in Contents /\ configs[t.name] \in Contents
    BY <1>5, PairsFit
  <2>5. WellFormed(x) /\ WellFormed(y)
    BY <2>4, ContentsAssumption DEF WellFormed, IsSeq
  <2>6. QED
    BY <1>7, <2>2, <2>3, <2>5, MatchingRulesCover
<1>8. QED
  BY <1>1, <1>2, <1>3, <1>4, <1>6, <1>7 DEF RulesOf

(* For any sources and rules: a conflict between two sources that a merge  *)
(* reports has been foretold by the linter, and where the linter is silent *)
(* no request can fit rules of two sources, but for the pairs of kinds that*)
(* Unforeseen names: regular expressions, globs other than a trailing /**, *)
(* a prefix above a glob, an exact rule for all hosts beside one for a host*)
(* (lint.go:914-1076).                                                     *)
THEOREM ConflictsAreForeseen == Spec => []LintForesees
BY InvAlways, InvForesees, PTL
=============================================================================
