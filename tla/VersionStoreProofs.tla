------------------------- MODULE VersionStoreProofs -------------------------
(***************************************************************************)
(* Theorems about VersionStore for every MaxVersions and Config.           *)
(*                                                                         *)
(* The inductive invariant is TypeOK /\ Consecutive: types alone do not    *)
(* exclude an unwritten slot at "current" when Rollback diffs against it,  *)
(* and Consecutive alone does not bound the indices Push computes.         *)
(***************************************************************************)
EXTENDS VersionStore, SequenceTheorems, TLAPS

-----------------------------------------------------------------------------
(* The ring, for every capacity                                            *)

(* A number below twice the modulus is reduced by at most one subtraction; *)
(* this is all the wrap-around of the ring relies on.                      *)
LEMMA ModTwice ==
  ASSUME NEW cap \in Nat \ {0}, NEW n \in 0 .. 2 * cap - 1
  PROVE  n % cap = IF n < cap THEN n ELSE n - cap
<1>1. CASE n < cap
  BY <1>1
<1>2. CASE ~(n < cap)
  <2>1. n = (n - cap) + cap * 1 /\ n - cap \in 0 .. cap - 1
    BY <1>2
  <2>2. QED
    BY <1>2, <2>1
<1>3. QED
  BY <1>1, <1>2

(* The i-th newest slot is current - i, wrapped once.                      *)
LEMMA SlotOfWraps ==
  ASSUME NEW cap \in Nat \ {0}, NEW r, r.current \in 0 .. cap - 1, NEW i \in 0 .. cap - 1
  PROVE  /\ SlotOf(cap, r, i) = IF i <= r.current THEN r.current - i ELSE r.current - i + cap
         /\ SlotOf(cap, r, i) \in 0 .. cap - 1
<1>1. r.current - i + cap \in 0 .. 2 * cap - 1
  OBVIOUS
<1>2. (r.current - i + cap) % cap
        = IF r.current - i + cap < cap THEN r.current - i + cap ELSE (r.current - i + cap) - cap
  BY <1>1, ModTwice, Zenon
<1>3. QED
  BY <1>2 DEF SlotOf

(* Push keeps a ring a ring.                                               *)
LEMMA PushType ==
  ASSUME NEW cap \in Nat \ {0}, NEW none, NEW E,
         NEW r \in RingOf(cap, none, E), NEW e \in E
  PROVE  Push(cap, r, e) \in RingOf(cap, none, E)
<1>1. r.current + 1 \in 0 .. 2 * cap - 1
  BY DEF RingOf
<1>2. (r.current + 1) % cap = IF r.current + 1 < cap THEN r.current + 1 ELSE (r.current + 1) - cap
  BY <1>1, ModTwice, Zenon
<1>3. (r.current + 1) % cap \in 0 .. cap - 1
  BY <1>2 DEF RingOf
<1>4. QED
  BY <1>3 DEF Push, RingOf

(* Push makes its element the newest and shifts every other retained       *)
(* element by one position; only what was the oldest of a full ring goes.  *)
LEMMA PushShifts ==
  ASSUME NEW cap \in Nat \ {0}, NEW none, NEW E,
         NEW r \in RingOf(cap, none, E), NEW e
  PROVE  /\ Nth(cap, Push(cap, r, e), 0) = e
         /\ \A i \in 1 .. cap - 1 : Nth(cap, Push(cap, r, e), i) = Nth(cap, r, i - 1)
<1> DEFINE at == (r.current + 1) % cap
           p  == Push(cap, r, e)
<1>1. r.current \in 0 .. cap - 1 /\ r.slots \in [0 .. cap - 1 -> E \union {none}]
  BY DEF RingOf
<1>2. at = IF r.current + 1 < cap THEN r.current + 1 ELSE 0
  <2>1. r.current + 1 \in 0 .. 2 * cap - 1
    BY <1>1
  <2>2. at = IF r.current + 1 < cap THEN r.current + 1 ELSE (r.current + 1) - cap
    BY <2>1, ModTwice, Zenon
  <2>3. QED
    BY <1>1, <2>2
<1>3. at \in 0 .. cap - 1
  BY <1>1, <1>2
<1>4. p.current = at /\ p.slots = [r.slots EXCEPT ![at] = e]
  BY DEF Push
<1>5. Nth(cap, p, 0) = e
  BY <1>1, <1>3, <1>4, SlotOfWraps DEF Nth
<1>6. ASSUME NEW i \in 1 .. cap - 1
      PROVE  Nth(cap, p, i) = Nth(cap, r, i - 1)
  <2>1. SlotOf(cap, p, i) = IF i <= at THEN at - i ELSE at - i + cap
    BY <1>3, <1>4, SlotOfWraps
  <2>2. SlotOf(cap, r, i - 1)
          = IF i - 1 <= r.current THEN r.current - (i - 1) ELSE r.current - (i - 1) + cap
    BY <1>1, SlotOfWraps
  <2>3. SlotOf(cap, p, i) = SlotOf(cap, r, i - 1) /\ SlotOf(cap, p, i) # at
    BY <1>1, <1>2, <2>1, <2>2
  <2>4. SlotOf(cap, p, i) \in 0 .. cap - 1
    BY <1>3, <1>4, SlotOfWraps
  <2>5. QED
    BY <1>1, <1>4, <2>3, <2>4 DEF Nth
<1>7. QED
  BY <1>5, <1>6

-----------------------------------------------------------------------------
(* The store                                                               *)

IInv == TypeOK /\ Consecutive

(* Get is the arithmetic of the window: version v sits n - 1 - v positions *)
(* behind the newest when it is retained, and is absent otherwise.         *)
LEMMA FindIsArithmetic ==
  ASSUME NEW r, NEW n \in Nat \ {0}, r.count \in 0 .. MaxVersions, HoldsLast(r, n),
         NEW v \in Int
  PROVE  Find(r, v) = IF n - r.count <= v /\ v < n
                        THEN Nth(MaxVersions, r, n - 1 - v)
                        ELSE NoVersion
<1> USE MaxVersionsAssumption
<1>1. CASE n - r.count <= v /\ v < n
  <2>1. n - 1 - v \in 0 .. r.count - 1
    BY <1>1
  <2>2. Positions(r, v) = {n - 1 - v}
    BY <2>1 DEF Positions, HoldsLast
  <2>3. (CHOOSE i \in Positions(r, v) : \A j \in Positions(r, v) : i <= j) = n - 1 - v
    BY <2>1, <2>2
  <2>4. QED
    BY <1>1, <2>2, <2>3 DEF Find
<1>2. CASE ~(n - r.count <= v /\ v < n)
  <2>1. Positions(r, v) = {}
    BY <1>2 DEF Positions, HoldsLast
  <2>2. QED
    BY <1>2, <2>1 DEF Find
<1>3. QED
  BY <1>1, <1>2

(* Storing a well-formed entry that carries the next number keeps the ring *)
(* in step with the counter.                                               *)
LEMMA PushHoldsLast ==
  ASSUME NEW r \in RingOf(MaxVersions, NoVersion, Entry), NEW n \in Nat \ {0},
         HoldsLast(r, n), NEW e \in Entry, e.version = n
  PROVE  HoldsLast(Push(MaxVersions, r, e), n + 1)
<1> DEFINE p == Push(MaxVersions, r, e)
<1> USE MaxVersionsAssumption
<1>1. r.count \in 0 .. MaxVersions
  BY DEF RingOf
<1>2. p.count = IF r.count < MaxVersions THEN r.count + 1 ELSE r.count
  BY DEF Push
<1>3. p.count = IF n + 1 <= MaxVersions THEN n ELSE MaxVersions
  BY <1>1, <1>2 DEF HoldsLast
<1>4. /\ Nth(MaxVersions, p, 0) = e
      /\ \A i \in 1 .. MaxVersions - 1 : Nth(MaxVersions, p, i) = Nth(MaxVersions, r, i - 1)
  BY PushShifts
<1>5. e # NoVersion
  BY NoVersionAssumption
<1>6. ASSUME NEW i \in 0 .. p.count - 1
      PROVE  /\ Nth(MaxVersions, p, i) # NoVersion
             /\ Nth(MaxVersions, p, i).version = (n + 1) - 1 - i
  <2>1. CASE i = 0
    BY <2>1, <1>4, <1>5
  <2>2. CASE i # 0
    <3>1. i \in 1 .. MaxVersions - 1 /\ i - 1 \in 0 .. r.count - 1
      BY <2>2, <1>1, <1>2
    <3>2. Nth(MaxVersions, p, i) = Nth(MaxVersions, r, i - 1)
      BY <3>1, <1>4
    <3>3. /\ Nth(MaxVersions, r, i - 1) # NoVersion
          /\ Nth(MaxVersions, r, i - 1).version = n - 1 - (i - 1)
      BY <3>1 DEF HoldsLast
    <3>4. QED
      BY <3>1, <3>2, <3>3
  <2>3. QED
    BY <2>1, <2>2
<1>7. p.count = IF n + 1 <= MaxVersions THEN (n + 1) - 1 ELSE MaxVersions
  BY <1>3
<1> HIDE DEF p
<1>8. HoldsLast(p, n + 1)
  BY <1>6, <1>7 DEF HoldsLast
<1>9. QED
  BY <1>8 DEF p

(* What is current, if anything, is a well-formed entry.                   *)
LEMMA CurrentIsEntry ==
  ASSUME TypeOK, Current # NoVersion
  PROVE  Current \in Entry
  BY DEF TypeOK, Current, Newest, RingOf

(* Add builds a well-formed entry under the next number.                   *)
LEMMA AddStoresEntry ==
  ASSUME TypeOK, NEW c \in Config
  PROVE  NewEntry(c) \in Entry /\ NewEntry(c).version = nextVersion /\ NewEntry(c).config = c
<1>1. nextVersion \in Nat /\ CalculateHash(c) \in {CalculateHash(d) : d \in Config}
  BY DEF TypeOK
<1>2. CASE Current = NoVersion
  BY <1>1, <1>2 DEF NewEntry, Entry
<1>3. CASE Current # NoVersion
  <2>1. Current.config \in Config
    BY <1>3, CurrentIsEntry DEF Entry
  <2>2. CalculateChanges(Current.config, c)
          \in {CalculateChanges(d, d2) : d, d2 \in Config} \union {NoChanges}
    BY <2>1
  <2>3. QED
    BY <1>1, <1>3, <2>2 DEF NewEntry, Entry
<1>4. QED
  BY <1>2, <1>3

(* A version that Get finds is an entry of the ring, at a position the     *)
(* window gives.                                                           *)
LEMMA GetFindsEntry ==
  ASSUME IInv, NEW v \in Int, Get(v) # NoVersion
  PROVE  /\ nextVersion - 1 - v \in 0 .. ring.count - 1
         /\ Get(v) = Nth(MaxVersions, ring, nextVersion - 1 - v)
         /\ Get(v) \in Entry
<1> USE MaxVersionsAssumption
<1>1. /\ ring \in RingOf(MaxVersions, NoVersion, Entry) /\ HoldsLast(ring, nextVersion)
      /\ nextVersion \in Nat \ {0} /\ ring.count \in 0 .. MaxVersions
  BY DEF IInv, TypeOK, Consecutive, RingOf
<1>2. Get(v) = IF nextVersion - ring.count <= v /\ v < nextVersion
                 THEN Nth(MaxVersions, ring, nextVersion - 1 - v)
                 ELSE NoVersion
  BY <1>1, FindIsArithmetic DEF Get
<1>3. nextVersion - 1 - v \in 0 .. ring.count - 1
  BY <1>1, <1>2
<1>4. SlotOf(MaxVersions, ring, nextVersion - 1 - v) \in 0 .. MaxVersions - 1
  BY <1>1, <1>3, SlotOfWraps DEF RingOf
<1>5. QED
  BY <1>1, <1>2, <1>3, <1>4 DEF Nth, RingOf

(* Rollback does too, with the configuration of the version found; the     *)
(* current version it diffs against is never the nil pointer.              *)
LEMMA RollbackStoresEntry ==
  ASSUME IInv, NEW v \in Int, Get(v) # NoVersion
  PROVE  /\ RolledBack(v) \in Entry
         /\ RolledBack(v).version = nextVersion
         /\ RolledBack(v).config = Get(v).config
<1> USE MaxVersionsAssumption
<1>1. TypeOK /\ ring \in RingOf(MaxVersions, NoVersion, Entry) /\ HoldsLast(ring, nextVersion)
      /\ nextVersion \in Nat
  BY DEF IInv, TypeOK, Consecutive
<1>2. Current \in Entry
  <2>1. ring.count > 0 /\ 0 \in 0 .. ring.count - 1
    BY <1>1, GetFindsEntry DEF RingOf
  <2>2. Nth(MaxVersions, ring, 0) # NoVersion
    BY <1>1, <2>1 DEF HoldsLast
  <2>3. SlotOf(MaxVersions, ring, 0) = ring.current
    BY <1>1, SlotOfWraps DEF RingOf
  <2>4. QED
    BY <1>1, <2>1, <2>2, <2>3, CurrentIsEntry DEF Nth, Current, Newest
<1>3. Get(v).config \in Config /\ Current.config \in Config
      /\ Get(v).rollbacks \in Nat /\ Get(v).hash \in {CalculateHash(c) : c \in Config}
  BY <1>2, GetFindsEntry DEF Entry
<1>4. CalculateChanges(Current.config, Get(v).config)
        \in {CalculateChanges(d, d2) : d, d2 \in Config} \union {NoChanges}
  BY <1>3
<1>5. QED
  BY <1>1, <1>3, <1>4 DEF RolledBack, Entry

(* So every step stores such an entry.                                     *)
LEMMA WritersStoreEntries ==
  ASSUME IInv, Next
  PROVE  \E e \in Entry : e.version = nextVersion /\ StoreAsCurrent(e)
<1>1. TypeOK /\ nextVersion \in Nat
  BY DEF IInv, TypeOK
<1>2. ASSUME NEW c \in Config, Add(c)
      PROVE  \E e \in Entry : e.version = nextVersion /\ StoreAsCurrent(e)
  BY <1>1, <1>2, AddStoresEntry DEF Add
<1>3. ASSUME NEW v \in 1 .. nextVersion - 1, Rollback(v)
      PROVE  \E e \in Entry : e.version = nextVersion /\ StoreAsCurrent(e)
  BY <1>3, RollbackStoresEntry DEF Rollback
<1>4. QED
  BY <1>2, <1>3 DEF Next

(* The inductive invariant holds of the empty store ...                    *)
LEMMA InitIInv == Init => IInv
<1> USE MaxVersionsAssumption
<1>1. ASSUME Init
      PROVE  TypeOK
  BY <1>1 DEF Init, TypeOK, EmptyRing, RingOf
<1>2. ASSUME Init
      PROVE  Consecutive
  BY <1>2 DEF Init, EmptyRing, Consecutive, HoldsLast
<1>3. QED
  BY <1>1, <1>2 DEF IInv

(* ... and every Add and Rollback keeps it.                                *)
LEMMA StepIInv == IInv /\ [Next]_vars => IInv'
<1> SUFFICES ASSUME IInv, [Next]_vars
             PROVE  IInv'
  OBVIOUS
<1> USE MaxVersionsAssumption
<1>1. ring \in RingOf(MaxVersions, NoVersion, Entry) /\ nextVersion \in Nat \ {0}
  BY DEF IInv, TypeOK
<1>2. CASE Next
  <2>1. PICK e \in Entry : e.version = nextVersion /\ StoreAsCurrent(e)
    BY <1>2, WritersStoreEntries
  <2>2. Push(MaxVersions, ring, e) \in RingOf(MaxVersions, NoVersion, Entry)
    BY <1>1, PushType
  <2>3. TypeOK'
    BY <1>1, <2>1, <2>2 DEF StoreAsCurrent, TypeOK
  <2>4. HoldsLast(Push(MaxVersions, ring, e), nextVersion + 1)
    BY <1>1, <2>1, PushHoldsLast DEF IInv, Consecutive
  <2>5. Consecutive'
    BY <2>1, <2>4 DEF StoreAsCurrent, Consecutive
  <2>6. QED
    BY <2>3, <2>5 DEF IInv
<1>3. CASE UNCHANGED vars
  BY <1>3 DEF vars, IInv, TypeOK, Consecutive
<1>4. QED
  BY <1>2, <1>3

(* The store's fields stay in their types (version.go lines 37-44).        *)
THEOREM TypeCorrect == Spec => []TypeOK
<1>1. IInv => TypeOK
  BY DEF IInv
<1>2. QED
  BY <1>1, InitIInv, StepIInv, PTL DEF Spec

(* For every ring length, the retained versions are the last ones handed   *)
(* out, without gap or repetition, newest first from "current" (Add and    *)
(* Rollback, version.go lines 55-92 and 151-188).                          *)
THEOREM RetainsTheLast == Spec => []Consecutive
<1>1. IInv => Consecutive
  BY DEF IInv
<1>2. QED
  BY <1>1, InitIInv, StepIInv, PTL DEF Spec

-----------------------------------------------------------------------------
(* What a retained version number yields never changes: a step either      *)
(* keeps its entry or evicts it (Get, version.go lines 108-119).           *)
THEOREM Immutable == Spec => HistoryIsImmutable
<1> USE MaxVersionsAssumption
<1>1. ASSUME IInv, [Next]_vars, IInv'
      PROVE  [\A v \in 1 .. nextVersion - 1 : Get(v)' \in {Get(v), NoVersion}]_vars
  <2> SUFFICES ASSUME Next, NEW v \in 1 .. nextVersion - 1
               PROVE  Get(v)' \in {Get(v), NoVersion}
    BY <1>1
  <2>1. PICK e \in Entry : e.version = nextVersion /\ StoreAsCurrent(e)
    BY <1>1, WritersStoreEntries
  <2>2. /\ ring \in RingOf(MaxVersions, NoVersion, Entry) /\ HoldsLast(ring, nextVersion)
        /\ ring' = Push(MaxVersions, ring, e) /\ nextVersion' = nextVersion + 1
        /\ nextVersion \in Nat \ {0}
        /\ ring.count \in 0 .. MaxVersions
    BY <1>1, <2>1 DEF IInv, TypeOK, Consecutive, StoreAsCurrent, RingOf
  <2>3. HoldsLast(ring', nextVersion + 1) /\ ring'.count \in 0 .. MaxVersions
    BY <1>1, <2>2 DEF IInv, TypeOK, Consecutive, RingOf
  <2>4. Find(ring, v) = IF nextVersion - ring.count <= v /\ v < nextVersion
                          THEN Nth(MaxVersions, ring, nextVersion - 1 - v)
                          ELSE NoVersion
    BY <2>2, FindIsArithmetic
  <2>5. Find(ring', v) = IF (nextVersion + 1) - ring'.count <= v /\ v < nextVersion + 1
                           THEN Nth(MaxVersions, ring', (nextVersion + 1) - 1 - v)
                           ELSE NoVersion
    BY <2>2, <2>3, FindIsArithmetic
  <2>6. CASE (nextVersion + 1) - ring'.count <= v
    <3>1. nextVersion - v \in 1 .. MaxVersions - 1
      BY <2>2, <2>3, <2>6
    <3>2. Nth(MaxVersions, ring', nextVersion - v) = Nth(MaxVersions, ring, (nextVersion - v) - 1)
      BY <2>2, <3>1, PushShifts
    <3>3. ring'.count = IF ring.count < MaxVersions THEN ring.count + 1 ELSE ring.count
      BY <2>2 DEF Push
    <3>4. nextVersion - ring.count <= v
      BY <2>2, <2>6, <3>3
    <3>5. Find(ring', v) = Nth(MaxVersions, ring', nextVersion - v)
      <4>1. v < nextVersion + 1 /\ (nextVersion + 1) - 1 - v = nextVersion - v
        BY <2>2
      <4>2. QED
        BY <2>5, <2>6, <4>1
    <3>6. Find(ring, v) = Nth(MaxVersions, ring, (nextVersion - v) - 1)
      <4>1. v < nextVersion /\ nextVersion - 1 - v = (nextVersion - v) - 1
        BY <2>2
      <4>2. QED
        BY <2>4, <3>4, <4>1
    <3>7. QED
      BY <3>2, <3>5, <3>6 DEF Get
  <2>7. CASE ~((nextVersion + 1) - ring'.count <= v)
    BY <2>5, <2>7 DEF Get
  <2>8. QED
    BY <2>6, <2>7
<1>2. QED
  BY <1>1, InitIInv, StepIInv, PTL DEF Spec, HistoryIsImmutable

-----------------------------------------------------------------------------
(* Get, Previous, Current and List agree on which versions there are (lines*)
(* 95-147): each of them is an access to the window FindIsArithmetic       *)
(* describes.                                                              *)
THEOREM LookupsAreConsistent == Spec => []LookupsAgree
<1> USE MaxVersionsAssumption
<1>1. ASSUME IInv
      PROVE  LookupsAgree
  <2>1. /\ ring \in RingOf(MaxVersions, NoVersion, Entry) /\ HoldsLast(ring, nextVersion)
        /\ nextVersion \in Nat \ {0}
        /\ ring.count \in 0 .. MaxVersions /\ ring.current \in 0 .. MaxVersions - 1
    BY <1>1 DEF IInv, TypeOK, Consecutive, RingOf
  <2>2. ASSUME NEW v \in Int
        PROVE  Get(v) = IF nextVersion - ring.count <= v /\ v < nextVersion
                          THEN Nth(MaxVersions, ring, nextVersion - 1 - v)
                          ELSE NoVersion
    BY <2>1, FindIsArithmetic DEF Get
  <2>3. ASSUME NEW v \in 1 .. nextVersion
        PROVE  IF nextVersion - ring.count <= v /\ v < nextVersion
                 THEN Get(v) # NoVersion /\ Get(v).version = v
                 ELSE Get(v) = NoVersion
    <3>1. CASE nextVersion - ring.count <= v /\ v < nextVersion
      <4>1. nextVersion - 1 - v \in 0 .. ring.count - 1
            /\ nextVersion - 1 - (nextVersion - 1 - v) = v
        BY <2>1, <3>1
      <4>2. Get(v) = Nth(MaxVersions, ring, nextVersion - 1 - v)
        BY <2>2, <3>1
      <4>3. QED
        BY <2>1, <3>1, <4>1, <4>2 DEF HoldsLast
    <3>2. CASE ~(nextVersion - ring.count <= v /\ v < nextVersion)
      BY <2>2, <3>2
    <3>3. QED
      BY <3>1, <3>2
  <2>4. Current = Get(nextVersion - 1)
    <3>1. SlotOf(MaxVersions, ring, 0) = ring.current
      BY <2>1, SlotOfWraps
    <3>2. nextVersion - 1 \in Int /\ nextVersion - 1 - (nextVersion - 1) = 0
          /\ (nextVersion - ring.count <= nextVersion - 1 <=> ring.count # 0)
          /\ nextVersion - 1 < nextVersion
      BY <2>1
    <3>3. Get(nextVersion - 1)
            = IF ring.count # 0 THEN Nth(MaxVersions, ring, 0) ELSE NoVersion
      BY <2>2, <3>2
    <3>4. QED
      BY <3>1, <3>3 DEF Current, Newest, Nth
  <2>5. Previous = Get(nextVersion - 2)
    <3>1. nextVersion - 2 \in Int /\ nextVersion - 1 - (nextVersion - 2) = 1
          /\ (nextVersion - ring.count <= nextVersion - 2 <=> ~(ring.count < 2))
          /\ nextVersion - 2 < nextVersion
      BY <2>1
    <3>2. Get(nextVersion - 2)
            = IF ring.count < 2 THEN NoVersion ELSE Nth(MaxVersions, ring, 1)
      BY <2>2, <3>1
    <3>3. QED
      BY <3>2 DEF Previous, Nth, SlotOf
  <2>6. ASSUME NEW i \in DOMAIN List
        PROVE  List[i] = Get(nextVersion - i)
    <3>1. i \in 1 .. ring.count /\ List[i] = Nth(MaxVersions, ring, i - 1)
      BY DEF List, NewestFirst
    <3>2. nextVersion - i \in Int /\ nextVersion - 1 - (nextVersion - i) = i - 1
          /\ nextVersion - ring.count <= nextVersion - i /\ nextVersion - i < nextVersion
      BY <2>1, <3>1
    <3>3. QED
      BY <2>2, <3>1, <3>2
  <2>7. QED
    BY <2>3, <2>4, <2>5, <2>6 DEF LookupsAgree
<1>2. QED
  BY <1>1, InitIInv, StepIInv, PTL DEF Spec

-----------------------------------------------------------------------------
(* The diffs of the retained versions lead from each to the next.          *)
DiffsFit(r) ==
  \A i \in 0 .. r.count - 2 :
    Nth(MaxVersions, r, i).changes
      = CalculateChanges(Nth(MaxVersions, r, i + 1).config, Nth(MaxVersions, r, i).config)

(* What Add and Rollback store is diffed against the version it follows.   *)
LEMMA WritersDiffFromCurrent ==
  ASSUME IInv, Next
  PROVE  \E e \in Entry :
           /\ e.version = nextVersion /\ StoreAsCurrent(e)
           /\ ring.count # 0 =>
                e.changes = CalculateChanges(Nth(MaxVersions, ring, 0).config, e.config)
<1> USE MaxVersionsAssumption
<1>1. TypeOK /\ nextVersion \in Nat /\ HoldsLast(ring, nextVersion)
      /\ ring.count \in 0 .. MaxVersions /\ ring.current \in 0 .. MaxVersions - 1
  BY DEF IInv, TypeOK, Consecutive, RingOf
<1>2. ring.count # 0 => Current = Nth(MaxVersions, ring, 0) /\ Current # NoVersion
  <2>1. SlotOf(MaxVersions, ring, 0) = ring.current
    BY <1>1, SlotOfWraps
  <2>2. ring.count # 0 => Nth(MaxVersions, ring, 0) # NoVersion
    BY <1>1 DEF HoldsLast
  <2>3. QED
    BY <2>1, <2>2 DEF Current, Newest, Nth
<1>3. ASSUME NEW c \in Config, Add(c)
      PROVE  /\ NewEntry(c) \in Entry /\ NewEntry(c).version = nextVersion
             /\ StoreAsCurrent(NewEntry(c))
             /\ ring.count # 0 =>
                  NewEntry(c).changes
                    = CalculateChanges(Nth(MaxVersions, ring, 0).config, NewEntry(c).config)
  <2>1. NewEntry(c) \in Entry /\ NewEntry(c).version = nextVersion /\ NewEntry(c).config = c
    BY <1>1, AddStoresEntry
  <2>2. Current # NoVersion => NewEntry(c).changes = CalculateChanges(Current.config, c)
    BY DEF NewEntry
  <2>3. QED
    BY <1>2, <1>3, <2>1, <2>2 DEF Add
<1>4. ASSUME NEW v \in 1 .. nextVersion - 1, Rollback(v)
      PROVE  /\ RolledBack(v) \in Entry /\ RolledBack(v).version = nextVersion
             /\ StoreAsCurrent(RolledBack(v))
             /\ ring.count # 0 =>
                  RolledBack(v).changes
                    = CalculateChanges(Nth(MaxVersions, ring, 0).config, RolledBack(v).config)
  <2>1. Get(v) # NoVersion /\ StoreAsCurrent(RolledBack(v))
    BY <1>4 DEF Rollback
  <2>2. RolledBack(v) \in Entry /\ RolledBack(v).version = nextVersion
        /\ RolledBack(v).config = Get(v).config
    BY <2>1, RollbackStoresEntry
  <2>3. RolledBack(v).changes = CalculateChanges(Current.config, Get(v).config)
    BY DEF RolledBack
  <2>4. QED
    BY <1>2, <2>1, <2>2, <2>3
<1>5. QED
  BY <1>3, <1>4 DEF Next

(* Pushing such an entry onto a ring whose diffs fit leaves them fitting:  *)
(* every pair of neighbours but the first was one before.                  *)
LEMMA PushKeepsDiffs ==
  ASSUME NEW r \in RingOf(MaxVersions, NoVersion, Entry), NEW e \in Entry, DiffsFit(r),
         r.count # 0 => e.changes = CalculateChanges(Nth(MaxVersions, r, 0).config, e.config)
  PROVE  DiffsFit(Push(MaxVersions, r, e))
<1> DEFINE p == Push(MaxVersions, r, e)
<1> USE MaxVersionsAssumption
<1>1. r.count \in 0 .. MaxVersions
  BY DEF RingOf
<1>2. p.count = IF r.count < MaxVersions THEN r.count + 1 ELSE r.count
  BY DEF Push
<1>3. /\ Nth(MaxVersions, p, 0) = e
      /\ \A i \in 1 .. MaxVersions - 1 : Nth(MaxVersions, p, i) = Nth(MaxVersions, r, i - 1)
  BY PushShifts
<1> HIDE DEF p
<1>4. ASSUME NEW i \in 0 .. p.count - 2
      PROVE  Nth(MaxVersions, p, i).changes
               = CalculateChanges(Nth(MaxVersions, p, i + 1).config, Nth(MaxVersions, p, i).config)
  <2>1. i + 1 \in 1 .. MaxVersions - 1 /\ (i + 1) - 1 = i
    BY <1>1, <1>2
  <2>2. Nth(MaxVersions, p, i + 1) = Nth(MaxVersions, r, i)
    BY <1>3, <2>1
  <2>3. CASE i = 0
    <3>1. r.count # 0
      BY <1>1, <1>2, <2>3
    <3>2. QED
      BY <1>3, <2>2, <2>3, <3>1
  <2>4. CASE i # 0
    <3>1. i \in 1 .. MaxVersions - 1 /\ i - 1 \in 0 .. r.count - 2 /\ (i - 1) + 1 = i
      BY <1>1, <1>2, <2>4
    <3>2. Nth(MaxVersions, p, i) = Nth(MaxVersions, r, i - 1)
      BY <1>3, <3>1
    <3>3. Nth(MaxVersions, r, i - 1).changes
            = CalculateChanges(Nth(MaxVersions, r, i).config, Nth(MaxVersions, r, i - 1).config)
      BY <3>1 DEF DiffsFit
    <3>4. QED
      BY <2>2, <3>2, <3>3
  <2>5. QED
    BY <2>3, <2>4
<1>5. DiffsFit(p)
  BY <1>4 DEF DiffsFit
<1>6. QED
  BY <1>5 DEF p

(* For every sequence of loads and rollbacks, the diff kept with a version *)
(* turns its predecessor into it (lines 60-63, 166 and 188-254).           *)
THEOREM ChangesExplain == Spec => []ChangesChain
<1> USE MaxVersionsAssumption
<1>1. Init => DiffsFit(ring)
  BY DEF Init, EmptyRing, DiffsFit
<1>2. ASSUME IInv, DiffsFit(ring), [Next]_vars
      PROVE  DiffsFit(ring)'
  <2>1. CASE Next
    <3>1. PICK e \in Entry :
            /\ e.version = nextVersion /\ StoreAsCurrent(e)
            /\ ring.count # 0 =>
                 e.changes = CalculateChanges(Nth(MaxVersions, ring, 0).config, e.config)
      BY <1>2, <2>1, WritersDiffFromCurrent
    <3>2. ring \in RingOf(MaxVersions, NoVersion, Entry)
      BY <1>2 DEF IInv, TypeOK
    <3>3. DiffsFit(Push(MaxVersions, ring, e))
      BY <1>2, <3>1, <3>2, PushKeepsDiffs
    <3>4. QED
      BY <3>1, <3>3 DEF StoreAsCurrent
  <2>2. CASE UNCHANGED vars
    BY <1>2, <2>2 DEF vars
  <2>3. QED
    BY <1>2, <2>1, <2>2
<1>3. ASSUME IInv, DiffsFit(ring)
      PROVE  ChangesChain
  <2> SUFFICES ASSUME NEW v \in nextVersion - ring.count + 1 .. nextVersion - 1
               PROVE  LET old == Get(v - 1).config
                          new == Get(v).config
                          ch  == Get(v).changes
                      IN  /\ ch # NoChanges
                          /\ RuleIDs(new) = (RuleIDs(old) \ ch.rulesRemoved) \union ch.rulesAdded
                          /\ ch.rulesAdded \intersect RuleIDs(old) = {}
                          /\ \A id \in RuleIDs(old) \intersect RuleIDs(new) :
                               (old.rules[id].compared = new.rules[id].compared)
                                 <=> id \notin ch.rulesModified
                          /\ (old.server = new.server) <=> ~ch.serverChanged
    BY DEF ChangesChain
  <2> DEFINE old == Get(v - 1).config
             new == Get(v).config
             ch  == Get(v).changes
             i   == nextVersion - 1 - v
  <2>1. /\ ring \in RingOf(MaxVersions, NoVersion, Entry) /\ HoldsLast(ring, nextVersion)
        /\ nextVersion \in Nat \ {0} /\ ring.count \in 0 .. MaxVersions
    BY <1>3 DEF IInv, TypeOK, Consecutive, RingOf
  <2>2. /\ v \in Int /\ v - 1 \in Int
        /\ nextVersion - ring.count <= v /\ v < nextVersion
        /\ nextVersion - ring.count <= v - 1 /\ v - 1 < nextVersion
        /\ i \in 0 .. ring.count - 2 /\ nextVersion - 1 - (v - 1) = i + 1
        /\ i \in 0 .. ring.count - 1 /\ i + 1 \in 0 .. ring.count - 1
    BY <2>1
  <2>3. Get(v) = Nth(MaxVersions, ring, i) /\ Get(v - 1) = Nth(MaxVersions, ring, i + 1)
    BY <2>1, <2>2, FindIsArithmetic DEF Get
  <2>4. Get(v) # NoVersion /\ Get(v - 1) # NoVersion
    BY <2>1, <2>2, <2>3 DEF HoldsLast
  <2>5. old \in Config /\ new \in Config
    BY <1>3, <2>2, <2>4, GetFindsEntry DEF Entry
  <2>6. ch = CalculateChanges(old, new)
    BY <1>3, <2>2, <2>3 DEF DiffsFit
  <2> HIDE DEF old, new, ch, i
  <2>7. ch # NoChanges
    BY <2>5, <2>6, NoChangesAssumption
  <2>8. /\ ch.rulesAdded = RuleIDs(new) \ RuleIDs(old)
        /\ ch.rulesRemoved = RuleIDs(old) \ RuleIDs(new)
        /\ ch.rulesModified = {id \in RuleIDs(old) \intersect RuleIDs(new) :
                                 old.rules[id].compared # new.rules[id].compared}
        /\ ch.serverChanged <=> old.server # new.server
    BY <2>6 DEF CalculateChanges, RulesEqual
  <2>9. QED
    BY <2>7, <2>8, Zenon DEF old, new, ch
<1>4. QED
  BY <1>1, <1>2, <1>3, InitIInv, StepIInv, PTL DEF Spec

-----------------------------------------------------------------------------
(* The window a ring stands for, as VersionStore maps it to VersionHistory *)
WindowOf(r) == [i \in 1 .. r.count |-> Nth(MaxVersions, r, r.count - i).config]

(* It is a sequence of configurations, as long as the ring is full.        *)
LEMMA WindowType ==
  ASSUME NEW r \in RingOf(MaxVersions, NoVersion, Entry), NEW n \in Nat \ {0}, HoldsLast(r, n)
  PROVE  /\ WindowOf(r) \in Seq(Config)
         /\ Len(WindowOf(r)) = r.count
         /\ \A i \in 1 .. r.count : WindowOf(r)[i] = Nth(MaxVersions, r, r.count - i).config
         /\ \A i \in 0 .. r.count - 1 : Nth(MaxVersions, r, i) \in Entry
<1> USE MaxVersionsAssumption
<1>1. r.count \in 0 .. MaxVersions /\ r.current \in 0 .. MaxVersions - 1
      /\ r.slots \in [0 .. MaxVersions - 1 -> Entry \union {NoVersion}]
  BY DEF RingOf
<1>2. ASSUME NEW i \in 0 .. r.count - 1
      PROVE  Nth(MaxVersions, r, i) \in Entry
  <2>1. SlotOf(MaxVersions, r, i) \in 0 .. MaxVersions - 1
    BY <1>1, SlotOfWraps
  <2>2. QED
    BY <1>1, <2>1 DEF Nth, HoldsLast
<1>3. ASSUME NEW i \in 1 .. r.count
      PROVE  Nth(MaxVersions, r, r.count - i).config \in Config
  <2>1. r.count - i \in 0 .. r.count - 1
    BY <1>1
  <2>2. QED
    BY <1>2, <2>1 DEF Entry
<1>4. QED
  BY <1>1, <1>2, <1>3 DEF WindowOf

(* Pushing onto the ring slides that window.                               *)
LEMMA PushSlides ==
  ASSUME NEW r \in RingOf(MaxVersions, NoVersion, Entry), NEW n \in Nat \ {0}, HoldsLast(r, n),
         NEW e \in Entry, e.version = n
  PROVE  WindowOf(Push(MaxVersions, r, e))
           = IF Len(WindowOf(r)) < MaxVersions
               THEN Append(WindowOf(r), e.config)
               ELSE Append(Tail(WindowOf(r)), e.config)
<1> DEFINE p == Push(MaxVersions, r, e)
           w == WindowOf(r)
           x == WindowOf(p)
<1> USE MaxVersionsAssumption
<1>1. r.count \in 0 .. MaxVersions
  BY DEF RingOf
<1>2. p.count = IF r.count < MaxVersions THEN r.count + 1 ELSE r.count
  BY DEF Push
<1>3. /\ Nth(MaxVersions, p, 0) = e
      /\ \A i \in 1 .. MaxVersions - 1 : Nth(MaxVersions, p, i) = Nth(MaxVersions, r, i - 1)
  BY PushShifts
<1>4. /\ w \in Seq(Config) /\ Len(w) = r.count
      /\ \A i \in 1 .. r.count : w[i] = Nth(MaxVersions, r, r.count - i).config
  BY WindowType
<1>5. /\ x \in Seq(Config) /\ Len(x) = p.count
      /\ \A i \in 1 .. p.count : x[i] = Nth(MaxVersions, p, p.count - i).config
  <2>1. p \in RingOf(MaxVersions, NoVersion, Entry) /\ HoldsLast(p, n + 1)
    BY PushType, PushHoldsLast
  <2>2. QED
    BY <2>1, WindowType
<1>6. e.config \in Config
  BY DEF Entry
<1> HIDE DEF p, w, x
<1>7. p.count \in 1 .. MaxVersions /\ x[p.count] = e.config
  BY <1>1, <1>2, <1>3, <1>5
<1>8. CASE r.count < MaxVersions
  <2> DEFINE y == Append(w, e.config)
  <2>1. y \in Seq(Config) /\ Len(y) = p.count /\ y[p.count] = e.config
        /\ \A i \in 1 .. r.count : y[i] = w[i]
    BY <1>1, <1>2, <1>4, <1>6, <1>8, AppendProperties
  <2>2. ASSUME NEW i \in 1 .. r.count
        PROVE  x[i] = w[i]
    <3>1. p.count - i \in 1 .. MaxVersions - 1 /\ (p.count - i) - 1 = r.count - i /\ i \in 1 .. p.count
      BY <1>1, <1>2, <1>8
    <3>2. QED
      BY <1>3, <1>4, <1>5, <3>1
  <2>3. \A i \in 1 .. p.count : x[i] = y[i]
    BY <1>1, <1>2, <1>7, <1>8, <2>1, <2>2
  <2>4. x = y
    BY <1>5, <2>1, <2>3, SeqEqual
  <2>5. QED
    BY <1>4, <1>8, <2>4 DEF p, w, x
<1>9. CASE r.count = MaxVersions
  <2> DEFINE t == Tail(w)
             y == Append(t, e.config)
  <2>1. t \in Seq(Config) /\ Len(t) = MaxVersions - 1 /\ \A i \in 1 .. Len(t) : t[i] = w[i + 1]
    <3>1. w # <<>>
      BY <1>4, <1>9
    <3>2. QED
      BY <1>4, <1>9, <3>1, HeadTailProperties
  <2>2. y \in Seq(Config) /\ Len(y) = MaxVersions /\ y[MaxVersions] = e.config
        /\ \A i \in 1 .. MaxVersions - 1 : y[i] = t[i]
    BY <1>6, <2>1, AppendProperties
  <2>3. ASSUME NEW i \in 1 .. MaxVersions - 1
        PROVE  x[i] = y[i]
    <3>1. /\ p.count - i \in 1 .. MaxVersions - 1 /\ (p.count - i) - 1 = r.count - (i + 1)
          /\ i \in 1 .. p.count /\ i + 1 \in 1 .. r.count /\ i \in 1 .. Len(t)
      BY <1>1, <1>2, <1>9, <2>1
    <3>2. x[i] = Nth(MaxVersions, r, r.count - (i + 1)).config
      BY <1>3, <1>5, <3>1
    <3>3. y[i] = w[i + 1]
      BY <2>1, <2>2, <3>1
    <3>4. QED
      BY <1>4, <3>1, <3>2, <3>3
  <2>4. p.count = MaxVersions
    BY <1>2, <1>9
  <2>5. \A i \in 1 .. MaxVersions : x[i] = y[i]
    BY <1>7, <2>2, <2>3, <2>4
  <2>6. x = y
    BY <1>5, <2>2, <2>4, <2>5, SeqEqual
  <2>7. QED
    BY <1>4, <1>9, <2>6 DEF p, w, x
<1>10. QED
  BY <1>1, <1>8, <1>9

(* The ring with its modular indices implements the sliding window of      *)
(* VersionHistory: Add is Load and Rollback is Restore of a retained one.  *)
THEOREM Refinement == Spec => ImplementsHistory
<1> USE MaxVersionsAssumption
<1>1. Init => Abstract!Init
  BY DEF Init, EmptyRing, Abstract!Init
<1>2. ASSUME IInv, [Next]_vars
      PROVE  [Abstract!Next]_Abstract!vars
  <2>1. CASE UNCHANGED vars
    BY <2>1 DEF vars, Abstract!vars
  <2>2. /\ ring \in RingOf(MaxVersions, NoVersion, Entry) /\ HoldsLast(ring, nextVersion)
        /\ nextVersion \in Nat \ {0} /\ TypeOK
    BY <1>2 DEF IInv, TypeOK, Consecutive
  <2>3. ASSUME NEW e \in Entry, e.version = nextVersion, StoreAsCurrent(e)
        PROVE  Abstract!Slide(e.config)
    <3>1. WindowOf(ring') = IF Len(WindowOf(ring)) < MaxVersions
                              THEN Append(WindowOf(ring), e.config)
                              ELSE Append(Tail(WindowOf(ring)), e.config)
      BY <2>2, <2>3, PushSlides DEF StoreAsCurrent
    <3>2. (nextVersion - 1)' = (nextVersion - 1) + 1
      BY <2>2, <2>3 DEF StoreAsCurrent
    <3>3. QED
      BY <3>1, <3>2 DEF Abstract!Slide, WindowOf
  <2>4. ASSUME NEW c \in Config, Add(c)
        PROVE  Abstract!Next
    <3>1. Abstract!Slide(c)
      BY <2>2, <2>3, <2>4, AddStoresEntry DEF Add
    <3>2. QED
      BY <3>1 DEF Abstract!Next, Abstract!Load
  <2>5. ASSUME NEW v \in 1 .. nextVersion - 1, Rollback(v)
        PROVE  Abstract!Next
    <3> DEFINE i == ring.count - (nextVersion - 1 - v)
    <3>1. Get(v) # NoVersion /\ StoreAsCurrent(RolledBack(v))
      BY <2>5 DEF Rollback
    <3>2. Abstract!Slide(Get(v).config)
      BY <1>2, <2>3, <3>1, RollbackStoresEntry
    <3>3. i \in 1 .. ring.count /\ ring.count - i = nextVersion - 1 - v
      BY <1>2, <2>2, <3>1, GetFindsEntry DEF RingOf
    <3>4. WindowOf(ring)[i] = Get(v).config
      BY <1>2, <2>2, <3>1, <3>3, GetFindsEntry, WindowType
    <3>5. i \in DOMAIN WindowOf(ring)
      BY <3>3 DEF WindowOf
    <3>6. QED
      BY <3>2, <3>4, <3>5 DEF Abstract!Next, Abstract!Restore, WindowOf
  <2>6. QED
    BY <1>2, <2>1, <2>4, <2>5 DEF Next
<1>3. QED
  BY <1>1, <1>2, InitIInv, StepIInv, PTL DEF Spec, ImplementsHistory, Abstract!Spec
=============================================================================
