------------------------- MODULE ConfigServerProofs -------------------------
(***************************************************************************)
(* Theorems about ConfigServer for any goroutines, requests, callers and   *)
(* configurations, and any length of the store and of the log.             *)
(*                                                                         *)
(* What VersionStoreProofs shows of the store alone is taken over: every   *)
(* step of the server is a step of its store or leaves it alone.           *)
(***************************************************************************)
EXTENDS ConfigServer, SequenceTheorems, FiniteSetTheorems, WellFoundedInduction, TLAPS

SP == INSTANCE VersionStoreProofs

-----------------------------------------------------------------------------
(* The store inside the server                                             *)

StoreInv == Store!TypeOK /\ Store!Consecutive

(* VersionStore and VersionStoreProofs are instantiated side by side; what *)
(* the one calls by a name is what the other does.                         *)
LEMMA SameHash == \A c : SP!CalculateHash(c) = Store!CalculateHash(c)
  BY DEF SP!CalculateHash, Store!CalculateHash, SP!RulesCount, Store!RulesCount,
         SP!RuleIDs, Store!RuleIDs, SP!Cardinality, Store!Cardinality

LEMMA SameChanges == \A c, d : SP!CalculateChanges(c, d) = Store!CalculateChanges(c, d)
  BY DEF SP!CalculateChanges, Store!CalculateChanges, SP!RuleIDs, Store!RuleIDs,
         SP!RulesEqual, Store!RulesEqual, SP!AuthEqual, Store!AuthEqual

LEMMA SameEntries == SP!Entry = Store!Entry
  BY DEF SP!Entry, Store!Entry, SP!CalculateHash, Store!CalculateHash, SP!CalculateChanges,
         Store!CalculateChanges, SP!RulesCount, Store!RulesCount, SP!RuleIDs, Store!RuleIDs,
         SP!Cardinality, Store!Cardinality,
         SP!RulesEqual, Store!RulesEqual, SP!AuthEqual, Store!AuthEqual

LEMMA SameInvariant == SP!IInv <=> StoreInv
  BY SameEntries
  DEF SP!IInv, StoreInv, SP!TypeOK, Store!TypeOK, SP!Consecutive, Store!Consecutive,
      SP!HoldsLast, Store!HoldsLast, SP!RingOf, Store!RingOf, SP!Nth, Store!Nth,
      SP!SlotOf, Store!SlotOf

LEMMA SameReads ==
  /\ \A v : SP!Get(v) = Store!Get(v)
  /\ SP!Current = Store!Current
  BY DEF SP!Get, Store!Get, SP!Find, Store!Find, SP!Positions, Store!Positions, SP!Nth, Store!Nth,
         SP!SlotOf, Store!SlotOf, SP!Current, Store!Current, SP!Newest, Store!Newest

LEMMA SameWrites ==
  /\ \A c : SP!NewEntry(c) = Store!NewEntry(c)
  /\ \A v : SP!RolledBack(v) = Store!RolledBack(v)
  /\ \A e : SP!StoreAsCurrent(e) <=> Store!StoreAsCurrent(e)
<1>1. \A c : SP!NewEntry(c) = Store!NewEntry(c)
  BY SameReads, SameHash, SameChanges DEF SP!NewEntry, Store!NewEntry
<1>2. \A v : SP!RolledBack(v) = Store!RolledBack(v)
  BY SameReads, SameHash, SameChanges DEF SP!RolledBack, Store!RolledBack
<1>3. \A e : SP!StoreAsCurrent(e) <=> Store!StoreAsCurrent(e)
  BY DEF SP!StoreAsCurrent, Store!StoreAsCurrent, SP!Push, Store!Push
<1>4. QED
  BY <1>1, <1>2, <1>3

LEMMA SameNext == SP!Next <=> Store!Next
  BY SameReads, SameWrites
  DEF SP!Next, Store!Next, SP!Add, Store!Add, SP!Rollback, Store!Rollback

(* The constants meet what VersionStore assumes of them.                   *)
LEMMA AssumptionsHold ==
  /\ MaxVersions \in Nat \ {0} /\ AuditSize \in Nat \ {0}
  /\ NoVersion \notin SP!Entry
  /\ NoChanges \notin {SP!CalculateChanges(c, d) : c, d \in Config}
<1>1. {SP!CalculateChanges(c, d) : c, d \in Config}
        = {Store!CalculateChanges(c, d) : c, d \in Config}
  BY SameChanges
<1>2. QED
  BY <1>1, SameEntries, SizesAssumption, NilAssumption

(* The audit log is a ring like the store's: what holds of the one holds   *)
(* of the other.                                                           *)
LEMMA SameRing ==
  /\ \A cap, r, i : SP!SlotOf(cap, r, i) = SlotOf(cap, r, i)
  /\ \A cap, r, i : SP!Nth(cap, r, i) = Nth(cap, r, i)
  /\ \A cap, r, e : SP!Push(cap, r, e) = Push(cap, r, e)
  /\ \A cap, none, E : SP!RingOf(cap, none, E) = RingOf(cap, none, E)
  BY DEF SP!SlotOf, SlotOf, SP!Nth, Nth, SP!Push, Push, SP!RingOf, RingOf

LEMMA SlotOfWraps ==
  ASSUME NEW cap \in Nat \ {0}, NEW r, r.current \in 0 .. cap - 1, NEW i \in 0 .. cap - 1
  PROVE  /\ SlotOf(cap, r, i) = IF i <= r.current THEN r.current - i ELSE r.current - i + cap
         /\ SlotOf(cap, r, i) \in 0 .. cap - 1
  BY AssumptionsHold, SP!SlotOfWraps, SameRing

LEMMA PushType ==
  ASSUME NEW cap \in Nat \ {0}, NEW none, NEW E,
         NEW r \in RingOf(cap, none, E), NEW e \in E
  PROVE  Push(cap, r, e) \in RingOf(cap, none, E)
  BY AssumptionsHold, SP!PushType, SameRing

LEMMA PushShifts ==
  ASSUME NEW cap \in Nat \ {0}, NEW none, NEW E,
         NEW r \in RingOf(cap, none, E), NEW e
  PROVE  /\ Nth(cap, Push(cap, r, e), 0) = e
         /\ \A i \in 1 .. cap - 1 : Nth(cap, Push(cap, r, e), i) = Nth(cap, r, i - 1)
  BY AssumptionsHold, SP!PushShifts, SameRing

(* Hence the store inside the server is the store VersionStoreProofs is    *)
(* about: its invariant is kept, ...                                       *)
LEMMA StoreStep ==
  ASSUME StoreInv, [Store!Next]_store
  PROVE  StoreInv'
<1>1. SP!IInv /\ [SP!Next]_SP!vars
  BY SameInvariant, SameNext DEF SP!vars, store
<1>2. SP!IInv'
  BY <1>1, AssumptionsHold, SP!StepIInv
<1>3. SP!IInv' <=> StoreInv'
  BY SameInvariant, PTL
<1>4. QED
  BY <1>2, <1>3

(* ... what it stores is well formed and carries the next number, ...      *)
LEMMA AddedEntry ==
  ASSUME StoreInv, NEW c \in Config
  PROVE  /\ Store!NewEntry(c) \in Store!Entry
         /\ Store!NewEntry(c).version = nextVersion /\ Store!NewEntry(c).config = c
<1>1. SP!TypeOK
  BY SameInvariant DEF SP!IInv
<1>2. QED
  BY <1>1, AssumptionsHold, SP!AddStoresEntry, SameEntries, SameWrites

LEMMA RestoredEntry ==
  ASSUME StoreInv, NEW v \in Int, Store!Get(v) # NoVersion
  PROVE  /\ Store!RolledBack(v) \in Store!Entry
         /\ Store!RolledBack(v).version = nextVersion
         /\ Store!RolledBack(v).config = Store!Get(v).config
  BY AssumptionsHold, SP!RollbackStoresEntry, SameInvariant, SameEntries, SameWrites, SameReads

(* ... and Get is an access to the window of the last versions.            *)
LEMMA GetIsWindow ==
  ASSUME StoreInv, NEW v \in Int
  PROVE  /\ ring \in RingOf(MaxVersions, NoVersion, Store!Entry)
         /\ nextVersion \in Nat \ {0}
         /\ ring.count = IF nextVersion <= MaxVersions THEN nextVersion - 1 ELSE MaxVersions
         /\ Store!Get(v) = IF nextVersion - ring.count <= v /\ v < nextVersion
                             THEN Nth(MaxVersions, ring, nextVersion - 1 - v)
                             ELSE NoVersion
         /\ nextVersion - ring.count <= v /\ v < nextVersion =>
              Nth(MaxVersions, ring, nextVersion - 1 - v) # NoVersion
<1>1. /\ ring \in RingOf(MaxVersions, NoVersion, Store!Entry)
      /\ nextVersion \in Nat \ {0}
  BY DEF StoreInv, Store!TypeOK, Store!RingOf, RingOf
<1>2. SP!HoldsLast(ring, nextVersion)
  BY SameInvariant DEF SP!IInv, SP!Consecutive
<1>3. ring.count \in 0 .. MaxVersions
  BY <1>1 DEF RingOf
<1>4. SP!Find(ring, v) = IF nextVersion - ring.count <= v /\ v < nextVersion
                           THEN SP!Nth(MaxVersions, ring, nextVersion - 1 - v)
                           ELSE NoVersion
  BY <1>1, <1>2, <1>3, AssumptionsHold, SP!FindIsArithmetic
<1>5. SP!Get(v) = SP!Find(ring, v)
  BY DEF SP!Get
<1>6. Store!Get(v) = IF nextVersion - ring.count <= v /\ v < nextVersion
                       THEN Nth(MaxVersions, ring, nextVersion - 1 - v)
                       ELSE NoVersion
  BY <1>4, <1>5, SameReads DEF SP!Nth, Nth, SP!SlotOf, SlotOf
<1>7. ASSUME nextVersion - ring.count <= v, v < nextVersion
      PROVE  Nth(MaxVersions, ring, nextVersion - 1 - v) # NoVersion
  <2>1. nextVersion - 1 - v \in 0 .. ring.count - 1
    BY <1>1, <1>3, <1>7
  <2>2. QED
    BY <1>2, <2>1 DEF SP!HoldsLast, SP!Nth, Nth, SP!SlotOf, SlotOf
<1>8. QED
  BY <1>1, <1>2, <1>6, <1>7 DEF SP!HoldsLast

-----------------------------------------------------------------------------
(* Types                                                                   *)

Events ==
  [type : {"config_loaded", "config_reloaded", "config_rollback"}, version : Nat,
   actor : MayRollBack \union {"system"}]

OpRecords ==
  [pc : {"idle", "loaded", "swapped", "added", "audited", "counted", "reset",
         "found", "rolledBack", "restored"},
   cfg : Config \union {None}, target : Nat, actor : MayRollBack \union {None},
   entry : Store!Entry \union {NoVersion}, reply : {None, "ok", "failed", "refused"}]

(* An operation has what its step needs.                                   *)
Equipped(r) ==
  /\ r.pc \in {"loaded", "swapped", "added", "audited", "counted", "reset"} => r.cfg \in Config
  /\ r.pc \in {"added", "audited", "counted", "reset", "rolledBack", "restored"} =>
       r.entry \in Store!Entry
  /\ r.pc \in {"found", "rolledBack", "restored"} =>
       r.actor \in MayRollBack /\ r.target \in Nat

TypeInv ==
  /\ StoreInv
  /\ cfg \in Config
  /\ ledger \in Seq(Config) /\ Len(ledger) = nextVersion - 1
  /\ calm \in [next : Nat, cfg : Config]
  /\ audit \in RingOf(AuditSize, None, Events)
  /\ op \in [Ops -> OpRecords]
  /\ \A o \in Ops : Equipped(op[o])

LEMMA IdleIsTyped ==
  \A reply \in {None, "ok", "failed", "refused"} :
    [IdleOp EXCEPT !.reply = reply] \in OpRecords /\ Equipped([IdleOp EXCEPT !.reply = reply])
  BY DEF IdleOp, OpRecords, Equipped

(* What a step of the operation of one goroutine does to the other ones.   *)
LEMMA OneOpChanges ==
  ASSUME NEW o \in Ops, op \in [Ops -> OpRecords], \A p \in Ops : Equipped(op[p]),
         NEW r \in OpRecords, Equipped(r), op' = [op EXCEPT ![o] = r]
  PROVE  op' \in [Ops -> OpRecords] /\ \A p \in Ops : Equipped(op'[p])
  OBVIOUS

(* An entry that is stored is one, and takes the next number.              *)
Records(o, e) ==
  /\ e \in Store!Entry /\ e.version = nextVersion
  /\ ring' = Push(MaxVersions, ring, e) /\ nextVersion' = nextVersion + 1
  /\ ledger' = Append(ledger, e.config)
  /\ op[o].pc \in {"swapped", "found"}
  /\ op' = [op EXCEPT ![o] = [op[o] EXCEPT !.pc = IF op[o].pc = "found" THEN "rolledBack" ELSE "added",
                                            !.entry = e]]
  /\ op[o].pc = "swapped" => e.config = op[o].cfg
  /\ op[o].pc = "found" => Store!Get(op[o].target) # NoVersion
                            /\ e.config = Store!Get(op[o].target).config
  /\ UNCHANGED <<cfg, audit, gauges, request, calm>>

LEMMA ReloadAddRecords ==
  ASSUME TypeInv, NEW o \in Ops, ReloadAdd(o)
  PROVE  Records(o, Store!NewEntry(op[o].cfg)) /\ Store!Next
<1>1. op[o].pc = "swapped" /\ op[o].cfg \in Config /\ op[o] \in OpRecords
  BY DEF ReloadAdd, TypeInv, Equipped
<1>2. /\ Store!NewEntry(op[o].cfg) \in Store!Entry
      /\ Store!NewEntry(op[o].cfg).version = nextVersion
      /\ Store!NewEntry(op[o].cfg).config = op[o].cfg
  BY <1>1, AddedEntry DEF TypeInv
<1>3. /\ ring' = Push(MaxVersions, ring, Store!NewEntry(op[o].cfg))
      /\ nextVersion' = nextVersion + 1
  BY DEF ReloadAdd, Store!Add, Store!StoreAsCurrent, Store!Push, Push
<1>4. op' = [op EXCEPT ![o] = [op[o] EXCEPT !.pc = "added", !.entry = Store!NewEntry(op[o].cfg)]]
  BY <1>1 DEF ReloadAdd, TypeInv
<1>5. Store!Next
  BY <1>1 DEF Store!Next, ReloadAdd
<1>6. QED
  BY <1>1, <1>2, <1>3, <1>4, <1>5 DEF Records, ReloadAdd

LEMMA RollbackStoreRecords ==
  ASSUME TypeInv, NEW o \in Ops, RollbackStore(o)
  PROVE  Records(o, Store!RolledBack(op[o].target)) /\ Store!Next
<1> DEFINE v == op[o].target
<1>1. op[o].pc = "found" /\ v \in Int /\ op[o] \in OpRecords /\ Store!Get(v) # NoVersion
  BY DEF RollbackStore, TypeInv, OpRecords, Store!Rollback
<1>2. /\ Store!RolledBack(v) \in Store!Entry
      /\ Store!RolledBack(v).version = nextVersion
      /\ Store!RolledBack(v).config = Store!Get(v).config
  BY <1>1, RestoredEntry DEF TypeInv
<1>3. /\ ring' = Push(MaxVersions, ring, Store!RolledBack(v))
      /\ nextVersion' = nextVersion + 1
  BY DEF RollbackStore, Store!Rollback, Store!StoreAsCurrent, Store!Push, Push
<1>4. op' = [op EXCEPT ![o] = [op[o] EXCEPT !.pc = "rolledBack", !.entry = Store!RolledBack(v)]]
  BY <1>1 DEF RollbackStore, TypeInv
<1>5. v \in 1 .. nextVersion - 1
  <2>1. /\ nextVersion \in Nat \ {0}
        /\ ring.count = IF nextVersion <= MaxVersions THEN nextVersion - 1 ELSE MaxVersions
        /\ nextVersion - ring.count <= v /\ v < nextVersion
    BY <1>1, GetIsWindow DEF TypeInv
  <2>2. QED
    BY <1>1, <2>1, AssumptionsHold
<1>6. Store!Next
  BY <1>5 DEF Store!Next, RollbackStore
<1>7. QED
  BY <1>1, <1>2, <1>3, <1>4, <1>6 DEF Records, RollbackStore

(* An event is logged for a version that an operation has recorded.        *)
Logs(o) ==
  /\ op[o].pc \in {"added", "restored"}
  /\ \E e \in Events :
       /\ e.version = op[o].entry.version
       /\ e.type = "config_rollback" => e.actor \in MayRollBack
       /\ audit' = Push(AuditSize, audit, e)
  /\ op' = [op EXCEPT ![o] = IF op[o].pc = "added" THEN [op[o] EXCEPT !.pc = "audited"]
                             ELSE [IdleOp EXCEPT !.reply = "ok"]]
  /\ UNCHANGED <<cfg, store, gauges, request, ledger, calm>>

LEMMA AuditsLog ==
  ASSUME TypeInv, NEW o \in Ops, ReloadAudit(o) \/ RollbackAudit(o)
  PROVE  Logs(o)
<1>1. op[o] \in OpRecords /\ Equipped(op[o])
  BY DEF TypeInv
<1>2. CASE ReloadAudit(o)
  <2> DEFINE e == [type |-> "config_reloaded", version |-> op[o].entry.version, actor |-> "system"]
  <2>1. op[o].pc = "added" /\ op[o].entry \in Store!Entry
    BY <1>1, <1>2 DEF ReloadAudit, Equipped
  <2>2. e \in Events
    BY <2>1 DEF Events, Store!Entry
  <2>3. op' = [op EXCEPT ![o] = [op[o] EXCEPT !.pc = "audited"]]
    BY <1>2 DEF ReloadAudit, TypeInv
  <2>4. QED
    BY <1>2, <2>1, <2>2, <2>3 DEF ReloadAudit, LogConfigChange, Logs
<1>3. CASE RollbackAudit(o)
  <2> DEFINE e == [type |-> "config_rollback", version |-> op[o].entry.version,
                   actor |-> op[o].actor]
  <2>1. op[o].pc = "restored" /\ op[o].entry \in Store!Entry /\ op[o].actor \in MayRollBack
    BY <1>1, <1>3 DEF RollbackAudit, Equipped
  <2>2. e \in Events
    BY <2>1 DEF Events, Store!Entry
  <2>3. QED
    BY <1>3, <2>1, <2>2 DEF RollbackAudit, LogConfigChange, Logs
<1>4. QED
  BY <1>2, <1>3

(* The other steps keep the store, the ledger and the log; they leave the  *)
(* operation well typed.                                                   *)
Other(o) ==
  Load(o) \/ LoadFails(o) \/ ReloadSwap(o) \/ SetRulesGauge(o) \/ ResetInfo(o) \/ SetInfo(o)
    \/ RollbackLookup(o) \/ RollbackRefused(o) \/ Denied(o) \/ RollbackEvicted(o)
    \/ RollbackSwap(o)

Proceeds(o) ==
  /\ \E r \in OpRecords : Equipped(r) /\ op' = [op EXCEPT ![o] = r]
  /\ cfg' \in Config
  /\ calm' = calm \/ calm' = [next |-> nextVersion, cfg |-> cfg]
  /\ UNCHANGED <<store, ledger, audit>>

LEMMA OthersProceed ==
  ASSUME TypeInv, NEW o \in Ops, Other(o)
  PROVE  Proceeds(o)
<1> USE DEF TypeInv, OpRecords, Equipped, Proceeds, store, gauges
<1>1. CASE Load(o)
  <2>1. PICK c \in Config : op' = [op EXCEPT ![o] = [IdleOp EXCEPT !.pc = "loaded", !.cfg = c]]
    BY <1>1 DEF Load
  <2> DEFINE r == [IdleOp EXCEPT !.pc = "loaded", !.cfg = c]
  <2>2. r \in OpRecords /\ Equipped(r) /\ op' = [op EXCEPT ![o] = r]
    BY <2>1 DEF IdleOp
  <2>3. QED
    BY <1>1, <2>2 DEF Load, Begin
<1>2. CASE LoadFails(o)
  BY <1>2, IdleIsTyped DEF LoadFails
<1>3. CASE ReloadSwap(o)
  <2> DEFINE r == [op[o] EXCEPT !.pc = "swapped"]
  <2>1. r \in OpRecords /\ Equipped(r) /\ op' = [op EXCEPT ![o] = r]
    BY <1>3 DEF ReloadSwap
  <2>2. QED
    BY <1>3, <2>1 DEF ReloadSwap, Swap
<1>4. CASE SetRulesGauge(o)
  <2> DEFINE r == [op[o] EXCEPT !.pc = "counted"]
  <2>1. r \in OpRecords /\ Equipped(r) /\ op' = [op EXCEPT ![o] = r]
    BY <1>4 DEF SetRulesGauge
  <2>2. QED
    BY <1>4, <2>1 DEF SetRulesGauge
<1>5. CASE ResetInfo(o)
  <2> DEFINE r == [op[o] EXCEPT !.pc = "reset"]
  <2>1. r \in OpRecords /\ Equipped(r) /\ op' = [op EXCEPT ![o] = r]
    BY <1>5 DEF ResetInfo
  <2>2. QED
    BY <1>5, <2>1 DEF ResetInfo
<1>6. CASE SetInfo(o)
  BY <1>6, IdleIsTyped DEF SetInfo
<1>7. CASE RollbackLookup(o)
  <2>1. PICK actor \in MayRollBack, v \in 1 .. nextVersion - 1 :
          op' = [op EXCEPT ![o] = [IdleOp EXCEPT !.pc = "found", !.target = v, !.actor = actor]]
    BY <1>7 DEF RollbackLookup
  <2> DEFINE r == [IdleOp EXCEPT !.pc = "found", !.target = v, !.actor = actor]
  <2>2. v \in Nat
    OBVIOUS
  <2>3. r \in OpRecords /\ Equipped(r) /\ op' = [op EXCEPT ![o] = r]
    BY <2>1, <2>2 DEF IdleOp
  <2>4. QED
    BY <1>7, <2>3 DEF RollbackLookup, Begin
<1>8. CASE RollbackRefused(o)
  BY <1>8, IdleIsTyped DEF RollbackRefused
<1>9. CASE Denied(o)
  BY <1>9, IdleIsTyped DEF Denied
<1>10. CASE RollbackEvicted(o)
  BY <1>10, IdleIsTyped DEF RollbackEvicted
<1>11. CASE RollbackSwap(o)
  <2> DEFINE r == [op[o] EXCEPT !.pc = "restored"]
  <2>1. r \in OpRecords /\ Equipped(r) /\ op' = [op EXCEPT ![o] = r]
    BY <1>11 DEF RollbackSwap
  <2>2. op[o].entry.config \in Config
    BY <1>11 DEF RollbackSwap, Store!Entry
  <2>3. QED
    BY <1>11, <2>1, <2>2 DEF RollbackSwap, Swap
<1>12. QED
  BY <1>1, <1>2, <1>3, <1>4, <1>5, <1>6, <1>7, <1>8, <1>9, <1>10, <1>11 DEF Other

(* Only what begins notes a calm moment, and only when there is one.       *)
LEMMA CalmMoves ==
  ASSUME NEW o \in Ops, Other(o)
  PROVE  calm' = calm \/ (AllIdle /\ calm' = [next |-> nextVersion, cfg |-> cfg])
<1>1. CASE Load(o) \/ RollbackLookup(o)
  <2>1. calm' = IF AllIdle THEN [next |-> nextVersion, cfg |-> cfg] ELSE calm
    BY <1>1 DEF Load, RollbackLookup, Begin
  <2>2. QED
    BY <2>1
<1>2. CASE ~(Load(o) \/ RollbackLookup(o))
  <2>1. calm' = calm
    BY <1>2 DEF Other, LoadFails, ReloadSwap, SetRulesGauge, ResetInfo, SetInfo, RollbackRefused,
                Denied, RollbackEvicted, RollbackSwap
  <2>2. QED
    BY <2>1
<1>3. QED
  BY <1>1, <1>2

(* Requests change nothing else.                                           *)
LEMMA RequestsOnlyRead ==
  ASSUME NEW q \in Requests, Serve(q)
  PROVE  UNCHANGED <<cfg, store, audit, gauges, op, ledger, calm>>
  BY DEF Serve, CheckHost, MatchRule, ReadConfigVersion, ReadRulesCount, NextRequest

(* So there are five kinds of steps.                                       *)
LEMMA StepKinds ==
  ASSUME TypeInv, [Next]_vars
  PROVE  \/ \E o \in Ops : (ReloadAdd(o) \/ RollbackStore(o)) /\ \E e \in Store!Entry : Records(o, e)
         \/ \E o \in Ops : Logs(o)
         \/ \E o \in Ops : Other(o) /\ Proceeds(o)
         \/ UNCHANGED <<cfg, store, audit, gauges, op, ledger, calm>>
<1>1. CASE UNCHANGED vars
  BY <1>1 DEF vars
<1>2. ASSUME NEW q \in Requests, Serve(q)
      PROVE  UNCHANGED <<cfg, store, audit, gauges, op, ledger, calm>>
  BY <1>2, RequestsOnlyRead
<1>3. ASSUME NEW o \in Ops, Reload(o) \/ RollbackHandler(o)
      PROVE  \/ (ReloadAdd(o) \/ RollbackStore(o)) /\ \E e \in Store!Entry : Records(o, e)
             \/ Logs(o)
             \/ Other(o) /\ Proceeds(o)
  <2>1. CASE ReloadAdd(o)
    BY <2>1, ReloadAddRecords DEF Records
  <2>2. CASE RollbackStore(o)
    BY <2>2, RollbackStoreRecords DEF Records
  <2>3. QED
    BY <1>3, <2>1, <2>2, AuditsLog, OthersProceed DEF Reload, RollbackHandler, Other
<1>4. QED
  BY <1>1, <1>2, <1>3 DEF Next

LEMMA TypeStep ==
  ASSUME TypeInv, [Next]_vars
  PROVE  TypeInv'
<1>1. nextVersion \in Nat \ {0} /\ ring \in RingOf(MaxVersions, NoVersion, Store!Entry)
  BY GetIsWindow DEF TypeInv
<1>2. ASSUME NEW o \in Ops, NEW e \in Store!Entry, Records(o, e), ReloadAdd(o) \/ RollbackStore(o)
      PROVE  TypeInv'
  <2>1. StoreInv'
    <3>1. Store!Next
      BY <1>2, ReloadAddRecords, RollbackStoreRecords
    <3>2. QED
      BY <3>1, StoreStep DEF TypeInv
  <2>2. e.config \in Config
    BY DEF Store!Entry
  <2>3. ledger' \in Seq(Config) /\ Len(ledger') = nextVersion' - 1
    BY <1>1, <1>2, <2>2, AppendProperties DEF Records, TypeInv
  <2> DEFINE r == [op[o] EXCEPT !.pc = IF op[o].pc = "found" THEN "rolledBack" ELSE "added",
                                !.entry = e]
  <2>3a. op[o] \in OpRecords /\ Equipped(op[o]) /\ op[o].pc \in {"swapped", "found"}
    BY <1>2 DEF Records, TypeInv
  <2>4. r \in OpRecords /\ Equipped(r)
    BY <2>3a DEF OpRecords, Equipped
  <2>5. op' \in [Ops -> OpRecords] /\ \A p \in Ops : Equipped(op'[p])
    BY <1>2, <2>4, OneOpChanges DEF Records, TypeInv
  <2>6. QED
    BY <1>2, <2>1, <2>3, <2>5 DEF Records, TypeInv
<1>3. ASSUME NEW o \in Ops, Logs(o)
      PROVE  TypeInv'
  <2>1. audit' \in RingOf(AuditSize, None, Events)
    BY <1>3, PushType, AssumptionsHold DEF Logs, TypeInv
  <2> DEFINE r == IF op[o].pc = "added" THEN [op[o] EXCEPT !.pc = "audited"]
                    ELSE [IdleOp EXCEPT !.reply = "ok"]
  <2>2. op[o] \in OpRecords /\ Equipped(op[o])
    BY DEF TypeInv
  <2>3. r \in OpRecords /\ Equipped(r)
    BY <2>2, IdleIsTyped DEF OpRecords, Equipped
  <2>4. op' \in [Ops -> OpRecords] /\ \A p \in Ops : Equipped(op'[p])
    BY <1>3, <2>3, OneOpChanges DEF Logs, TypeInv
  <2>5. QED
    BY <1>3, <2>1, <2>4 DEF Logs, TypeInv, store, StoreInv, Store!TypeOK, Store!Consecutive
<1>4. ASSUME NEW o \in Ops, Proceeds(o)
      PROVE  TypeInv'
  <2>1. op' \in [Ops -> OpRecords] /\ \A p \in Ops : Equipped(op'[p])
    BY <1>4, OneOpChanges DEF Proceeds, TypeInv
  <2>2. QED
    BY <1>1, <1>4, <2>1 DEF Proceeds, TypeInv, store, StoreInv, Store!TypeOK, Store!Consecutive
<1>5. ASSUME UNCHANGED <<cfg, store, audit, gauges, op, ledger, calm>>
      PROVE  TypeInv'
  BY <1>5 DEF TypeInv, store, StoreInv, Store!TypeOK, Store!Consecutive
<1>6. QED
  BY <1>2, <1>3, <1>4, <1>5, StepKinds

LEMMA TypeInit == Init => TypeInv
<1> SUFFICES ASSUME Init
             PROVE  TypeInv
  OBVIOUS
<1>1. PICK c \in Config :
        LET first == [version |-> 1, hash |-> Store!CalculateHash(c), rollbacks |-> 0,
                      changes |-> NoChanges, config |-> c]
        IN  /\ cfg = c
            /\ ring = Push(MaxVersions, EmptyRing(MaxVersions, NoVersion), first)
            /\ nextVersion = 2
            /\ audit = Push(AuditSize, EmptyRing(AuditSize, None),
                            [type |-> "config_loaded", version |-> 1, actor |-> "system"])
            /\ op = [o \in Ops |-> IdleOp]
            /\ ledger = <<c>>
            /\ calm = [next |-> 2, cfg |-> c]
  BY DEF Init
<1> DEFINE first == [version |-> 1, hash |-> Store!CalculateHash(c), rollbacks |-> 0,
                     changes |-> NoChanges, config |-> c]
           event == [type |-> "config_loaded", version |-> 1, actor |-> "system"]
           empty == EmptyRing(MaxVersions, NoVersion)
<1>2. first \in Store!Entry /\ event \in Events
  BY DEF Store!Entry, Events
<1>3. empty \in RingOf(MaxVersions, NoVersion, Store!Entry)
      /\ EmptyRing(AuditSize, None) \in RingOf(AuditSize, None, Events)
  BY AssumptionsHold DEF EmptyRing, RingOf
<1>4. ring \in RingOf(MaxVersions, NoVersion, Store!Entry) /\ audit \in RingOf(AuditSize, None, Events)
  BY <1>1, <1>2, <1>3, PushType, AssumptionsHold
<1>5. SP!HoldsLast(ring, 2)
  <2>1. SP!HoldsLast(empty, 1)
    BY AssumptionsHold DEF EmptyRing, SP!HoldsLast
  <2>2. SP!HoldsLast(SP!Push(MaxVersions, empty, first), 1 + 1)
    <3>1. empty \in SP!RingOf(MaxVersions, NoVersion, SP!Entry) /\ first \in SP!Entry
      BY <1>2, <1>3, SameEntries DEF SP!RingOf, RingOf
    <3>2. first.version = 1 /\ 1 \in Nat \ {0}
      OBVIOUS
    <3> HIDE DEF first, empty
    <3>3. QED
      BY <2>1, <3>1, <3>2, AssumptionsHold, SP!PushHoldsLast
  <2>3. SP!Push(MaxVersions, empty, first) = ring
    BY <1>1 DEF SP!Push, Push
  <2>4. QED
    BY <2>2, <2>3
<1>6. StoreInv
  BY <1>1, <1>4, <1>5, SameInvariant, SameEntries
  DEF SP!IInv, SP!TypeOK, SP!Consecutive, SP!RingOf, RingOf
<1>7. ledger \in Seq(Config) /\ Len(ledger) = nextVersion - 1
  BY <1>1
<1>8. IdleOp \in OpRecords /\ Equipped(IdleOp)
  BY DEF IdleOp, OpRecords, Equipped
<1>9. QED
  BY <1>1, <1>4, <1>6, <1>7, <1>8 DEF TypeInv

-----------------------------------------------------------------------------
(* The ledger                                                              *)

(* Each retained version has the configuration it was recorded for.        *)
LedgerInv ==
  \A i \in 0 .. ring.count - 1 :
    Nth(MaxVersions, ring, i).config = ledger[nextVersion - 1 - i]

(* What is looked up is what was recorded.                                 *)
LEMMA GetIsLedger ==
  ASSUME TypeInv, LedgerInv, NEW v \in Int
  PROVE  IF nextVersion - ring.count <= v /\ v < nextVersion
           THEN Store!Get(v) # NoVersion /\ Store!Get(v).config = ledger[v] /\ v \in 1 .. nextVersion - 1
           ELSE Store!Get(v) = NoVersion
<1>1. /\ nextVersion \in Nat \ {0}
      /\ ring.count = IF nextVersion <= MaxVersions THEN nextVersion - 1 ELSE MaxVersions
      /\ Store!Get(v) = IF nextVersion - ring.count <= v /\ v < nextVersion
                          THEN Nth(MaxVersions, ring, nextVersion - 1 - v)
                          ELSE NoVersion
      /\ nextVersion - ring.count <= v /\ v < nextVersion =>
           Nth(MaxVersions, ring, nextVersion - 1 - v) # NoVersion
  BY GetIsWindow DEF TypeInv
<1>2. CASE nextVersion - ring.count <= v /\ v < nextVersion
  <2>1. nextVersion - 1 - v \in 0 .. ring.count - 1 /\ nextVersion - 1 - (nextVersion - 1 - v) = v
        /\ v \in 1 .. nextVersion - 1
    BY <1>1, <1>2, AssumptionsHold
  <2>2. QED
    BY <1>1, <1>2, <2>1 DEF LedgerInv
<1>3. QED
  BY <1>1, <1>2

LEMMA LedgerInit == Init => LedgerInv
<1> SUFFICES ASSUME Init
             PROVE  LedgerInv
  OBVIOUS
<1>1. TypeInv
  BY TypeInit
<1>2. PICK e : /\ ring = Push(MaxVersions, EmptyRing(MaxVersions, NoVersion), e)
               /\ ledger = <<e.config>> /\ nextVersion = 2
  BY DEF Init
<1>3. EmptyRing(MaxVersions, NoVersion) \in RingOf(MaxVersions, NoVersion, Store!Entry)
  BY AssumptionsHold DEF EmptyRing, RingOf
<1>4. Nth(MaxVersions, ring, 0) = e
  BY <1>2, <1>3, PushShifts, AssumptionsHold
<1>5. ring.count = 1
  BY <1>2, AssumptionsHold DEF Push, EmptyRing
<1>6. QED
  BY <1>2, <1>4, <1>5 DEF LedgerInv

LEMMA LedgerStep ==
  ASSUME TypeInv, LedgerInv, [Next]_vars
  PROVE  LedgerInv'
<1>1. /\ nextVersion \in Nat \ {0} /\ ring \in RingOf(MaxVersions, NoVersion, Store!Entry)
      /\ ring.count \in 0 .. MaxVersions
      /\ ring.count = IF nextVersion <= MaxVersions THEN nextVersion - 1 ELSE MaxVersions
  BY GetIsWindow DEF TypeInv, RingOf
<1>2. ASSUME NEW o \in Ops, NEW e \in Store!Entry, Records(o, e)
      PROVE  LedgerInv'
  <2>1. /\ Nth(MaxVersions, ring', 0) = e
        /\ \A i \in 1 .. MaxVersions - 1 : Nth(MaxVersions, ring', i) = Nth(MaxVersions, ring, i - 1)
    BY <1>1, <1>2, PushShifts, AssumptionsHold DEF Records
  <2>2. ring'.count = IF ring.count < MaxVersions THEN ring.count + 1 ELSE ring.count
    BY <1>2 DEF Records, Push
  <2>3. e.config \in Config
    BY DEF Store!Entry
  <2>4. /\ ledger'[nextVersion] = e.config
        /\ \A v \in 1 .. nextVersion - 1 : ledger'[v] = ledger[v]
    BY <1>1, <1>2, <2>3, AppendProperties DEF Records, TypeInv
  <2>5. ASSUME NEW i \in 0 .. ring'.count - 1
        PROVE  Nth(MaxVersions, ring', i).config = ledger'[nextVersion' - 1 - i]
    <3>1. nextVersion' - 1 - i = nextVersion - i
      BY <1>1, <1>2 DEF Records
    <3>2. CASE i = 0
      BY <1>1, <2>1, <2>4, <3>1, <3>2
    <3>3. CASE i # 0
      <4>1. /\ i \in 1 .. MaxVersions - 1 /\ i - 1 \in 0 .. ring.count - 1
            /\ nextVersion - 1 - (i - 1) = nextVersion - i /\ nextVersion - i \in 1 .. nextVersion - 1
        BY <1>1, <2>2, <3>3, AssumptionsHold
      <4>2. Nth(MaxVersions, ring, i - 1).config = ledger[nextVersion - i]
        BY <4>1 DEF LedgerInv
      <4>3. QED
        BY <2>1, <2>4, <3>1, <4>1, <4>2
    <3>4. QED
      BY <3>2, <3>3
  <2>6. QED
    BY <2>5 DEF LedgerInv, Nth, SlotOf
<1>3. ASSUME UNCHANGED <<store, ledger>>
      PROVE  LedgerInv'
  BY <1>3 DEF LedgerInv, store, Nth, SlotOf
<1>4. QED
  BY <1>2, <1>3, StepKinds DEF Logs, Proceeds

LEMMA LedgerIsKept == Spec => [](TypeInv /\ LedgerInv)
<1>1. Init => TypeInv /\ LedgerInv
  BY TypeInit, LedgerInit
<1>2. (TypeInv /\ LedgerInv) /\ [Next]_vars => (TypeInv /\ LedgerInv)'
  BY TypeStep, LedgerStep
<1>3. QED
  BY <1>1, <1>2, PTL DEF Spec

(* However many reloads and rollbacks interleave, and whatever each of     *)
(* them read before, exactly the last MaxVersions versions can be looked   *)
(* up and each has the configuration it was recorded for (ReloadConfig     *)
(* line 738, handleRollback lines 1024-1033).                              *)
THEOREM LedgerIsFaithful == Spec => []LedgerAgrees
<1>1. TypeInv /\ LedgerInv => LedgerAgrees
  <2> SUFFICES ASSUME TypeInv, LedgerInv
               PROVE  LedgerAgrees
    OBVIOUS
  <2>1. /\ nextVersion \in Nat \ {0}
        /\ ring.count = IF nextVersion <= MaxVersions THEN nextVersion - 1 ELSE MaxVersions
    BY GetIsWindow DEF TypeInv
  <2>2. ASSUME NEW v \in 1 .. nextVersion - 1
        PROVE  IF v >= nextVersion - MaxVersions
                 THEN Store!Get(v) # NoVersion /\ Store!Get(v).config = ledger[v]
                 ELSE Store!Get(v) = NoVersion
    <3>1. v >= nextVersion - MaxVersions <=> nextVersion - ring.count <= v /\ v < nextVersion
      BY <2>1, AssumptionsHold
    <3>2. QED
      BY <3>1, GetIsLedger
  <2>3. QED
    BY <2>2 DEF LedgerAgrees, TypeInv
<1>2. QED
  BY <1>1, LedgerIsKept, PTL

(* The server writes to its store only as VersionStore's Add and Rollback  *)
(* do, so it is that store, and what is proved of the store's steps, its   *)
(* immutable history and its sliding window, holds inside the server.      *)
THEOREM StoreIsVersionStore == Spec => [][Store!Next]_store
<1>1. ASSUME TypeInv, [Next]_vars
      PROVE  [Store!Next]_store
  <2>1. ASSUME NEW o \in Ops, ReloadAdd(o) \/ RollbackStore(o)
        PROVE  Store!Next
    BY <1>1, <2>1, ReloadAddRecords, RollbackStoreRecords
  <2>2. (\E o \in Ops : ReloadAdd(o) \/ RollbackStore(o)) \/ UNCHANGED store
    BY <1>1, StepKinds DEF Logs, Proceeds
  <2>3. QED
    BY <2>1, <2>2
<1>2. QED
  BY <1>1, LedgerIsKept, PTL DEF Spec

-----------------------------------------------------------------------------
(* Versions that are recorded but not logged yet                           *)

Pending(p) == op[p].pc \in {"added", "rolledBack", "restored"}

PendingInv ==
  /\ calm.next \in 2 .. nextVersion
  /\ \A p \in Ops :
       Pending(p) =>
         /\ op[p].entry.version \in calm.next .. nextVersion - 1
         /\ ledger[op[p].entry.version] = op[p].entry.config
         /\ op[p].pc # "added" =>
              /\ op[p].target \in 1 .. op[p].entry.version - 1
              /\ op[p].entry.config = ledger[op[p].target]

(* The steps that neither record nor log leave what is pending alone.      *)
LEMMA OthersKeepPending ==
  ASSUME TypeInv, NEW o \in Ops, Other(o), NEW p \in Ops
  PROVE  /\ Pending(p)' <=> Pending(p)
         /\ Pending(p) => /\ op'[p].entry = op[p].entry /\ op'[p].target = op[p].target
                          /\ op'[p].actor = op[p].actor
                          /\ op'[p].pc = "added" <=> op[p].pc = "added"
<1> USE DEF OpRecords, Pending, IdleOp
<1>0. op \in [Ops -> OpRecords] /\ op[p] \in OpRecords
  BY DEF TypeInv
<1>1. CASE Load(o)
  BY <1>0, <1>1 DEF Load
<1>2. CASE RollbackLookup(o)
  BY <1>0, <1>2 DEF RollbackLookup
<1>2a. CASE LoadFails(o)
  BY <1>0, <1>2a DEF LoadFails
<1>3. CASE RollbackRefused(o) \/ Denied(o)
  BY <1>0, <1>3 DEF RollbackRefused, Denied
<1>4. CASE ReloadSwap(o) \/ SetRulesGauge(o) \/ ResetInfo(o)
  BY <1>0, <1>4 DEF ReloadSwap, SetRulesGauge, ResetInfo
<1>5. CASE SetInfo(o) \/ RollbackEvicted(o)
  BY <1>0, <1>5 DEF SetInfo, RollbackEvicted
<1>6. CASE RollbackSwap(o)
  BY <1>0, <1>6 DEF RollbackSwap
<1>7. QED
  BY <1>1, <1>2, <1>2a, <1>3, <1>4, <1>5, <1>6 DEF Other

LEMMA PendingInit == Init => PendingInv
  BY DEF Init, PendingInv, Pending, IdleOp

LEMMA PendingStep ==
  ASSUME TypeInv, LedgerInv, PendingInv, [Next]_vars
  PROVE  PendingInv'
<1>1. /\ nextVersion \in Nat \ {0} /\ Len(ledger) = nextVersion - 1 /\ ledger \in Seq(Config)
      /\ op \in [Ops -> OpRecords] /\ calm.next \in 2 .. nextVersion
      /\ calm \in [next : Nat, cfg : Config]
  BY GetIsWindow DEF TypeInv, PendingInv
<1>2. ASSUME NEW o \in Ops, NEW e \in Store!Entry, Records(o, e)
      PROVE  PendingInv'
  <2>1. e.config \in Config
    BY DEF Store!Entry
  <2>2. /\ ledger'[nextVersion] = e.config
        /\ \A v \in 1 .. nextVersion - 1 : ledger'[v] = ledger[v]
    BY <1>1, <1>2, <2>1, AppendProperties DEF Records
  <2>3. nextVersion' = nextVersion + 1 /\ calm' = calm /\ e.version = nextVersion
    BY <1>2 DEF Records
  <2>4. ASSUME NEW p \in Ops, p # o, Pending(p)'
        PROVE  /\ op'[p].entry.version \in calm'.next .. nextVersion' - 1
               /\ ledger'[op'[p].entry.version] = op'[p].entry.config
               /\ op'[p].pc # "added" =>
                    /\ op'[p].target \in 1 .. op'[p].entry.version - 1
                    /\ op'[p].entry.config = ledger'[op'[p].target]
    <3>1. op'[p] = op[p]
      BY <1>1, <1>2, <2>4 DEF Records
    <3>2. Pending(p)
      BY <2>4, <3>1 DEF Pending
    <3>3. op[p].entry.version \in 1 .. nextVersion - 1
      BY <1>1, <3>2 DEF PendingInv
    <3>4. QED
      BY <1>1, <2>2, <2>3, <3>1, <3>2, <3>3 DEF PendingInv
  <2>5. /\ op'[o].entry = e /\ op'[o].target = op[o].target
        /\ op'[o].pc = IF op[o].pc = "found" THEN "rolledBack" ELSE "added"
    BY <1>1, <1>2 DEF Records, OpRecords
  <2>6. op[o].pc = "found" => op[o].target \in 1 .. nextVersion - 1 /\ e.config = ledger[op[o].target]
    <3>1. SUFFICES ASSUME op[o].pc = "found"
                   PROVE  op[o].target \in 1 .. nextVersion - 1 /\ e.config = ledger[op[o].target]
      OBVIOUS
    <3>2. op[o].target \in Int
      BY <1>1 DEF OpRecords
    <3>3. Store!Get(op[o].target) # NoVersion /\ e.config = Store!Get(op[o].target).config
      BY <1>2, <3>1 DEF Records
    <3>4. QED
      BY <3>2, <3>3, GetIsLedger
  <2>7. /\ op'[o].entry.version \in calm'.next .. nextVersion' - 1
        /\ ledger'[op'[o].entry.version] = op'[o].entry.config
        /\ op'[o].pc # "added" =>
             /\ op'[o].target \in 1 .. op'[o].entry.version - 1
             /\ op'[o].entry.config = ledger'[op'[o].target]
    BY <1>1, <2>2, <2>3, <2>5, <2>6
  <2>8. calm'.next \in 2 .. nextVersion'
    BY <1>1, <2>3
  <2>9. QED
    BY <2>4, <2>7, <2>8 DEF PendingInv
<1>3. ASSUME NEW o \in Ops, Logs(o)
      PROVE  PendingInv'
  <2>1. \A p \in Ops : p # o => op'[p] = op[p]
    BY <1>1, <1>3 DEF Logs
  <2>2. op'[o].pc \in {"audited", "idle"}
    BY <1>1, <1>3 DEF Logs, IdleOp, OpRecords
  <2>3. QED
    BY <1>3, <2>1, <2>2 DEF PendingInv, Pending, Logs, store
<1>4. ASSUME NEW o \in Ops, Other(o), Proceeds(o)
      PROVE  PendingInv'
  <2>1. UNCHANGED <<nextVersion, ledger>>
    BY <1>4 DEF Proceeds, store
  <2>2. CASE calm' = calm
    BY <1>4, <2>1, <2>2, OthersKeepPending DEF PendingInv
  <2>3. CASE AllIdle /\ calm' = [next |-> nextVersion, cfg |-> cfg]
    <3>1. \A p \in Ops : ~Pending(p)'
      BY <1>4, <2>3, OthersKeepPending DEF AllIdle, Pending
    <3>2. calm'.next \in 2 .. nextVersion'
      BY <1>1, <2>1, <2>3
    <3>3. QED
      BY <3>1, <3>2 DEF PendingInv
  <2>4. QED
    BY <1>4, <2>2, <2>3, CalmMoves
<1>5. ASSUME UNCHANGED <<cfg, store, audit, gauges, op, ledger, calm>>
      PROVE  PendingInv'
  BY <1>5 DEF PendingInv, Pending, store
<1>6. QED
  BY <1>2, <1>3, <1>4, <1>5, StepKinds

Core == TypeInv /\ LedgerInv /\ PendingInv

LEMMA CoreIsKept == Spec => []Core
<1>1. Init => Core
  BY TypeInit, LedgerInit, PendingInit DEF Core
<1>2. Core /\ [Next]_vars => Core'
  BY TypeStep, LedgerStep, PendingStep DEF Core
<1>3. QED
  BY <1>1, <1>2, PTL DEF Spec

(* A rollback installs and records the configuration that the version it   *)
(* found had, under a later number of its own, although others may record  *)
(* and evict versions between its look-up and its write (handleRollback    *)
(* lines 1024-1053).                                                       *)
THEOREM RollbacksRestore == Spec => []RollbackRestores
<1>1. Core => RollbackRestores
  <2> SUFFICES ASSUME Core, NEW o \in Ops, op[o].pc \in {"rolledBack", "restored"}
               PROVE  /\ op[o].entry.config = ledger[op[o].target]
                      /\ op[o].entry.version > op[o].target
                      /\ ledger[op[o].entry.version] = op[o].entry.config
    BY DEF RollbackRestores
  <2>1. Pending(o) /\ op[o].pc # "added"
    BY DEF Pending
  <2>2. op[o].entry.version \in Nat
    BY GetIsWindow, <2>1 DEF Core, PendingInv, TypeInv
  <2>3. QED
    BY <2>1, <2>2 DEF Core, PendingInv
<1>2. QED
  BY <1>1, CoreIsKept, PTL

-----------------------------------------------------------------------------
(* What is served                                                          *)

(* Nothing has been replaced since the last calm moment.                   *)
Settled ==
  /\ nextVersion = calm.next /\ cfg = calm.cfg
  /\ \A o \in Ops : op[o].pc # "swapped"

(* Or what is served has been recorded since, or soon will be.             *)
ServingInv ==
  \/ Settled
  \/ \E v \in calm.next .. nextVersion - 1 : cfg = ledger[v]
  \/ \E o \in Ops : op[o].pc = "swapped" /\ op[o].cfg = cfg
  \/ \E o \in Ops : op[o].pc = "rolledBack"

LEMMA OthersKeepServing ==
  ASSUME TypeInv, NEW o \in Ops, Other(o), ~ReloadSwap(o), ~RollbackSwap(o)
  PROVE  /\ cfg' = cfg
         /\ \A p \in Ops : {op[p].pc, op'[p].pc} \intersect {"swapped", "rolledBack"} # {} =>
                             op'[p] = op[p]
<1> USE DEF OpRecords, IdleOp
<1>0. op \in [Ops -> OpRecords]
  BY DEF TypeInv
<1>1. CASE Load(o)
  BY <1>0, <1>1 DEF Load
<1>2. CASE RollbackLookup(o)
  BY <1>0, <1>2 DEF RollbackLookup
<1>3. CASE LoadFails(o)
  BY <1>0, <1>3 DEF LoadFails
<1>4. CASE RollbackRefused(o) \/ Denied(o)
  BY <1>0, <1>4 DEF RollbackRefused, Denied
<1>5. CASE SetRulesGauge(o) \/ ResetInfo(o)
  BY <1>0, <1>5 DEF SetRulesGauge, ResetInfo
<1>6. CASE SetInfo(o) \/ RollbackEvicted(o)
  BY <1>0, <1>6 DEF SetInfo, RollbackEvicted
<1>7. QED
  BY <1>1, <1>2, <1>3, <1>4, <1>5, <1>6 DEF Other

LEMMA ServingInit == Init => ServingInv
  BY DEF Init, ServingInv, Settled, IdleOp

LEMMA ServingStep ==
  ASSUME Core, ServingInv, [Next]_vars
  PROVE  ServingInv'
<1>1. /\ nextVersion \in Nat \ {0} /\ Len(ledger) = nextVersion - 1 /\ ledger \in Seq(Config)
      /\ op \in [Ops -> OpRecords] /\ calm.next \in 2 .. nextVersion /\ TypeInv
  BY GetIsWindow DEF Core, TypeInv, PendingInv
<1>2. ASSUME NEW o \in Ops, NEW e \in Store!Entry, Records(o, e)
      PROVE  ServingInv'
  <2>1. e.config \in Config
    BY DEF Store!Entry
  <2>2. /\ ledger'[nextVersion] = e.config
        /\ \A v \in 1 .. nextVersion - 1 : ledger'[v] = ledger[v]
    BY <1>1, <1>2, <2>1, AppendProperties DEF Records
  <2>3. nextVersion' = nextVersion + 1 /\ calm' = calm /\ cfg' = cfg
    BY <1>2 DEF Records
  <2>4. \A p \in Ops : p # o => op'[p] = op[p]
    BY <1>1, <1>2 DEF Records
  <2>5. CASE op[o].pc = "found"
    <3>1. op'[o].pc = "rolledBack"
      BY <1>1, <1>2, <2>5 DEF Records, OpRecords
    <3>2. QED
      BY <3>1 DEF ServingInv
  <2>6. CASE op[o].pc = "swapped"
    <3>1. e.config = op[o].cfg
      BY <1>2, <2>6 DEF Records
    <3>2. CASE cfg = op[o].cfg
      <4>1. nextVersion \in calm.next' .. nextVersion' - 1 /\ cfg' = ledger'[nextVersion]
        BY <1>1, <2>2, <2>3, <3>1, <3>2
      <4>2. QED
        BY <4>1 DEF ServingInv
    <3>3. CASE \E v \in calm.next .. nextVersion - 1 : cfg = ledger[v]
      <4>1. PICK v \in calm.next .. nextVersion - 1 : cfg = ledger[v]
        BY <3>3
      <4>2. v \in calm.next' .. nextVersion' - 1 /\ cfg' = ledger'[v]
        BY <1>1, <2>2, <2>3, <4>1
      <4>3. QED
        BY <4>2 DEF ServingInv
    <3>4. CASE \E p \in Ops : p # o /\ op[p].pc = "swapped" /\ op[p].cfg = cfg
      BY <2>3, <2>4, <3>4 DEF ServingInv
    <3>5. CASE \E p \in Ops : op[p].pc = "rolledBack"
      BY <2>4, <2>6, <3>5 DEF ServingInv
    <3>6. QED
      BY <2>6, <3>2, <3>3, <3>4, <3>5 DEF ServingInv, Settled
  <2>7. QED
    BY <1>2, <2>5, <2>6 DEF Records
<1>3. ASSUME NEW o \in Ops, Logs(o)
      PROVE  ServingInv'
  <2>1. \A p \in Ops : p # o => op'[p] = op[p]
    BY <1>1, <1>3 DEF Logs
  <2>2. op'[o].pc \in {"audited", "idle"} /\ op[o].pc \in {"added", "restored"}
    BY <1>1, <1>3 DEF Logs, IdleOp, OpRecords
  <2>3. UNCHANGED <<nextVersion, calm, cfg, ledger>>
    BY <1>3 DEF Logs, store
  <2>4. Settled => Settled'
    BY <2>1, <2>2, <2>3 DEF Settled
  <2>5. \A p \in Ops : op[p].pc \in {"swapped", "rolledBack"} => op'[p] = op[p]
    BY <2>1, <2>2
  <2>6. QED
    BY <2>3, <2>4, <2>5 DEF ServingInv
<1>4. ASSUME NEW o \in Ops, Other(o), Proceeds(o)
      PROVE  ServingInv'
  <2>1. UNCHANGED <<nextVersion, ledger>>
    BY <1>4 DEF Proceeds, store
  <2>2. CASE ReloadSwap(o)
    <3>1. cfg' = op[o].cfg /\ op'[o].pc = "swapped" /\ op'[o].cfg = op[o].cfg
      BY <1>1, <2>2 DEF ReloadSwap, Swap, OpRecords
    <3>2. QED
      BY <3>1 DEF ServingInv
  <2>3. CASE RollbackSwap(o)
    <3>1. cfg' = op[o].entry.config /\ calm' = calm /\ Pending(o)
      BY <2>3 DEF RollbackSwap, Swap, Pending
    <3>2. /\ op[o].entry.version \in calm.next .. nextVersion - 1
          /\ ledger[op[o].entry.version] = op[o].entry.config
      BY <3>1 DEF Core, PendingInv
    <3>3. QED
      BY <2>1, <3>1, <3>2 DEF ServingInv
  <2>4. CASE ~ReloadSwap(o) /\ ~RollbackSwap(o)
    <3>1. /\ cfg' = cfg
          /\ \A p \in Ops : {op[p].pc, op'[p].pc} \intersect {"swapped", "rolledBack"} # {} =>
                              op'[p] = op[p]
      BY <1>1, <1>4, <2>4, OthersKeepServing
    <3>2. CASE calm' = calm
      <4>1. Settled => Settled'
        BY <2>1, <3>1, <3>2 DEF Settled
      <4>2. \A p \in Ops : op[p].pc \in {"swapped", "rolledBack"} => op'[p] = op[p]
        BY <3>1
      <4>3. QED
        BY <2>1, <3>1, <3>2, <4>1, <4>2 DEF ServingInv
    <3>3. CASE AllIdle /\ calm' = [next |-> nextVersion, cfg |-> cfg]
      <4>1. \A p \in Ops : op'[p].pc # "swapped"
        BY <3>1, <3>3 DEF AllIdle
      <4>2. QED
        BY <2>1, <3>1, <3>3, <4>1 DEF ServingInv, Settled
    <3>4. QED
      BY <1>4, <3>2, <3>3, CalmMoves
  <2>5. QED
    BY <2>2, <2>3, <2>4
<1>5. ASSUME UNCHANGED <<cfg, store, audit, gauges, op, ledger, calm>>
      PROVE  ServingInv'
  BY <1>5 DEF ServingInv, Settled, store
<1>6. QED
  BY <1>1, <1>2, <1>3, <1>4, <1>5, StepKinds

LEMMA ServingIsBounded == Core /\ ServingInv => DivergenceBounded
<1> SUFFICES ASSUME Core, ServingInv, AllIdle
             PROVE  IF nextVersion = calm.next
                      THEN cfg = calm.cfg
                      ELSE \E v \in calm.next .. nextVersion - 1 : cfg = ledger[v]
  BY DEF DivergenceBounded
<1>1. nextVersion \in Nat /\ calm.next \in Nat
  BY GetIsWindow DEF Core, TypeInv, PendingInv
<1>2. Settled \/ \E v \in calm.next .. nextVersion - 1 : cfg = ledger[v]
  BY DEF ServingInv, AllIdle
<1>3. QED
  BY <1>1, <1>2 DEF Settled

LEMMA ServingIsKept == Spec => [](Core /\ ServingInv)
<1>1. Core /\ ServingInv /\ [Next]_vars => ServingInv'
  BY ServingStep
<1>2. QED
  BY <1>1, ServingInit, CoreIsKept, PTL DEF Spec

(* Once the operations that overlapped have finished, what is served was   *)
(* recorded by one of them, or it is what was served before when none      *)
(* recorded anything: no older configuration comes back by accident        *)
(* (ReloadConfig lines 732-735, handleRollback lines 1050-1053).           *)
THEOREM DivergenceIsBounded == Spec => []DivergenceBounded
  BY ServingIsKept, ServingIsBounded, PTL

-----------------------------------------------------------------------------
(* What is served, recorded and logged                                     *)

LogsLast(v) == Newest(audit, None).version = v

(* While no version is recorded no operation is past its write, and those  *)
(* that found a version will find it again; before any operation, and      *)
(* after one that recorded alone, the three agree.                         *)
AgreementInv ==
  /\ infoGauge # {} \/ \E o \in Ops : op[o].pc = "reset"
  /\ nextVersion = calm.next =>
       \A o \in Ops : \/ op[o].pc \in {"idle", "loaded", "swapped"}
                      \/ /\ op[o].pc = "found"
                         /\ op[o].target \in nextVersion - ring.count .. nextVersion - 1
  /\ nextVersion = calm.next /\ AllIdle => cfg = ledger[nextVersion - 1] /\ LogsLast(nextVersion - 1)
  /\ nextVersion = calm.next + 1 => (\E o \in Ops : Pending(o)) \/ LogsLast(calm.next)

LEMMA AgreementInit == Init => AgreementInv
<1> SUFFICES ASSUME Init
             PROVE  AgreementInv
  OBVIOUS
<1>1. PICK c \in Config : /\ cfg = c /\ ledger = <<c>> /\ nextVersion = 2 /\ calm = [next |-> 2, cfg |-> c]
                          /\ op = [o \in Ops |-> IdleOp]
  BY DEF Init
<1>2. PICK e : audit = Push(AuditSize, EmptyRing(AuditSize, None), e) /\ e.version = 1
  BY DEF Init
<1>3. infoGauge # {}
  BY DEF Init
<1>4. 1 % AuditSize \in 0 .. AuditSize - 1
  BY AssumptionsHold
<1>5. LogsLast(1)
  BY <1>2, <1>4, AssumptionsHold DEF LogsLast, Newest, Push, EmptyRing
<1>6. QED
  BY <1>1, <1>3, <1>5 DEF AgreementInv, IdleOp

(* An operation gets past its write only by recording, and then ends only  *)
(* by logging or by setting the gauge.                                     *)
LEMMA OthersBegin ==
  ASSUME Core, AgreementInv, NEW o \in Ops, Other(o), nextVersion = calm.next
  PROVE  /\ \A p \in Ops : p # o => op'[p] = op[p]
         /\ \/ op'[o].pc \in {"loaded", "swapped"}
            \/ op'[o].pc = "found" /\ op'[o].target \in nextVersion - ring.count .. nextVersion - 1
            \/ op'[o].pc = "idle" /\ op[o].pc = "idle" /\ UNCHANGED cfg
<1> USE DEF OpRecords, IdleOp
<1>0. /\ op \in [Ops -> OpRecords] /\ TypeInv /\ LedgerInv
      /\ \/ op[o].pc \in {"idle", "loaded", "swapped"}
         \/ op[o].pc = "found" /\ op[o].target \in nextVersion - ring.count .. nextVersion - 1
  BY DEF Core, TypeInv, AgreementInv
<1>1. CASE Load(o)
  BY <1>0, <1>1 DEF Load
<1>2. CASE RollbackLookup(o)
  <2>1. PICK v \in 1 .. nextVersion - 1 :
          /\ Store!Get(v) # NoVersion
          /\ \E actor \in MayRollBack :
               op' = [op EXCEPT ![o] = [IdleOp EXCEPT !.pc = "found", !.target = v, !.actor = actor]]
    BY <1>2 DEF RollbackLookup
  <2>2. nextVersion - ring.count <= v /\ v < nextVersion
    BY <1>0, <2>1, GetIsLedger
  <2>3. v \in nextVersion - ring.count .. nextVersion - 1
    BY <2>1, <2>2
  <2>4. QED
    BY <1>0, <2>1, <2>3
<1>3. CASE LoadFails(o)
  BY <1>0, <1>3 DEF LoadFails
<1>4. CASE RollbackRefused(o) \/ Denied(o)
  BY <1>0, <1>4 DEF RollbackRefused, Denied
<1>5. CASE ReloadSwap(o)
  BY <1>0, <1>5 DEF ReloadSwap
<1>6. CASE SetRulesGauge(o) \/ ResetInfo(o) \/ SetInfo(o) \/ RollbackSwap(o)
  BY <1>0, <1>6 DEF SetRulesGauge, ResetInfo, SetInfo, RollbackSwap
<1>7. CASE RollbackEvicted(o)
  <2>1. op[o].pc = "found" /\ Store!Get(op[o].target) = NoVersion /\ op[o].target \in Int
    BY <1>0, <1>7 DEF RollbackEvicted
  <2>2. nextVersion - ring.count <= op[o].target /\ op[o].target < nextVersion
    BY <1>0, <2>1, GetIsWindow DEF TypeInv
  <2>3. QED
    BY <1>0, <2>1, <2>2, GetIsLedger
<1>8. QED
  BY <1>1, <1>2, <1>3, <1>4, <1>5, <1>6, <1>7 DEF Other

LEMMA OthersKeepGauge ==
  ASSUME TypeInv, NEW o \in Ops, Other(o), infoGauge # {} \/ \E p \in Ops : op[p].pc = "reset"
  PROVE  infoGauge' # {} \/ \E p \in Ops : op'[p].pc = "reset"
<1> USE DEF OpRecords, IdleOp
<1>0. op \in [Ops -> OpRecords]
  BY DEF TypeInv
<1>1. CASE ResetInfo(o)
  BY <1>0, <1>1 DEF ResetInfo
<1>2. CASE SetInfo(o)
  BY <1>2 DEF SetInfo
<1>3. CASE ~ResetInfo(o) /\ ~SetInfo(o)
  <2>1. infoGauge' = infoGauge /\ op[o].pc # "reset"
    BY <1>0, <1>3
    DEF Other, Load, LoadFails, ReloadSwap, SetRulesGauge, RollbackLookup, RollbackRefused, Denied,
        RollbackEvicted, RollbackSwap, gauges
  <2>2. \A p \in Ops : p # o => op'[p] = op[p]
    BY <1>0, OthersProceed DEF Proceeds
  <2>3. QED
    BY <2>1, <2>2
<1>4. QED
  BY <1>1, <1>2, <1>3

LEMMA AgreementStep ==
  ASSUME Core, AgreementInv, [Next]_vars
  PROVE  AgreementInv'
<1>1. /\ nextVersion \in Nat \ {0} /\ calm.next \in 2 .. nextVersion
      /\ op \in [Ops -> OpRecords] /\ TypeInv /\ audit \in RingOf(AuditSize, None, Events)
  BY GetIsWindow DEF Core, TypeInv, PendingInv
<1>2. ASSUME NEW o \in Ops, NEW e \in Store!Entry, Records(o, e)
      PROVE  AgreementInv'
  <2>1. nextVersion' = nextVersion + 1 /\ calm' = calm /\ infoGauge' = infoGauge
    BY <1>2 DEF Records, gauges
  <2>2. Pending(o)' /\ op[o].pc # "reset" /\ \A p \in Ops : p # o => op'[p] = op[p]
    BY <1>1, <1>2 DEF Records, Pending, OpRecords
  <2>3. infoGauge' # {} \/ \E p \in Ops : op'[p].pc = "reset"
    BY <2>1, <2>2 DEF AgreementInv
  <2>4. nextVersion' # calm'.next
    BY <1>1, <2>1
  <2>5. QED
    BY <2>2, <2>3, <2>4 DEF AgreementInv
<1>3. ASSUME NEW o \in Ops, Logs(o)
      PROVE  AgreementInv'
  <2>1. Pending(o) /\ op[o].pc # "reset" /\ \A p \in Ops : p # o => op'[p] = op[p]
    BY <1>1, <1>3 DEF Logs, Pending
  <2>2. UNCHANGED <<nextVersion, calm, infoGauge>>
    BY <1>3 DEF Logs, store, gauges
  <2>3. infoGauge' # {} \/ \E p \in Ops : op'[p].pc = "reset"
    BY <2>1, <2>2 DEF AgreementInv
  <2>4. op[o].entry.version \in calm.next .. nextVersion - 1
    BY <2>1 DEF Core, PendingInv
  <2>5. nextVersion' # calm'.next
    BY <1>1, <2>2, <2>4
  <2>6. ASSUME nextVersion' = calm'.next + 1
        PROVE  LogsLast(calm.next)'
    <3>1. op[o].entry.version = calm.next
      BY <1>1, <2>2, <2>4, <2>6
    <3>2. PICK e \in Events : /\ e.version = calm.next
                              /\ audit' = Push(AuditSize, audit, e)
      BY <1>3, <3>1 DEF Logs
    <3>3. audit'.count # 0 /\ audit'.slots[audit'.current] = e
      <4>1. Nth(AuditSize, audit', 0) = e /\ audit' \in RingOf(AuditSize, None, Events)
        BY <1>1, <3>2, PushShifts, PushType, AssumptionsHold
      <4>2. SlotOf(AuditSize, audit', 0) = audit'.current
        BY <4>1, SlotOfWraps, AssumptionsHold DEF RingOf
      <4>3. audit'.count # 0
        BY <1>1, <3>2, AssumptionsHold DEF Push, RingOf
      <4>4. QED
        BY <4>1, <4>2, <4>3 DEF Nth
    <3>4. QED
      BY <2>2, <3>2, <3>3 DEF LogsLast, Newest
  <2>7. QED
    BY <2>2, <2>3, <2>5, <2>6 DEF AgreementInv
<1>4. ASSUME NEW o \in Ops, Other(o), Proceeds(o)
      PROVE  AgreementInv'
  <2>1. UNCHANGED <<ring, nextVersion, ledger, audit>>
    BY <1>4 DEF Proceeds, store
  <2>2. infoGauge' # {} \/ \E p \in Ops : op'[p].pc = "reset"
    BY <1>1, <1>4, OthersKeepGauge DEF AgreementInv
  <2>3. CASE calm' = calm
    <3>1. ASSUME nextVersion = calm.next
          PROVE  /\ \A p \in Ops : \/ op'[p].pc \in {"idle", "loaded", "swapped"}
                                   \/ /\ op'[p].pc = "found"
                                      /\ op'[p].target \in nextVersion - ring.count .. nextVersion - 1
                 /\ AllIdle' => AllIdle /\ cfg' = cfg
      <4>1. /\ \A p \in Ops : p # o => op'[p] = op[p]
            /\ \/ op'[o].pc \in {"loaded", "swapped"}
               \/ op'[o].pc = "found" /\ op'[o].target \in nextVersion - ring.count .. nextVersion - 1
               \/ op'[o].pc = "idle" /\ op[o].pc = "idle" /\ UNCHANGED cfg
        BY <1>4, <3>1, OthersBegin
      <4>2. QED
        BY <3>1, <4>1 DEF AgreementInv, AllIdle
    <3>2. (\E p \in Ops : Pending(p)) => (\E p \in Ops : Pending(p)')
      BY <1>1, <1>4, OthersKeepPending
    <3>3. QED
      BY <2>1, <2>2, <2>3, <3>1, <3>2 DEF AgreementInv, LogsLast, Newest
  <2>4. CASE AllIdle /\ calm' = [next |-> nextVersion, cfg |-> cfg] /\ calm' # calm
    <3>1. Load(o) \/ RollbackLookup(o)
      BY <1>4, <2>4
      DEF Other, LoadFails, ReloadSwap, SetRulesGauge, ResetInfo, SetInfo, RollbackRefused,
          Denied, RollbackEvicted, RollbackSwap
    <3>2. \A p \in Ops : p # o => op'[p].pc = "idle"
      BY <1>1, <1>4, <2>4 DEF Proceeds, AllIdle
    <3>3. /\ op'[o].pc \in {"loaded", "found"}
          /\ op'[o].pc = "found" => op'[o].target \in nextVersion - ring.count .. nextVersion - 1
      <4>1. CASE Load(o)
        BY <1>1, <4>1 DEF Load, IdleOp
      <4>2. CASE RollbackLookup(o)
        <5>1. PICK v \in 1 .. nextVersion - 1 :
                /\ Store!Get(v) # NoVersion
                /\ \E actor \in MayRollBack :
                     op' = [op EXCEPT ![o] = [IdleOp EXCEPT !.pc = "found", !.target = v, !.actor = actor]]
          BY <4>2 DEF RollbackLookup
        <5>2. nextVersion - ring.count <= v /\ v < nextVersion
          BY <5>1, GetIsLedger DEF Core
        <5>3. v \in nextVersion - ring.count .. nextVersion - 1
          BY <5>1, <5>2
        <5>4. QED
          BY <1>1, <5>1, <5>3 DEF IdleOp
      <4>3. QED
        BY <3>1, <4>1, <4>2
    <3>4. ~AllIdle' /\ calm'.next = nextVersion'
      BY <2>1, <2>4, <3>3 DEF AllIdle
    <3>5. \A p \in Ops : \/ op'[p].pc \in {"idle", "loaded", "swapped"}
                         \/ /\ op'[p].pc = "found"
                            /\ op'[p].target \in nextVersion' - ring'.count .. nextVersion' - 1
      BY <2>1, <3>2, <3>3
    <3>6. nextVersion' # calm'.next + 1
      BY <1>1, <2>1, <3>4
    <3>7. QED
      BY <2>2, <3>4, <3>5, <3>6 DEF AgreementInv
  <2>5. QED
    BY <1>4, <2>3, <2>4, CalmMoves
<1>5. ASSUME UNCHANGED <<cfg, store, audit, gauges, op, ledger, calm>>
      PROVE  AgreementInv'
  BY <1>5 DEF AgreementInv, AllIdle, LogsLast, Newest, Pending, store, gauges
<1>6. QED
  BY <1>1, <1>2, <1>3, <1>4, <1>5, StepKinds

(* The newest entry of the store is the last of the ledger.                *)
LEMMA CurrentIsLast ==
  ASSUME Core
  PROVE  Store!Current.config = ledger[nextVersion - 1] /\ Store!Current.version = nextVersion - 1
<1>1. /\ nextVersion \in Nat \ {0} /\ nextVersion >= 2
      /\ ring \in RingOf(MaxVersions, NoVersion, Store!Entry) /\ ring.current \in 0 .. MaxVersions - 1
      /\ ring.count = IF nextVersion <= MaxVersions THEN nextVersion - 1 ELSE MaxVersions
  BY GetIsWindow DEF Core, TypeInv, PendingInv, RingOf
<1>2. 0 \in 0 .. ring.count - 1 /\ nextVersion - 1 - 0 = nextVersion - 1
  BY <1>1, AssumptionsHold
<1>3. SlotOf(MaxVersions, ring, 0) = ring.current
  BY <1>1, SlotOfWraps, AssumptionsHold
<1>4. Store!Current = Nth(MaxVersions, ring, 0)
  BY <1>2, <1>3 DEF Store!Current, Store!Newest, Nth
<1>5. Nth(MaxVersions, ring, 0).version = nextVersion - 1
  BY <1>2 DEF Core, TypeInv, StoreInv, Store!Consecutive, Store!HoldsLast, Nth, Store!Nth, SlotOf, Store!SlotOf
<1>6. QED
  BY <1>2, <1>4, <1>5 DEF Core, LedgerInv

(* When of the operations that overlapped at most one recorded a version,  *)
(* the configuration served, the current version and the newest audit      *)
(* event belong together again once all have finished, and the metadata    *)
(* gauge is never left empty (ReloadConfig lines 732-747, handleRollback   *)
(* lines 1024-1062).                                                       *)
THEOREM ViewsAgree == Spec => []Agreement
<1>1. Core /\ ServingInv /\ AgreementInv => Agreement
  <2> SUFFICES ASSUME Core, ServingInv, AgreementInv, AllIdle
               PROVE  /\ infoGauge # {}
                      /\ nextVersion <= calm.next + 1 =>
                           /\ cfg = Store!Current.config
                           /\ Newest(audit, None).version = Store!Current.version
    BY DEF Agreement
  <2>1. nextVersion \in Nat \ {0} /\ calm.next \in 2 .. nextVersion
    BY GetIsWindow DEF Core, TypeInv, PendingInv
  <2>2. infoGauge # {} /\ ~\E o \in Ops : Pending(o)
    BY DEF AgreementInv, AllIdle, Pending
  <2>3. CASE nextVersion = calm.next
    BY <2>2, <2>3, CurrentIsLast DEF AgreementInv, LogsLast
  <2>4. CASE nextVersion = calm.next + 1
    <3>1. \E v \in calm.next .. nextVersion - 1 : cfg = ledger[v]
      BY <2>1, <2>4, ServingIsBounded DEF DivergenceBounded
    <3>2. cfg = ledger[calm.next] /\ nextVersion - 1 = calm.next
      BY <2>1, <2>4, <3>1
    <3>3. QED
      BY <2>2, <2>4, <3>2, CurrentIsLast DEF AgreementInv, LogsLast
  <2>5. QED
    BY <2>1, <2>2, <2>3, <2>4
<1>2. Core /\ AgreementInv /\ [Next]_vars => AgreementInv'
  BY AgreementStep
<1>3. QED
  BY <1>1, <1>2, AgreementInit, ServingIsKept, PTL DEF Spec

-----------------------------------------------------------------------------
(* The audit log                                                           *)

Logged(i) == Nth(AuditSize, audit, i).version

(* Each version is logged or pending once, and in one of the two ways; as  *)
(* long as the log has not been filled none is missing.                    *)
AuditInv ==
  /\ \A i \in 0 .. audit.count - 1 :
       /\ Logged(i) \in 1 .. nextVersion - 1
       /\ \A j \in 0 .. audit.count - 1 : Logged(j) = Logged(i) => j = i
       /\ \A p \in Ops : Pending(p) => op[p].entry.version # Logged(i)
  /\ \A p, q \in Ops :
       Pending(p) /\ Pending(q) /\ op[p].entry.version = op[q].entry.version => p = q
  /\ nextVersion - 1 <= AuditSize =>
       \A v \in 1 .. nextVersion - 1 : \/ \E i \in 0 .. audit.count - 1 : Logged(i) = v
                                       \/ \E p \in Ops : Pending(p) /\ op[p].entry.version = v

(* The log still has room for a version that is pending: the versions      *)
(* logged are distinct and it is not one of them.                          *)
LEMMA PendingHasRoom ==
  ASSUME Core, AuditInv, NEW o \in Ops, Pending(o)
  PROVE  audit.count <= nextVersion - 2
<1> DEFINE n == audit.count
           T == (1 .. nextVersion - 1) \ {op[o].entry.version}
           f == [i \in 0 .. n - 1 |-> Logged(i)]
<1>1. /\ nextVersion \in Nat \ {0} /\ calm.next \in 2 .. nextVersion
      /\ n \in Nat /\ op[o].entry.version \in 1 .. nextVersion - 1
  <2>1. nextVersion \in Nat \ {0} /\ calm.next \in 2 .. nextVersion /\ n \in Nat
    BY GetIsWindow, AssumptionsHold DEF Core, TypeInv, PendingInv, RingOf
  <2>2. op[o].entry.version \in calm.next .. nextVersion - 1
    BY DEF Core, PendingInv
  <2>3. QED
    BY <2>1, <2>2
<1>2. IsFiniteSet(1 .. nextVersion - 1) /\ Cardinality(1 .. nextVersion - 1) = nextVersion - 1
  BY <1>1, FS_Interval
<1>3. IsFiniteSet(T) /\ Cardinality(T) = nextVersion - 2
  <2>1. /\ IsFiniteSet(T)
        /\ Cardinality(T) = IF op[o].entry.version \in 1 .. nextVersion - 1
                              THEN Cardinality(1 .. nextVersion - 1) - 1
                              ELSE Cardinality(1 .. nextVersion - 1)
    BY <1>2, FS_RemoveElement, Zenon
  <2>2. QED
    BY <1>1, <1>2, <2>1
<1>4. f \in [0 .. n - 1 -> T]
  BY DEF AuditInv
<1>5. \A i, j \in 0 .. n - 1 : f[i] = f[j] => i = j
  BY DEF AuditInv
<1>6. f \in Injection(0 .. n - 1, T)
  BY <1>4, <1>5 DEF Injection, IsInjective
<1>7. Cardinality(0 .. n - 1) <= Cardinality(T)
  <2> HIDE DEF f, T, n
  <2>1. QED
    BY <1>3, <1>6, FS_Injection, Zenon
<1>8. Cardinality(0 .. n - 1) = n
  <2>1. 0 \in Int /\ n - 1 \in Int
    BY <1>1
  <2>2. Cardinality(0 .. n - 1) = IF 0 > n - 1 THEN 0 ELSE (n - 1) - 0 + 1
    BY <2>1, FS_Interval, Zenon
  <2>3. QED
    BY <1>1, <2>2
<1>9. QED
  BY <1>1, <1>3, <1>7, <1>8

LEMMA AuditInit == Init => AuditInv
<1> SUFFICES ASSUME Init
             PROVE  AuditInv
  OBVIOUS
<1>1. nextVersion = 2 /\ op = [o \in Ops |-> IdleOp]
  BY DEF Init
<1>2. PICK e : audit = Push(AuditSize, EmptyRing(AuditSize, None), e) /\ e.version = 1
  BY DEF Init
<1>3. EmptyRing(AuditSize, None) \in RingOf(AuditSize, None, Events)
  BY AssumptionsHold DEF EmptyRing, RingOf
<1>4. Logged(0) = 1
  BY <1>2, <1>3, PushShifts, AssumptionsHold DEF Logged
<1>5. audit.count = 1
  BY <1>2, AssumptionsHold DEF Push, EmptyRing
<1>6. \A o \in Ops : ~Pending(o)
  BY <1>1 DEF Pending, IdleOp
<1>7. QED
  BY <1>1, <1>4, <1>5, <1>6 DEF AuditInv

LEMMA AuditStep ==
  ASSUME Core, AuditInv, [Next]_vars
  PROVE  AuditInv'
<1>1. /\ nextVersion \in Nat \ {0} /\ calm.next \in 2 .. nextVersion
      /\ op \in [Ops -> OpRecords] /\ TypeInv /\ audit \in RingOf(AuditSize, None, Events)
      /\ audit.count \in 0 .. AuditSize
  BY GetIsWindow DEF Core, TypeInv, PendingInv, RingOf
<1>1a. \A p \in Ops : Pending(p) => op[p].entry.version \in 1 .. nextVersion - 1
  BY <1>1 DEF Core, PendingInv
<1>2. ASSUME NEW o \in Ops, NEW e \in Store!Entry, Records(o, e)
      PROVE  AuditInv'
  <2>1. nextVersion' = nextVersion + 1 /\ audit' = audit
    BY <1>2 DEF Records
  <2>2. \A p \in Ops : p # o => op'[p] = op[p]
    BY <1>1, <1>2 DEF Records
  <2>3. ~Pending(o) /\ Pending(o)' /\ op'[o].entry.version = nextVersion
    BY <1>1, <1>2 DEF Records, Pending, OpRecords
  <2>4. \A i : Logged(i)' = Logged(i)
    BY <2>1 DEF Logged
  <2>5. \A p \in Ops : p # o => (Pending(p)' <=> Pending(p))
    BY <2>2 DEF Pending
  <2>6. ASSUME NEW i \in 0 .. audit'.count - 1
        PROVE  /\ Logged(i)' \in 1 .. nextVersion' - 1
               /\ \A j \in 0 .. audit'.count - 1 : Logged(j)' = Logged(i)' => j = i
               /\ \A p \in Ops : Pending(p)' => op'[p].entry.version # Logged(i)'
    <3>1. i \in 0 .. audit.count - 1 /\ Logged(i) \in 1 .. nextVersion - 1
      BY <2>1 DEF AuditInv
    <3>2. QED
      BY <1>1, <2>1, <2>2, <2>3, <2>4, <2>5, <3>1 DEF AuditInv
  <2>7. ASSUME NEW p \in Ops, NEW q \in Ops, Pending(p)', Pending(q)',
               op'[p].entry.version = op'[q].entry.version
        PROVE  p = q
    BY <1>1, <1>1a, <2>2, <2>3, <2>5, <2>7 DEF AuditInv
  <2>8. ASSUME nextVersion' - 1 <= AuditSize, NEW v \in 1 .. nextVersion' - 1
        PROVE  \/ \E i \in 0 .. audit'.count - 1 : Logged(i)' = v
               \/ \E p \in Ops : Pending(p)' /\ op'[p].entry.version = v
    <3>1. CASE v = nextVersion
      BY <2>3, <3>1
    <3>2. CASE v # nextVersion
      <4>1. nextVersion - 1 <= AuditSize /\ v \in 1 .. nextVersion - 1
        BY <1>1, <2>1, <2>8, <3>2, AssumptionsHold
      <4>2. CASE \E i \in 0 .. audit.count - 1 : Logged(i) = v
        BY <2>1, <2>4, <4>2
      <4>3. CASE \E p \in Ops : Pending(p) /\ op[p].entry.version = v
        BY <2>2, <2>3, <2>5, <4>3
      <4>4. QED
        BY <4>1, <4>2, <4>3 DEF AuditInv
    <3>3. QED
      BY <3>1, <3>2
  <2>9. QED
    BY <2>6, <2>7, <2>8 DEF AuditInv
<1>3. ASSUME NEW o \in Ops, Logs(o)
      PROVE  AuditInv'
  <2>1. Pending(o) /\ ~Pending(o)' /\ \A p \in Ops : p # o => op'[p] = op[p]
    BY <1>1, <1>3 DEF Logs, Pending, IdleOp, OpRecords
  <2>2. nextVersion' = nextVersion
    BY <1>3 DEF Logs, store
  <2> DEFINE w == op[o].entry.version
  <2>3. PICK e \in Events : e.version = w /\ audit' = Push(AuditSize, audit, e)
    BY <1>3 DEF Logs
  <2>4. /\ Logged(0)' = w
        /\ \A i \in 1 .. AuditSize - 1 : Logged(i)' = Logged(i - 1)
    BY <1>1, <2>3, PushShifts, AssumptionsHold DEF Logged
  <2>5. audit'.count = IF audit.count < AuditSize THEN audit.count + 1 ELSE audit.count
    BY <2>3 DEF Push
  <2>6. w \in 1 .. nextVersion - 1
    BY <1>1a, <2>1
  <2>7. \A p \in Ops : Pending(p)' => p # o /\ Pending(p) /\ op'[p].entry = op[p].entry
    BY <2>1 DEF Pending
  <2>8. ASSUME NEW i \in 1 .. audit'.count - 1
        PROVE  i - 1 \in 0 .. audit.count - 1 /\ Logged(i)' = Logged(i - 1) /\ i \in Nat
    BY <1>1, <2>4, <2>5, AssumptionsHold
  <2>9. ASSUME NEW i \in 0 .. audit'.count - 1
        PROVE  /\ Logged(i)' \in 1 .. nextVersion' - 1
               /\ \A j \in 0 .. audit'.count - 1 : Logged(j)' = Logged(i)' => j = i
               /\ \A p \in Ops : Pending(p)' => op'[p].entry.version # Logged(i)'
    <3>1. CASE i = 0
      <4>1. ASSUME NEW j \in 1 .. audit'.count - 1
            PROVE  Logged(j)' # w
        BY <2>1, <2>8 DEF AuditInv
      <4>2. \A j \in 0 .. audit'.count - 1 : j = 0 \/ j \in 1 .. audit'.count - 1
        OBVIOUS
      <4>3. \A p \in Ops : Pending(p)' => op'[p].entry.version # w
        BY <2>1, <2>7 DEF AuditInv
      <4>4. QED
        BY <2>2, <2>4, <2>6, <3>1, <4>1, <4>2, <4>3
    <3>2. CASE i # 0
      <4>1. i \in 1 .. audit'.count - 1
        BY <3>2
      <4>2. i - 1 \in 0 .. audit.count - 1 /\ Logged(i)' = Logged(i - 1) /\ i \in Nat
        BY <2>8, <4>1
      <4>3. Logged(i - 1) \in 1 .. nextVersion - 1 /\ Logged(i - 1) # w
        BY <2>1, <4>2 DEF AuditInv
      <4>4. ASSUME NEW j \in 0 .. audit'.count - 1, Logged(j)' = Logged(i)'
            PROVE  j = i
        <5>1. j \in 1 .. audit'.count - 1
          BY <2>4, <4>2, <4>3, <4>4
        <5>2. j - 1 \in 0 .. audit.count - 1 /\ Logged(j)' = Logged(j - 1) /\ j \in Nat
          BY <2>8, <5>1
        <5>3. j - 1 = i - 1
          BY <4>2, <4>4, <5>2 DEF AuditInv
        <5>4. QED
          BY <4>2, <5>2, <5>3
      <4>5. \A p \in Ops : Pending(p)' => op'[p].entry.version # Logged(i - 1)
        BY <2>7, <4>2 DEF AuditInv
      <4>6. QED
        BY <2>2, <4>2, <4>3, <4>4, <4>5
    <3>3. QED
      BY <3>1, <3>2
  <2>10. \A p, q \in Ops :
           Pending(p)' /\ Pending(q)' /\ op'[p].entry.version = op'[q].entry.version => p = q
    BY <2>7 DEF AuditInv
  <2>11. ASSUME nextVersion' - 1 <= AuditSize, NEW v \in 1 .. nextVersion' - 1
         PROVE  \/ \E i \in 0 .. audit'.count - 1 : Logged(i)' = v
                \/ \E p \in Ops : Pending(p)' /\ op'[p].entry.version = v
    <3>1. audit'.count = audit.count + 1
      <4>1. audit.count <= nextVersion - 2
        BY <2>1, PendingHasRoom
      <4>2. audit.count < AuditSize
        BY <1>1, <2>2, <2>11, <4>1, AssumptionsHold
      <4>3. QED
        BY <2>5, <4>2
    <3>2. CASE v = w
      <4>1. 0 \in 0 .. audit'.count - 1
        BY <1>1, <3>1
      <4>2. QED
        BY <2>4, <3>2, <4>1
    <3>3. CASE \E i \in 0 .. audit.count - 1 : Logged(i) = v
      <4>1. PICK i \in 0 .. audit.count - 1 : Logged(i) = v
        BY <3>3
      <4>2. i + 1 \in 1 .. AuditSize - 1 /\ i + 1 \in 0 .. audit'.count - 1 /\ (i + 1) - 1 = i
        BY <1>1, <2>5, <3>1, AssumptionsHold
      <4>3. Logged(i + 1)' = Logged(i)
        BY <2>4, <4>2
      <4>4. QED
        BY <4>1, <4>2, <4>3
    <3>4. CASE \E p \in Ops : p # o /\ Pending(p) /\ op[p].entry.version = v
      BY <2>1, <3>4 DEF Pending
    <3>5. QED
      BY <2>2, <2>11, <3>2, <3>3, <3>4 DEF AuditInv
  <2>12. QED
    BY <2>9, <2>10, <2>11 DEF AuditInv
<1>4. ASSUME NEW o \in Ops, Other(o), Proceeds(o)
      PROVE  AuditInv'
  <2>1. UNCHANGED <<nextVersion, audit>>
    BY <1>4 DEF Proceeds, store
  <2>2. \A p \in Ops : (Pending(p)' <=> Pending(p)) /\ (Pending(p) => op'[p].entry = op[p].entry)
    BY <1>1, <1>4, OthersKeepPending
  <2>3. QED
    BY <2>1, <2>2 DEF AuditInv, Logged
<1>5. ASSUME UNCHANGED <<cfg, store, audit, gauges, op, ledger, calm>>
      PROVE  AuditInv'
  BY <1>5 DEF AuditInv, Logged, Pending, store
<1>6. QED
  BY <1>1, <1>2, <1>3, <1>4, <1>5, StepKinds

(* A set whose members are all equal has at most one.                      *)
LEMMA AtMostOne ==
  ASSUME NEW S, \A x, y \in S : x = y
  PROVE  Cardinality(S) = IF S = {} THEN 0 ELSE 1
<1>1. CASE S = {}
  BY <1>1, FS_EmptySet
<1>2. CASE S # {}
  <2>1. PICK x \in S : TRUE
    BY <1>2
  <2>2. S = {x}
    BY <2>1
  <2>3. QED
    BY <1>2, <2>2, FS_Singleton
<1>3. QED
  BY <1>1, <1>2

(* No version is logged twice, whatever operations interleave between the  *)
(* write to the store and the write to the log, and until the log has been *)
(* filled none but those still to be logged is missing (lines 738-739,     *)
(* 1033-1062).                                                             *)
THEOREM AuditIsExact == Spec => []AuditedExactlyOnce
<1>1. Core /\ AuditInv => AuditedExactlyOnce
  <2> SUFFICES ASSUME Core, AuditInv, NEW v \in 1 .. nextVersion - 1
               PROVE  LET logged  == {i \in 0 .. audit.count - 1 : Nth(AuditSize, audit, i).version = v}
                          pending == {o \in Ops : /\ op[o].pc \in {"added", "rolledBack", "restored"}
                                                  /\ op[o].entry.version = v}
                          times   == Cardinality(logged) + Cardinality(pending)
                      IN  times <= 1 /\ (nextVersion - 1 <= AuditSize => times = 1)
    BY DEF AuditedExactlyOnce
  <2> DEFINE logged  == {i \in 0 .. audit.count - 1 : Nth(AuditSize, audit, i).version = v}
             pending == {o \in Ops : /\ op[o].pc \in {"added", "rolledBack", "restored"}
                                     /\ op[o].entry.version = v}
  <2>1. Cardinality(logged) = IF logged = {} THEN 0 ELSE 1
    BY AtMostOne DEF AuditInv, Logged
  <2>2. Cardinality(pending) = IF pending = {} THEN 0 ELSE 1
    BY AtMostOne DEF AuditInv, Pending
  <2>3. logged = {} \/ pending = {}
    BY DEF AuditInv, Logged, Pending
  <2>4. nextVersion - 1 <= AuditSize => logged # {} \/ pending # {}
    BY DEF AuditInv, Logged, Pending
  <2>5. QED
    BY <2>1, <2>2, <2>3, <2>4
<1>2. Core /\ AuditInv /\ [Next]_vars => AuditInv'
  BY AuditStep
<1>3. QED
  BY <1>1, <1>2, AuditInit, CoreIsKept, PTL DEF Spec

-----------------------------------------------------------------------------
(* Requests                                                                *)

RequestRecords ==
  [pc : {"idle"}]
    \union [pc : {"allowed"}, host : Hosts, seen : SUBSET Config]
    \union [pc : {"half"}, seen : SUBSET Config, version : {c.version : c \in Config}]
    \union [pc : {"answered"}, host : Hosts, seen : SUBSET Config,
            answer : {"misdirected", "rule", "notFound"}]
    \union [pc : {"reported"}, seen : SUBSET Config, version : {c.version : c \in Config},
            rules : {Store!RulesCount(c) : c \in Config}]

(* What AnswerExplained says of one request that is over.                  *)
Explained(r) ==
  /\ r.pc = "answered" =>
       LET possible == {Answer(c, r.host) : c \in r.seen}
       IN  /\ Cardinality(possible) = 1 => r.answer \in possible
           /\ r.answer \in {"rule", "misdirected"} => r.answer \in possible
  /\ r.pc = "reported" =>
       /\ \E c \in r.seen : r.version = c.version
       /\ \E c \in r.seen : r.rules = Store!RulesCount(c)

(* A request under way has seen what is served now, and one that passed    *)
(* the host check has seen a configuration with a rule for its host.       *)
UnderWay(r, c) ==
  /\ r.pc = "allowed" => c \in r.seen /\ \E d \in r.seen : IsAllowedHost(d, r.host)
  /\ r.pc = "half" => c \in r.seen /\ \E d \in r.seen : r.version = d.version

RequestInv ==
  /\ request \in [Requests -> RequestRecords]
  /\ \A q \in Requests : Explained(request[q]) /\ UnderWay(request[q], cfg)

LEMMA HostsOfRules ==
  \A c, h : /\ Matches(c, h) <=> IsAllowedHost(c, h)
            /\ Answer(c, h) = IF IsAllowedHost(c, h) THEN "rule" ELSE "misdirected"
  BY DEF Matches, IsAllowedHost, Answer

(* If all agree they say what any one of them says.                        *)
LEMMA OnlyAnswer ==
  ASSUME NEW S, NEW h, NEW c \in S, Cardinality({Answer(d, h) : d \in S}) = 1
  PROVE  {Answer(d, h) : d \in S} = {Answer(c, h)}
<1> DEFINE possible == {Answer(d, h) : d \in S}
<1>1. IsFiniteSet({"misdirected"} \union {"rule"})
  BY FS_Singleton, FS_Union, Zenon
<1>2. possible \in SUBSET ({"misdirected"} \union {"rule"})
  BY HostsOfRules
<1>3. IsFiniteSet(possible)
  BY <1>1, <1>2, FS_Subset
<1>4. PICK x : possible = {x}
  BY <1>3, FS_Singleton
<1>5. QED
  BY <1>4

(* The answer given by the second lock section is explained.               *)
LEMMA MatchExplained ==
  ASSUME NEW S, NEW h, NEW c \in S, \E d \in S : IsAllowedHost(d, h),
         NEW answer, answer = IF Matches(c, h) THEN "rule" ELSE "notFound"
  PROVE  LET possible == {Answer(d, h) : d \in S}
         IN  /\ Cardinality(possible) = 1 => answer \in possible
             /\ answer \in {"rule", "misdirected"} => answer \in possible
<1> DEFINE possible == {Answer(d, h) : d \in S}
<1>1. CASE IsAllowedHost(c, h)
  BY <1>1, HostsOfRules
<1>2. CASE ~IsAllowedHost(c, h)
  <2>1. PICK d \in S : IsAllowedHost(d, h)
    OBVIOUS
  <2>2. {"rule", "misdirected"} \subseteq possible
    BY <1>2, <2>1, HostsOfRules
  <2>3. Cardinality(possible) # 1
    BY <2>2, OnlyAnswer
  <2>4. QED
    BY <1>2, <2>3, HostsOfRules
<1>3. QED
  BY <1>1, <1>2

(* An operation replaces the configuration, for which requests under way   *)
(* have seen both, or touches neither.                                     *)
LEMMA OpsSwapOrKeep ==
  ASSUME TypeInv, NEW o \in Ops, Reload(o) \/ RollbackHandler(o)
  PROVE  (\E c \in Config : Swap(c)) \/ UNCHANGED <<cfg, request>>
<1>1. CASE ReloadSwap(o)
  BY <1>1 DEF ReloadSwap, TypeInv, Equipped
<1>2. CASE RollbackSwap(o)
  BY <1>2 DEF RollbackSwap, TypeInv, Equipped, Store!Entry
<1>3. CASE ~ReloadSwap(o) /\ ~RollbackSwap(o)
  BY <1>3
  DEF Reload, RollbackHandler, Load, LoadFails, ReloadAdd, ReloadAudit, SetRulesGauge, ResetInfo, SetInfo,
      RollbackLookup, RollbackRefused, Denied, RollbackStore, RollbackEvicted, RollbackAudit
<1>4. QED
  BY <1>1, <1>2, <1>3

LEMMA RequestInit == Init => RequestInv
  BY DEF Init, RequestInv, RequestRecords, Explained, UnderWay

LEMMA RequestStep ==
  ASSUME TypeInv, RequestInv, [Next]_vars
  PROVE  RequestInv'
<1>1. cfg \in Config /\ request \in [Requests -> RequestRecords]
  BY DEF TypeInv, RequestInv
<1>2. ASSUME NEW c \in Config, Swap(c)
      PROVE  RequestInv'
  <2>1. ASSUME NEW q \in Requests
        PROVE  /\ request'[q] \in RequestRecords
               /\ Explained(request'[q]) /\ UnderWay(request'[q], cfg')
    <3>1. request[q] \in RequestRecords /\ Explained(request[q]) /\ UnderWay(request[q], cfg)
      BY DEF RequestInv
    <3>2. CASE request[q].pc \in {"allowed", "half"}
      <4>1. request'[q] = [request[q] EXCEPT !.seen = request[q].seen \union {c}] /\ cfg' = c
        BY <1>2, <3>2 DEF Swap
      <4>2. request[q].seen \subseteq Config
        BY <3>1, <3>2 DEF RequestRecords
      <4>3. QED
        BY <3>1, <3>2, <4>1, <4>2 DEF RequestRecords, Explained, UnderWay
    <3>3. CASE request[q].pc \notin {"allowed", "half"}
      <4>1. request'[q] = request[q]
        BY <1>2, <3>3 DEF Swap
      <4>2. QED
        BY <3>1, <3>3, <4>1 DEF UnderWay
    <3>4. QED
      BY <3>2, <3>3
  <2>2. request' \in [Requests -> RequestRecords]
    BY <1>2, <2>1 DEF Swap
  <2>3. QED
    BY <2>1, <2>2 DEF RequestInv
<1>3. ASSUME NEW q \in Requests, NEW r \in RequestRecords, Explained(r), UnderWay(r, cfg),
             request' = [request EXCEPT ![q] = r], cfg' = cfg
      PROVE  RequestInv'
  BY <1>3 DEF RequestInv
<1>4. ASSUME NEW q \in Requests, Serve(q)
      PROVE  RequestInv'
  <2>1. cfg' = cfg /\ request[q] \in RequestRecords /\ Explained(request[q]) /\ UnderWay(request[q], cfg)
    BY <1>4, RequestsOnlyRead DEF RequestInv
  <2>2. CASE CheckHost(q)
    <3>1. PICK h \in Hosts :
            request' = [request EXCEPT ![q] =
              IF IsAllowedHost(cfg, h)
                THEN [pc |-> "allowed", host |-> h, seen |-> {cfg}]
                ELSE [pc |-> "answered", host |-> h, seen |-> {cfg}, answer |-> "misdirected"]]
      BY <2>2 DEF CheckHost
    <3>2. CASE IsAllowedHost(cfg, h)
      <4> DEFINE r == [pc |-> "allowed", host |-> h, seen |-> {cfg}]
      <4>1. r \in RequestRecords /\ Explained(r) /\ UnderWay(r, cfg)
        BY <1>1, <3>2 DEF RequestRecords, Explained, UnderWay
      <4>2. QED
        BY <1>3, <2>1, <3>1, <3>2, <4>1
    <3>3. CASE ~IsAllowedHost(cfg, h)
      <4> DEFINE r == [pc |-> "answered", host |-> h, seen |-> {cfg}, answer |-> "misdirected"]
      <4>1. r \in RequestRecords
        BY <1>1 DEF RequestRecords
      <4>2. "misdirected" \in {Answer(c, h) : c \in {cfg}}
        BY <3>3, HostsOfRules
      <4>3. Explained(r) /\ UnderWay(r, cfg)
        BY <4>2 DEF Explained, UnderWay
      <4>4. QED
        BY <1>3, <2>1, <3>1, <3>3, <4>1, <4>3
    <3>4. QED
      BY <3>2, <3>3
  <2>3. CASE MatchRule(q)
    <3> DEFINE h == request[q].host
               S == request[q].seen
               a == IF Matches(cfg, h) THEN "rule" ELSE "notFound"
               r == [pc |-> "answered", host |-> h, seen |-> S, answer |-> a]
    <3>1. request' = [request EXCEPT ![q] = r] /\ request[q].pc = "allowed"
      BY <1>1, <2>3 DEF MatchRule
    <3>2. h \in Hosts /\ S \in SUBSET Config
      BY <2>1, <3>1 DEF RequestRecords
    <3>3. r \in RequestRecords
      BY <3>2 DEF RequestRecords
    <3>4. cfg \in S /\ \E d \in S : IsAllowedHost(d, h)
      BY <2>1, <3>1 DEF UnderWay
    <3>5. LET possible == {Answer(d, h) : d \in S}
          IN  /\ Cardinality(possible) = 1 => a \in possible
              /\ a \in {"rule", "misdirected"} => a \in possible
      BY <3>4, MatchExplained
    <3>6. Explained(r) /\ UnderWay(r, cfg)
      <4> HIDE DEF h, S, a
      <4>1. QED
        BY <3>5 DEF Explained, UnderWay
    <3>7. QED
      BY <1>3, <2>1, <3>1, <3>3, <3>6
  <2>4. CASE ReadConfigVersion(q)
    <3> DEFINE r == [pc |-> "half", seen |-> {cfg}, version |-> cfg.version]
    <3>1. r \in RequestRecords /\ Explained(r) /\ UnderWay(r, cfg)
      BY <1>1 DEF RequestRecords, Explained, UnderWay
    <3>2. QED
      BY <1>3, <2>1, <2>4, <3>1 DEF ReadConfigVersion
  <2>5. CASE ReadRulesCount(q)
    <3> DEFINE r == [pc |-> "reported", seen |-> request[q].seen, version |-> request[q].version,
                     rules |-> Store!RulesCount(cfg)]
    <3>1. request' = [request EXCEPT ![q] = r] /\ request[q].pc = "half"
      BY <1>1, <2>5 DEF ReadRulesCount
    <3>2. request[q].seen \in SUBSET Config /\ request[q].version \in {c.version : c \in Config}
      BY <2>1, <3>1 DEF RequestRecords
    <3>3. r \in RequestRecords
      BY <1>1, <3>2 DEF RequestRecords
    <3>4. Explained(r) /\ UnderWay(r, cfg)
      BY <2>1, <3>1 DEF Explained, UnderWay
    <3>5. QED
      BY <1>3, <2>1, <3>1, <3>3, <3>4
  <2>6. CASE NextRequest(q)
    <3>1. [pc |-> "idle"] \in RequestRecords /\ Explained([pc |-> "idle"]) /\ UnderWay([pc |-> "idle"], cfg)
      BY DEF RequestRecords, Explained, UnderWay
    <3>2. QED
      BY <1>3, <2>1, <2>6, <3>1 DEF NextRequest
  <2>7. QED
    BY <1>4, <2>2, <2>3, <2>4, <2>5, <2>6 DEF Serve
<1>5. CASE UNCHANGED <<cfg, request>>
  BY <1>5 DEF RequestInv
<1>6. QED
  BY <1>2, <1>4, <1>5, OpsSwapOrKeep DEF Next, vars

(* Whatever is replaced while a request runs, its answer is one of those   *)
(* the configurations it saw would give, in the way AnswerExplained says   *)
(* (handleRedirect lines 358-422, handleConfig lines 680-684).             *)
THEOREM AnswersAreExplained == Spec => []AnswerExplained
<1>1. RequestInv => AnswerExplained
  BY DEF RequestInv, Explained, AnswerExplained
<1>2. TypeInv /\ RequestInv /\ [Next]_vars => RequestInv'
  BY RequestStep
<1>3. QED
  BY <1>1, <1>2, RequestInit, LedgerIsKept, PTL DEF Spec

-----------------------------------------------------------------------------
(* Those who roll back                                                     *)

LEMMA LeastNatural ==
  ASSUME NEW S \in SUBSET Nat, S # {}
  PROVE  \E m \in S : \A k \in S : m <= k
<1>1. PICK m \in S : \A k \in S : ~(<<k, m>> \in OpToRel(<, Nat))
  BY NatLessThanWellFounded, WFMin
<1>2. \A k \in S : ~(k < m)
  BY <1>1 DEF OpToRel
<1>3. QED
  BY <1>2

LEMMA GreatestBelow ==
  ASSUME NEW n \in Nat, NEW S \in SUBSET (1 .. n), S # {}
  PROVE  Max(S) \in S
<1> DEFINE T == {n - k : k \in S}
<1>1. T \in SUBSET Nat /\ T # {}
  <2>1. \A k \in S : k \in 1 .. n /\ n - k \in Nat
    OBVIOUS
  <2>2. QED
    BY <2>1
<1>2. PICK m \in T : \A k \in T : m <= k
  <2> HIDE DEF T
  <2>1. QED
    BY <1>1, LeastNatural
<1>3. \E x \in S : \A y \in S : x >= y
  <2>1. n - m \in S /\ \A y \in S : m <= n - y
    BY <1>2
  <2>2. \A y \in S : n - m >= y
    BY <1>2, <2>1
  <2>3. QED
    BY <2>1, <2>2
<1>4. QED
  BY <1>3 DEF Max

(* Who is let in by a key is an entry of the configuration, ...            *)
LEMMA KeysAreConfigured ==
  ASSUME NEW r, AuthenticateKey(r) # NoPrincipal
  PROVE  \E e \in ToSet(Authentication.apiKeys) :
           AuthenticateKey(r) = [id |-> e.name, permissions |-> e.permissions]
<1> DEFINE keys  == Authentication.apiKeys
           I     == {i \in 1 .. Len(keys) : keys[i].key = ExtractAPIKey(r)}
           place == IF I # {} THEN Max(I) ELSE 0
<1>1. place = SelectLastInSeq(keys, LAMBDA entry : entry.key = ExtractAPIKey(r))
  BY DEF SelectLastInSeq
<1>2. AuthenticateKey(r) = IF ExtractAPIKey(r) = NoCredential \/ place = 0 THEN NoPrincipal
                           ELSE [id |-> keys[place].name, permissions |-> keys[place].permissions]
  BY <1>1 DEF AuthenticateKey
<1>3. place # 0
  BY <1>2
<1>4. Len(keys) \in Nat /\ keys \in Seq(ToSet(keys))
  BY KeysAssumption
<1>5. place \in 1 .. Len(keys)
  <2>1. I \in SUBSET (1 .. Len(keys)) /\ I # {} /\ place = Max(I)
    BY <1>3
  <2>2. Max(I) \in I
    <3> HIDE DEF I
    <3>1. QED
      BY <1>4, <2>1, GreatestBelow
  <2>3. QED
    BY <2>1, <2>2
<1>6. keys[place] \in ToSet(keys)
  <2>1. DOMAIN keys = 1 .. Len(keys)
    BY <1>4
  <2> HIDE DEF place
  <2>2. QED
    BY <1>5, <2>1 DEF ToSet
<1>7. QED
  BY <1>2, <1>6

(* ... by a token someone with permissions of its own, or a reader.        *)
LEMMA TokensAreGenuine ==
  ASSUME NEW r, AuthenticateToken(r) # NoPrincipal
  PROVE  /\ r.authorization.scheme = "Bearer" /\ ValidToken(r.authorization.value)
         /\ AuthenticateToken(r).id = r.authorization.value.subject
         /\ \/ AuthenticateToken(r).permissions = r.authorization.value.permissions
            \/ AuthenticateToken(r).permissions = {"read"}
  BY DEF AuthenticateToken

(* A name the log can be given is that of a principal that may write.      *)
LEMMA RollbackNeedsWrite ==
  ASSUME NEW actor \in MayRollBack
  PROVE  actor \in IF Authentication.enabled THEN KeyWriters \union TokenWriters
                   ELSE {"anonymous"}
<1>1. PICK r \in Callers : Granted(r, "rollback") /\ actor = Actor(r)
  BY DEF MayRollBack
<1>2. CASE ~Authentication.enabled
  BY <1>1, <1>2 DEF Actor, Principal
<1>3. CASE Authentication.enabled
  <2>1. Principal(r) # NoPrincipal /\ HasPermission(Principal(r).permissions, "write")
    BY <1>1, <1>3 DEF Granted, Unauthorized, Forbidden, Permission
  <2>2. Writes(Principal(r).permissions)
    BY <2>1 DEF HasPermission, Writes
  <2>3. actor = Principal(r).id /\ Principal(r) = Authenticate(r)
    BY <1>1, <2>1 DEF Actor, Principal
  <2>4. CASE AuthenticateKey(r) # NoPrincipal
    <3>1. Principal(r) = AuthenticateKey(r)
      BY <2>3, <2>4 DEF Authenticate
    <3>2. PICK e \in ToSet(Authentication.apiKeys) :
            Principal(r) = [id |-> e.name, permissions |-> e.permissions]
      BY <2>4, <3>1, KeysAreConfigured
    <3>3. actor \in KeyWriters
      BY <2>2, <2>3, <3>2 DEF KeyWriters
    <3>4. QED
      BY <1>3, <3>3
  <2>5. CASE AuthenticateKey(r) = NoPrincipal
    <3> DEFINE t == r.authorization.value
    <3>1. /\ Principal(r) = AuthenticateToken(r) /\ AuthenticateToken(r) # NoPrincipal
          /\ Authentication.jwt
      BY <2>1, <2>3, <2>5 DEF Authenticate
    <3>2. /\ r \in Bearers /\ ValidToken(t) /\ actor = t.subject
          /\ Principal(r).permissions = t.permissions \/ Principal(r).permissions = {"read"}
      BY <2>3, <3>1, TokensAreGenuine DEF Bearers
    <3>3. Writes(t.permissions)
      BY <2>2, <3>2 DEF Writes
    <3>4. actor \in TokenWriters
      BY <3>1, <3>2, <3>3 DEF TokenWriters, ValidToken
    <3>5. QED
      BY <1>3, <3>4
  <2>6. QED
    BY <2>4, <2>5
<1>4. QED
  BY <1>2, <1>3

ActorsInv ==
  \A i \in 0 .. audit.count - 1 :
    Nth(AuditSize, audit, i).type = "config_rollback" => Nth(AuditSize, audit, i).actor \in MayRollBack

LEMMA ActorsInit == Init => ActorsInv
<1> SUFFICES ASSUME Init
             PROVE  ActorsInv
  OBVIOUS
<1>1. PICK e : audit = Push(AuditSize, EmptyRing(AuditSize, None), e) /\ e.type # "config_rollback"
  BY DEF Init
<1>2. EmptyRing(AuditSize, None) \in RingOf(AuditSize, None, Events)
  BY AssumptionsHold DEF EmptyRing, RingOf
<1>3. Nth(AuditSize, audit, 0) = e
  BY <1>1, <1>2, PushShifts, AssumptionsHold
<1>4. audit.count = 1
  BY <1>1, AssumptionsHold DEF Push, EmptyRing
<1>5. QED
  BY <1>1, <1>3, <1>4 DEF ActorsInv

LEMMA ActorsStep ==
  ASSUME TypeInv, ActorsInv, [Next]_vars
  PROVE  ActorsInv'
<1>1. audit \in RingOf(AuditSize, None, Events) /\ audit.count \in 0 .. AuditSize
  BY DEF TypeInv, RingOf
<1>2. ASSUME NEW o \in Ops, Logs(o)
      PROVE  ActorsInv'
  <2>1. PICK e \in Events : /\ e.type = "config_rollback" => e.actor \in MayRollBack
                            /\ audit' = Push(AuditSize, audit, e)
    BY <1>2 DEF Logs
  <2>2. /\ Nth(AuditSize, audit', 0) = e
        /\ \A i \in 1 .. AuditSize - 1 : Nth(AuditSize, audit', i) = Nth(AuditSize, audit, i - 1)
    BY <1>1, <2>1, PushShifts, AssumptionsHold
  <2>3. audit'.count = IF audit.count < AuditSize THEN audit.count + 1 ELSE audit.count
    BY <2>1 DEF Push
  <2>4. ASSUME NEW i \in 0 .. audit'.count - 1, Nth(AuditSize, audit', i).type = "config_rollback"
        PROVE  Nth(AuditSize, audit', i).actor \in MayRollBack
    <3>1. CASE i = 0
      BY <2>1, <2>2, <2>4, <3>1
    <3>2. CASE i # 0
      <4>1. i \in 1 .. AuditSize - 1 /\ i - 1 \in 0 .. audit.count - 1
        BY <1>1, <2>3, <3>2, AssumptionsHold
      <4>2. QED
        BY <2>2, <2>4, <4>1 DEF ActorsInv
    <3>3. QED
      BY <3>1, <3>2
  <2>5. QED
    BY <2>4 DEF ActorsInv, Nth, SlotOf
<1>3. ASSUME UNCHANGED audit
      PROVE  ActorsInv'
  BY <1>3 DEF ActorsInv, Nth, SlotOf
<1>4. QED
  BY <1>2, <1>3, StepKinds DEF Records, Proceeds

(* Every rollback in the log is under the name of a holder of a configured *)
(* key, or of a token that is valid for the configuration, that may write, *)
(* or anonymous when authentication is off, whichever of several           *)
(* credentials a caller presents (handleManagement lines 560-564,          *)
(* handleRollback lines 1055-1062, jwt.go lines 66-111).                   *)
THEOREM RollbacksAreAccountable == Spec => []RollbackIsAccountable
<1>1. ActorsInv => RollbackIsAccountable
  BY RollbackNeedsWrite DEF ActorsInv, RollbackIsAccountable
<1>2. TypeInv /\ ActorsInv /\ [Next]_vars => ActorsInv'
  BY ActorsStep
<1>3. QED
  BY <1>1, <1>2, ActorsInit, LedgerIsKept, PTL DEF Spec
=============================================================================
