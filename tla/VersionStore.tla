---------------------------- MODULE VersionStore ----------------------------
(***************************************************************************)
(* internal/versioning/version.go: Store, the numbered history of the      *)
(* configurations a server has run, with rollback.  Every method holds     *)
(* s.mu from its first line to its return, so each is one action.          *)
(*                                                                         *)
(* A configuration is a record [version, rules, server, stats, auth].      *)
(* "rules" maps rule IDs to rules; a rule is a record [compared, ignored]: *)
(* the fields rulesEqual looks at, and those it does not (PreservePath,    *)
(* PreserveQuery, Headers).  "auth" is NoSection or a record [enabled,     *)
(* rest], of which authEqual compares only the first.                      *)
(***************************************************************************)
EXTENDS Ring, FiniteSets

CONSTANTS
  MaxVersions,   \* Store.maxVersions: the server uses 10
  Config,        \* the configurations that may be stored
  NoVersion,     \* the nil *ConfigVersion
  NoSection,     \* a nil Stats or Auth section
  NoChanges      \* the nil *ConfigChanges of the first version

\* NewStore replaces a size below 1 by 10.
ASSUME MaxVersionsAssumption == MaxVersions \in Nat \ {0}

VARIABLES
  ring,          \* versions, current and count
  nextVersion    \* Store.nextVersion

vars == <<ring, nextVersion>>

-----------------------------------------------------------------------------
(* Hash and diff                                                           *)

RuleIDs(c) == DOMAIN c.rules

RulesCount(c) == Cardinality(RuleIDs(c))

(* What is marshalled and hashed; SHA-256 itself is taken as injective.    *)
CalculateHash(c) ==
  [version |-> c.version, rules |-> RulesCount(c), server |-> c.server]

RulesEqual(a, b) == a.compared = b.compared

AuthEqual(a, b) ==
  \/ a = NoSection /\ b = NoSection
  \/ a # NoSection /\ b # NoSection /\ a.enabled = b.enabled

CalculateChanges(old, new) ==
  [rulesAdded    |-> RuleIDs(new) \ RuleIDs(old),
   rulesRemoved  |-> RuleIDs(old) \ RuleIDs(new),
   rulesModified |-> {id \in RuleIDs(old) \cap RuleIDs(new) :
                        ~RulesEqual(old.rules[id], new.rules[id])},
   serverChanged |-> old.server # new.server,
   statsChanged  |-> old.stats # new.stats,
   authChanged   |-> ~AuthEqual(old.auth, new.auth)]

Entry ==
  [version : Nat, hash : {CalculateHash(c) : c \in Config}, rollbacks : Nat,
   changes : {CalculateChanges(c, d) : c, d \in Config} \union {NoChanges},
   config : Config]

\* The nil pointers are neither a version nor a diff.
ASSUME NoVersionAssumption == NoVersion \notin Entry

ASSUME NoChangesAssumption == NoChanges \notin {CalculateChanges(c, d) : c, d \in Config}

-----------------------------------------------------------------------------
(* Reading                                                                 *)

Current == Newest(ring, NoVersion)

(* The walk of Get and Rollback from newest to oldest: the first hit.      *)
Positions(r, v) ==
  {i \in 0 .. r.count - 1 :
     Nth(MaxVersions, r, i) # NoVersion /\ Nth(MaxVersions, r, i).version = v}

Find(r, v) ==
  IF Positions(r, v) = {}
    THEN NoVersion
    ELSE Nth(MaxVersions, r,
             CHOOSE i \in Positions(r, v) : \A j \in Positions(r, v) : i <= j)

Get(v) == Find(ring, v)

List == NewestFirst(MaxVersions, ring, ring.count)

Previous ==
  IF ring.count < 2
    THEN NoVersion
    ELSE ring.slots[(ring.current - 1 + MaxVersions) % MaxVersions]

-----------------------------------------------------------------------------
(* Writing                                                                 *)

Init ==
  /\ ring = EmptyRing(MaxVersions, NoVersion)
  /\ nextVersion = 1

(* The tail both writers share.                                            *)
StoreAsCurrent(e) ==
  /\ ring' = Push(MaxVersions, ring, e)
  /\ nextVersion' = nextVersion + 1

(* Add: the diff is taken against the version that is current.             *)
NewEntry(c) ==
  [version   |-> nextVersion,
   hash      |-> CalculateHash(c),
   rollbacks |-> 0,
   changes   |-> IF Current = NoVersion
                   THEN NoChanges
                   ELSE CalculateChanges(Current.config, c),
   config    |-> c]

Add(c) == StoreAsCurrent(NewEntry(c))

(* Faulty variants of RolledBack: the old number is reused; the diff is    *)
(* taken in the wrong direction.                                           *)
RolledBackSameNumber(v) == [Get(v) EXCEPT !.rollbacks = @ + 1]

RolledBackDiffSwapped(v) ==
  [version   |-> nextVersion,
   hash      |-> Get(v).hash,
   rollbacks |-> Get(v).rollbacks + 1,
   changes   |-> CalculateChanges(Get(v).config, Current.config),
   config    |-> Get(v).config]

(* Rollback: the found version comes back as a new one.  "rollbacks" is    *)
(* the number of "rollback:" prefixes of its Source.                       *)
RolledBack(v) ==
  [version   |-> nextVersion,
   hash      |-> Get(v).hash,
   rollbacks |-> Get(v).rollbacks + 1,
   changes   |-> CalculateChanges(Current.config, Get(v).config),
   config    |-> Get(v).config]

Rollback(v) ==
  /\ Get(v) # NoVersion
  /\ StoreAsCurrent(RolledBack(v))

Next ==
  \/ \E c \in Config : Add(c)
  \/ \E v \in 1 .. nextVersion - 1 : Rollback(v)

Spec == Init /\ [][Next]_vars

-----------------------------------------------------------------------------
(* Properties                                                              *)

(* The store's fields stay in their types, version.go lines 37-44.         *)
TypeOK ==
  /\ ring \in RingOf(MaxVersions, NoVersion, Entry)
  /\ nextVersion \in Nat \ {0}

(* Ring r holds the last versions before number n, newest first.           *)
HoldsLast(r, n) ==
  /\ r.count = IF n <= MaxVersions THEN n - 1 ELSE MaxVersions
  /\ \A i \in 0 .. r.count - 1 :
       /\ Nth(MaxVersions, r, i) # NoVersion
       /\ Nth(MaxVersions, r, i).version = n - 1 - i

(* The retained versions are the last "count" numbers handed out, without  *)
(* a gap, and the walk from "current" meets them newest first: the wrap of *)
(* the index loses, repeats and reorders nothing.                          *)
Consecutive == HoldsLast(ring, nextVersion)

(* Get answers for exactly the retained numbers, and Previous is the       *)
(* version before the current one (lines 108-147).                         *)
LookupsAgree ==
  /\ \A v \in 1 .. nextVersion :
       IF nextVersion - ring.count <= v /\ v < nextVersion
         THEN Get(v) # NoVersion /\ Get(v).version = v
         ELSE Get(v) = NoVersion
  /\ Previous = Get(nextVersion - 2)
  /\ Current = Get(nextVersion - 1)
  /\ \A i \in DOMAIN List : List[i] = Get(nextVersion - i)

(* The changes of a retained version explain how its rules came from the   *)
(* version before it, for loads and for rollbacks alike (lines 60-63 and   *)
(* 166): patching the older set of IDs gives the newer one, a rule of both *)
(* differs in its compared fields exactly when listed as modified.         *)
ChangesChain ==
  \A v \in nextVersion - ring.count + 1 .. nextVersion - 1 :
    LET old == Get(v - 1).config
        new == Get(v).config
        ch  == Get(v).changes
    IN  /\ ch # NoChanges
        /\ RuleIDs(new) = (RuleIDs(old) \ ch.rulesRemoved) \union ch.rulesAdded
        /\ ch.rulesAdded \intersect RuleIDs(old) = {}
        /\ \A id \in RuleIDs(old) \intersect RuleIDs(new) :
             (old.rules[id].compared = new.rules[id].compared) <=> id \notin ch.rulesModified
        /\ (old.server = new.server) <=> ~ch.serverChanged

(* A retained version is never rewritten: as long as its number can be     *)
(* looked up it yields the same entry, and numbers are never reused.       *)
HistoryIsImmutable ==
  [][\A v \in 1 .. nextVersion - 1 :
       Get(v)' \in {Get(v), NoVersion}]_vars

(* The ring implements a sliding window of numbered configurations.        *)
Abstract == INSTANCE VersionHistory WITH
  Retention <- MaxVersions,
  window    <- [i \in 1 .. ring.count |-> Nth(MaxVersions, ring, ring.count - i).config],
  total     <- nextVersion - 1

ImplementsHistory == Abstract!Spec
=============================================================================
