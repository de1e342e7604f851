---------------------------- MODULE ConfigServer ----------------------------
(***************************************************************************)
(* internal/server/server.go: the running redirector.  It serves requests  *)
(* from s.cfg and s.router, which reloads (SIGHUP, file watcher, POST      *)
(* /api/v1/reload) and rollbacks (POST /api/v1/rollback) replace while     *)
(* recording what they did in the version store, in the audit log and in   *)
(* the Prometheus gauges.                                                  *)
(*                                                                         *)
(* Nothing serialises these operations: s.mu covers only the replacement   *)
(* of cfg and router, the store and the log have locks of their own, so    *)
(* every critical section is an action and the sections of different       *)
(* goroutines interleave.  The file is read inside Load; it may have been  *)
(* edited to anything since it was read last, so Load takes any            *)
(* configuration, or fails.                                                *)
(*                                                                         *)
(* A configuration is a record as in VersionStore; "compared" of a rule is *)
(* here its match host, AnyHost when it has none, and every rule matches   *)
(* the paths requested.  router.New cannot fail and is a function of the   *)
(* rules, so cfg stands for both fields.  Requests to the management API    *)
(* pass Auth, whose settings a reload does not change; a reload has other  *)
(* causes than a request.                                                  *)
(***************************************************************************)
EXTENDS Ring, Auth, FiniteSets

CONSTANTS
  Ops,            \* goroutines that reload or roll back
  Requests,       \* goroutines that serve redirect and config requests
  Callers,        \* the requests made to the management API
  Hosts,          \* the hosts requested
  AnyHost,        \* the empty host of a rule
  Config,
  MaxVersions,    \* versioning.NewStore(10)
  AuditSize,      \* versioning.NewAuditLog(1000)
  VersionBound,   \* no more versions than this are recorded
  NoVersion, NoSection, NoChanges,
  None            \* no audit event, no answer, no reply yet

\* NewStore and NewAuditLog replace a size below 1.
ASSUME SizesAssumption == {MaxVersions, AuditSize} \subseteq Nat \ {0}

VARIABLES
  cfg,            \* Server.cfg and Server.router
  ring,           \* Server.versionStore
  nextVersion,
  audit,          \* Server.auditLog
  rulesGauge,     \* metrics.ConfigRulesCount
  infoGauge,      \* the label sets of metrics.ConfigInfo that are 1
  op,             \* the operation of each goroutine of Ops
  request,        \* the request of each goroutine of Requests
  ledger,         \* history: the configuration of every version ever recorded
  calm            \* history: nextVersion and cfg when last no operation ran

store == <<ring, nextVersion>>
gauges == <<rulesGauge, infoGauge>>
vars == <<cfg, store, audit, gauges, op, request, ledger, calm>>

Store == INSTANCE VersionStore

\* The nil pointers are neither a version nor a diff.
ASSUME NilAssumption ==
  /\ NoVersion \notin Store!Entry
  /\ NoChanges \notin {Store!CalculateChanges(c, d) : c, d \in Config}

-----------------------------------------------------------------------------
(* The router, as far as hosts go                                          *)

RuleHosts(c) == {c.rules[id].compared : id \in DOMAIN c.rules}

IsAllowedHost(c, h) == AnyHost \in RuleHosts(c) \/ h \in RuleHosts(c)

Matches(c, h) == RuleHosts(c) \intersect {AnyHost, h} # {}

(* What one configuration answers to a request for host h.                 *)
Answer(c, h) ==
  IF ~IsAllowedHost(c, h) THEN "misdirected" ELSE IF Matches(c, h) THEN "rule" ELSE "notFound"

-----------------------------------------------------------------------------
(* Operations                                                              *)

IdleOp ==
  [pc |-> "idle", cfg |-> None, target |-> 0, actor |-> None, entry |-> NoVersion, reply |-> None]

(* Those who may roll back, by the name the audit log will give them.      *)
MayRollBack == {Actor(r) : r \in {c \in Callers : Granted(c, "rollback")}}

AllIdle == \A o \in Ops : op[o].pc = "idle"

(* New, lines 86-288: the first version is recorded before anything runs.  *)
Init ==
  \E c \in Config :
    LET first == [version |-> 1, hash |-> Store!CalculateHash(c), rollbacks |-> 0,
                  changes |-> NoChanges, config |-> c]
    IN  /\ cfg = c
        /\ ring = Push(MaxVersions, EmptyRing(MaxVersions, NoVersion), first)
        /\ nextVersion = 2
        /\ audit = Push(AuditSize, EmptyRing(AuditSize, None),
                        [type |-> "config_loaded", version |-> 1, actor |-> "system"])
        /\ rulesGauge = Store!RulesCount(c)
        /\ infoGauge = {[version |-> c.version, hash |-> first.hash]}
        /\ op = [o \in Ops |-> IdleOp]
        /\ request = [q \in Requests |-> [pc |-> "idle"]]
        /\ ledger = <<c>>
        /\ calm = [next |-> 2, cfg |-> c]

(* An operation begins: there is room for the version it may record, and   *)
(* the last calm moment is noted.                                          *)
Begin ==
  /\ nextVersion + Cardinality({o \in Ops : op[o].pc # "idle"}) <= VersionBound
  /\ calm' = IF AllIdle THEN [next |-> nextVersion, cfg |-> cfg] ELSE calm

(* The configuration is replaced; requests under way see both.             *)
Swap(c) ==
  /\ cfg' = c
  /\ request' = [q \in Requests |->
                   IF request[q].pc \in {"allowed", "half"}
                     THEN [request[q] EXCEPT !.seen = @ \union {c}]
                     ELSE request[q]]

LogConfigChange(type, version, actor) ==
  audit' = Push(AuditSize, audit, [type |-> type, version |-> version, actor |-> actor])

(* ReloadConfig, lines 697-747: LoadDirectory succeeds or fails.           *)
Load(o) ==
  /\ op[o].pc = "idle"
  /\ Begin
  /\ \E c \in Config : op' = [op EXCEPT ![o] = [IdleOp EXCEPT !.pc = "loaded", !.cfg = c]]
  /\ UNCHANGED <<cfg, store, audit, gauges, request, ledger>>

LoadFails(o) ==
  /\ op[o].pc = "idle"
  /\ op' = [op EXCEPT ![o] = [IdleOp EXCEPT !.reply = "failed"]]
  /\ UNCHANGED <<cfg, store, audit, gauges, request, ledger, calm>>

ReloadSwap(o) ==
  /\ op[o].pc = "loaded"
  /\ Swap(op[o].cfg)
  /\ op' = [op EXCEPT ![o].pc = "swapped"]
  /\ UNCHANGED <<store, audit, gauges, ledger, calm>>

ReloadAdd(o) ==
  /\ op[o].pc = "swapped"
  /\ Store!Add(op[o].cfg)
  /\ ledger' = Append(ledger, op[o].cfg)
  /\ op' = [op EXCEPT ![o].pc = "added", ![o].entry = Store!NewEntry(op[o].cfg)]
  /\ UNCHANGED <<cfg, audit, gauges, request, calm>>

(* Faulty variant: the log names whatever version is current by now.       *)
ReloadAuditCurrent(o) ==
  /\ op[o].pc = "added"
  /\ LogConfigChange("config_reloaded", Store!Current.version, "system")
  /\ op' = [op EXCEPT ![o].pc = "audited"]
  /\ UNCHANGED <<cfg, store, gauges, request, ledger, calm>>

ReloadAudit(o) ==
  /\ op[o].pc = "added"
  /\ LogConfigChange("config_reloaded", op[o].entry.version, "system")
  /\ op' = [op EXCEPT ![o].pc = "audited"]
  /\ UNCHANGED <<cfg, store, gauges, request, ledger, calm>>

(* RecordConfigReload(true, ...).                                          *)
SetRulesGauge(o) ==
  /\ op[o].pc = "audited"
  /\ rulesGauge' = Store!RulesCount(op[o].cfg)
  /\ op' = [op EXCEPT ![o].pc = "counted"]
  /\ UNCHANGED <<cfg, store, audit, infoGauge, request, ledger, calm>>

(* SetConfigInfo: Reset, then Set(1) on the new labels.                    *)
ResetInfo(o) ==
  /\ op[o].pc = "counted"
  /\ infoGauge' = {}
  /\ op' = [op EXCEPT ![o].pc = "reset"]
  /\ UNCHANGED <<cfg, store, audit, rulesGauge, request, ledger, calm>>

SetInfo(o) ==
  /\ op[o].pc = "reset"
  /\ infoGauge' = infoGauge \union {[version |-> op[o].cfg.version, hash |-> op[o].entry.hash]}
  /\ op' = [op EXCEPT ![o] = [IdleOp EXCEPT !.reply = "ok"]]
  /\ UNCHANGED <<cfg, store, audit, rulesGauge, request, ledger, calm>>

(* handleRollback, lines 996-1073: the version is looked up first ...      *)
RollbackLookup(o) ==
  /\ op[o].pc = "idle"
  /\ Begin
  /\ \E actor \in MayRollBack, v \in 1 .. nextVersion - 1 :
       /\ Store!Get(v) # NoVersion
       /\ op' = [op EXCEPT ![o] = [IdleOp EXCEPT !.pc = "found", !.target = v, !.actor = actor]]
  /\ UNCHANGED <<cfg, store, audit, gauges, request, ledger>>

RollbackRefused(o) ==
  /\ op[o].pc = "idle"
  /\ MayRollBack # {}
  /\ \E v \in 0 .. nextVersion : Store!Get(v) = NoVersion
  /\ op' = [op EXCEPT ![o] = [IdleOp EXCEPT !.reply = "refused"]]
  /\ UNCHANGED <<cfg, store, audit, gauges, request, ledger, calm>>

(* A caller who may not is turned away before that.                        *)
Denied(o) ==
  /\ op[o].pc = "idle"
  /\ \E r \in Callers : Unauthorized(r) \/ Forbidden(r, "rollback")
  /\ op' = [op EXCEPT ![o] = [IdleOp EXCEPT !.reply = "refused"]]
  /\ UNCHANGED <<cfg, store, audit, gauges, request, ledger, calm>>

(* ... then brought back, unless it was evicted in between.                *)
RollbackStore(o) ==
  /\ op[o].pc = "found"
  /\ Store!Rollback(op[o].target)
  /\ ledger' = Append(ledger, Store!Get(op[o].target).config)
  /\ op' = [op EXCEPT ![o].pc = "rolledBack", ![o].entry = Store!RolledBack(op[o].target)]
  /\ UNCHANGED <<cfg, audit, gauges, request, calm>>

RollbackEvicted(o) ==
  /\ op[o].pc = "found"
  /\ Store!Get(op[o].target) = NoVersion
  /\ op' = [op EXCEPT ![o] = [IdleOp EXCEPT !.reply = "failed"]]
  /\ UNCHANGED <<cfg, store, audit, gauges, request, ledger, calm>>

(* Faulty variant: the store is rolled back but not the router.            *)
RollbackSwapForgotten(o) ==
  /\ op[o].pc = "rolledBack"
  /\ op' = [op EXCEPT ![o].pc = "restored"]
  /\ UNCHANGED <<cfg, request, store, audit, gauges, ledger, calm>>

RollbackSwap(o) ==
  /\ op[o].pc = "rolledBack"
  /\ Swap(op[o].entry.config)
  /\ op' = [op EXCEPT ![o].pc = "restored"]
  /\ UNCHANGED <<store, audit, gauges, ledger, calm>>

RollbackAudit(o) ==
  /\ op[o].pc = "restored"
  /\ LogConfigChange("config_rollback", op[o].entry.version, op[o].actor)
  /\ op' = [op EXCEPT ![o] = [IdleOp EXCEPT !.reply = "ok"]]
  /\ UNCHANGED <<cfg, store, gauges, request, ledger, calm>>

Reload(o) ==
  Load(o) \/ LoadFails(o) \/ ReloadSwap(o) \/ ReloadAdd(o) \/ ReloadAudit(o)
    \/ SetRulesGauge(o) \/ ResetInfo(o) \/ SetInfo(o)

RollbackHandler(o) ==
  RollbackLookup(o) \/ RollbackRefused(o) \/ Denied(o) \/ RollbackStore(o) \/ RollbackEvicted(o)
    \/ RollbackSwap(o) \/ RollbackAudit(o)

-----------------------------------------------------------------------------
(* Requests                                                                *)

(* Faulty variant: no early rejection.                                     *)
CheckHostSkipped(q) ==
  /\ request[q].pc = "idle"
  /\ \E h \in Hosts :
       request' = [request EXCEPT ![q] = [pc |-> "allowed", host |-> h, seen |-> {cfg}]]
  /\ UNCHANGED <<cfg, store, audit, gauges, op, ledger, calm>>

(* handleRedirect, lines 358-371: the host check, under a first RLock.     *)
CheckHost(q) ==
  /\ request[q].pc = "idle"
  /\ \E h \in Hosts :
       request' = [request EXCEPT ![q] =
         IF IsAllowedHost(cfg, h)
           THEN [pc |-> "allowed", host |-> h, seen |-> {cfg}]
           ELSE [pc |-> "answered", host |-> h, seen |-> {cfg}, answer |-> "misdirected"]]
  /\ UNCHANGED <<cfg, store, audit, gauges, op, ledger, calm>>

(* Lines 373-422: the match, under a second RLock.                         *)
MatchRule(q) ==
  /\ request[q].pc = "allowed"
  /\ request' = [request EXCEPT ![q] =
       [pc |-> "answered", host |-> @.host, seen |-> @.seen,
        answer |-> IF Matches(cfg, @.host) THEN "rule" ELSE "notFound"]]
  /\ UNCHANGED <<cfg, store, audit, gauges, op, ledger, calm>>

(* handleConfig, lines 680-684: s.cfg is read twice, without the lock.     *)
ReadConfigVersion(q) ==
  /\ request[q].pc = "idle"
  /\ \E r \in Callers : Granted(r, "config")
  /\ request' = [request EXCEPT ![q] = [pc |-> "half", seen |-> {cfg}, version |-> cfg.version]]
  /\ UNCHANGED <<cfg, store, audit, gauges, op, ledger, calm>>

ReadRulesCount(q) ==
  /\ request[q].pc = "half"
  /\ request' = [request EXCEPT ![q] =
       [pc |-> "reported", seen |-> @.seen, version |-> @.version,
        rules |-> Store!RulesCount(cfg)]]
  /\ UNCHANGED <<cfg, store, audit, gauges, op, ledger, calm>>

(* The goroutine takes its next request.                                   *)
NextRequest(q) ==
  /\ request[q].pc \in {"answered", "reported"}
  /\ request' = [request EXCEPT ![q] = [pc |-> "idle"]]
  /\ UNCHANGED <<cfg, store, audit, gauges, op, ledger, calm>>

Serve(q) ==
  CheckHost(q) \/ MatchRule(q) \/ ReadConfigVersion(q) \/ ReadRulesCount(q) \/ NextRequest(q)

Next ==
  \/ \E o \in Ops : Reload(o) \/ RollbackHandler(o)
  \/ \E q \in Requests : Serve(q)

Spec == Init /\ [][Next]_vars

-----------------------------------------------------------------------------
(* Properties                                                              *)

(* However reloads and rollbacks interleave, exactly the last versions can *)
(* be looked up, each with the configuration it was recorded for, and both *)
(* writers drew distinct numbers (ReloadConfig line 738, handleRollback    *)
(* lines 1024-1033).                                                       *)
LedgerAgrees ==
  /\ Len(ledger) = nextVersion - 1
  /\ \A v \in 1 .. nextVersion - 1 :
       IF v >= nextVersion - MaxVersions
         THEN Store!Get(v) # NoVersion /\ Store!Get(v).config = ledger[v]
         ELSE Store!Get(v) = NoVersion

(* No version is in the audit log twice, and while the log has not been    *)
(* filled each is there, except those whose operation has recorded the     *)
(* version but not logged it yet, although the store and the log are locked*)
(* separately (lines 738-739, 1033-1062).                                  *)
AuditedExactlyOnce ==
  \A v \in 1 .. nextVersion - 1 :
    LET logged  == {i \in 0 .. audit.count - 1 : Nth(AuditSize, audit, i).version = v}
        pending == {o \in Ops : /\ op[o].pc \in {"added", "rolledBack", "restored"}
                                /\ op[o].entry.version = v}
        times   == Cardinality(logged) + Cardinality(pending)
    IN  times <= 1 /\ (nextVersion - 1 <= AuditSize => times = 1)

(* A rollback that found its version installs and records the configuration*)
(* that version had, under a number of its own, even when other operations *)
(* ran between lookup and rollback (lines 1024-1053).                      *)
RollbackRestores ==
  \A o \in Ops :
    op[o].pc \in {"rolledBack", "restored"} =>
      /\ op[o].entry.config = ledger[op[o].target]
      /\ op[o].entry.version > op[o].target
      /\ ledger[op[o].entry.version] = op[o].entry.config

(* Reloads and rollbacks that overlap may leave any of their              *)
(* configurations serving, but never an older one: when all have finished, *)
(* the served configuration is one recorded since they began, and it is    *)
(* unchanged when none succeeded (lines 732-735 and 1050-1053).            *)
DivergenceBounded ==
  AllIdle => IF nextVersion = calm.next
               THEN cfg = calm.cfg
               ELSE \E v \in calm.next .. nextVersion - 1 : cfg = ledger[v]

(* When of the operations that overlapped one at most recorded a version,  *)
(* what is served, the current version and the newest audit event agree    *)
(* afterwards.  However many did, the metadata gauge is not left empty.    *)
Agreement ==
  AllIdle =>
    /\ infoGauge # {}
    /\ nextVersion <= calm.next + 1 =>
         /\ cfg = Store!Current.config
         /\ Newest(audit, None).version = Store!Current.version

(* A request is answered consistently with the configurations served while *)
(* it ran: if they all answer alike it gets that answer, a rule or a       *)
(* rejection comes from one of them, and so does each half of a report     *)
(* (handleRedirect lines 358-422, handleConfig lines 680-684).             *)
AnswerExplained ==
  \A q \in Requests :
    LET r == request[q]
    IN  /\ r.pc = "answered" =>
             LET possible == {Answer(c, r.host) : c \in r.seen}
             IN  /\ Cardinality(possible) = 1 => r.answer \in possible
                 /\ r.answer \in {"rule", "misdirected"} => r.answer \in possible
        /\ r.pc = "reported" =>
             /\ \E c \in r.seen : r.version = c.version
             /\ \E c \in r.seen : r.rules = Store!RulesCount(c)

(* Those who may write: by a configured key, or by a token that a configured*)
(* key verifies, that has not expired and that the configured issuer made  *)
(* out for the configured audience.                                        *)
Writes(permissions) == permissions \intersect {"write", "admin"} # {}

KeyWriters == {e.name : e \in {k \in ToSet(Authentication.apiKeys) : Writes(k.permissions)}}

Bearers == {c \in Callers : c.authorization.scheme = "Bearer"}

TokenWriters ==
  {t.subject : t \in {u \in {c.authorization.value : c \in Bearers} :
     /\ Authentication.jwt
     /\ u.genuine /\ ~u.expired
     /\ Authentication.issuer # NoCredential => u.issuer = Authentication.issuer
     /\ Authentication.audience # NoCredential => Authentication.audience \in u.audiences
     /\ Writes(u.permissions)}}

(* A rollback is on record under the name of someone allowed to make it,   *)
(* whatever credentials others present, several at once or tokens that are *)
(* forged, expired or meant for others among them, and however operations  *)
(* interleave; without authentication it is anonymous (handleManagement    *)
(* lines 560-564, handleRollback lines 1055-1062, jwt.go lines 66-111).    *)
RollbackIsAccountable ==
  LET rollbacks == {i \in 0 .. audit.count - 1 : Nth(AuditSize, audit, i).type = "config_rollback"}
  IN  \A i \in rollbacks :
        Nth(AuditSize, audit, i).actor \in
          IF Authentication.enabled THEN KeyWriters \union TokenWriters ELSE {"anonymous"}
=============================================================================
