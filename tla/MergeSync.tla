----------------------------- MODULE MergeSync ------------------------------
(***************************************************************************)
(* internal/syncer/syncer.go: Start's loop, the webhook's TriggerSync and  *)
(* a watched source, each fetching, merging (MergeRules) and pushing on a  *)
(* goroutine of its own over the state of one Syncer.                      *)
(* doPush asks a target to reload and sends it no body, so all a push      *)
(* changes here is Healthy.  The counters of Status, the checks of webhook *)
(* signatures, and the time a retry waits are left out.                    *)
(***************************************************************************)
EXTENDS MergeRules, Integers

CONSTANTS
  Setups,         \* records [mode, validate, sources]; a source that is "tagged"
                  \* remembers the ETag of its last answer (http, github, gitlab)
  Names,          \* the names of the sources
  Targets,
  Contents,       \* the configurations a source may hold, as Load returned them
  Paths,          \* the paths LintForesees asks about
  RetryAttempts,
  EventBound      \* edits, failures, webhooks and watched changes there may be

ASSUME BoundsAssumption == RetryAttempts \in Nat /\ EventBound \in Nat

(* The three documented ways to resolve a conflict, and sources that their *)
(* names tell apart, as the names stand for the entries of the list.       *)
ASSUME SetupsAssumption ==
  \A s \in Setups :
    /\ s.mode \in {"error", "first", "priority"}
    /\ IsFiniteSet(s.sources)
    /\ \A x \in s.sources : x.name \in Names /\ x.priority \in Int /\ x.tagged \in BOOLEAN
    /\ \A x, y \in s.sources : x.name = y.name => x = y

(* Paths and what stands before the stars of a glob are sequences; Load    *)
(* refuses an exact or prefix rule without a path.                         *)
ASSUME ContentsAssumption ==
  \A c \in Contents :
    /\ c.rules \in Seq(Range(c.rules))
    /\ \A rule \in Range(c.rules) :
         /\ {"id", "type", "host", "path", "pattern"} \subseteq DOMAIN rule
         /\ rule.type \in {"exact", "prefix", "regex", "glob"}
         /\ rule.path \in Seq(Range(rule.path))
         /\ rule.type \in {"exact", "prefix"} => rule.path # <<>>
         /\ rule.type = "glob" => rule.pattern.base \in Seq(Range(rule.pattern.base))

(* Paths begin with a slash.                                               *)
ASSUME PathsAssumption == \A path \in Paths : path \in Seq(Range(path)) /\ IsPrefix(<<"/">>, path)

VARIABLES
  setup,          \* s.cfg
  content,        \* what each source holds
  tags,           \* what a tagged source last answered, its own ETag here
  syncs,          \* the goroutines
  current,        \* s.currentConfig
  report,         \* s.lastReport
  healthy,        \* Healthy of each target
  events

vars == <<setup, content, tags, syncs, current, report, healthy, events>>

Processes == {"ticker", "webhook", "watch"}

NoReport == [conflicts |-> {}, skipped |-> {}, failed |-> {}]

Idle ==
  [stage |-> "idle", sent |-> [n \in Names |-> Unset],
   fetched |-> [n \in Names |-> Unset], merged |-> NothingMerged,
   attempts |-> [t \in Targets |-> 0], outcome |-> [t \in Targets |-> "none"]]

Init ==
  /\ setup \in Setups
  /\ content \in [Names -> Contents]
  /\ tags = [n \in Names |-> Unset]
  /\ syncs = [p \in Processes |-> Idle]
  /\ current = NoConfig
  /\ report = NoReport
  /\ healthy = [t \in Targets |-> FALSE]
  /\ events = 0

Happens == events < EventBound /\ events' = events + 1

Edit(n) ==
  /\ Happens
  /\ \E c \in Contents \ {content[n]} : content' = [content EXCEPT ![n] = c]
  /\ UNCHANGED <<setup, tags, syncs, current, report, healthy>>

-----------------------------------------------------------------------------
Tagged(n) == \E s \in setup.sources : s.name = n /\ s.tagged

Tag(n) == IF Tagged(n) THEN [tags EXCEPT ![n] = content[n]] ELSE tags

(* Sync, from the start.                                                   *)
Begin(p) ==
  /\ syncs[p].stage = "idle"
  /\ syncs' = [syncs EXCEPT ![p] = [Idle EXCEPT !.stage = "fetching", !.sent = tags]]
  /\ UNCHANGED <<setup, content, tags, current, report, healthy>>

Tick == Begin("ticker") /\ UNCHANGED events

Webhook == Begin("webhook") /\ Happens

(* A watched source has changed, and its Watch keeps the new tag:          *)
(* watchSource pushes its configuration on its own, unmerged, which is of  *)
(* no consequence as doPush sends nothing.                                 *)
WatchedChange(n) ==
  /\ Happens
  /\ syncs["watch"].stage = "idle"
  /\ tags[n] # content[n]
  /\ tags' = Tag(n)
  /\ syncs' = [syncs EXCEPT !["watch"] = [Idle EXCEPT !.stage = "pushing"]]
  /\ UNCHANGED <<setup, content, current, report, healthy>>

(* One source answers, in the order the answers come.                      *)
Fetch(p, n, answer) ==
  /\ syncs[p].stage = "fetching" /\ syncs[p].fetched[n] = Unset
  /\ syncs' = [syncs EXCEPT ![p].fetched[n] = answer]
  /\ UNCHANGED <<setup, content, current, report, healthy>>

(* The tag a request carries: it was sent when the sync began, or later.   *)
IfNoneMatch(p, n) == {syncs[p].sent[n], tags[n]}

Answer(p, n) ==
  /\ \E tag \in IfNoneMatch(p, n) : tag # content[n]
  /\ Fetch(p, n, content[n])
  /\ tags' = Tag(n)
  /\ UNCHANGED events

(* 304, which is an error like any other.                                  *)
NotModified(p, n) ==
  /\ content[n] \in IfNoneMatch(p, n)
  /\ Fetch(p, n, NoConfig)
  /\ UNCHANGED <<tags, events>>

(* An error, the webhook's deadline, or a nil configuration; the tag may   *)
(* have been kept before the body failed.                                  *)
FetchFails(p, n) ==
  /\ Happens
  /\ Fetch(p, n, NoConfig)
  /\ tags' \in {tags, Tag(n)}

Answering(p) == {s \in setup.sources : syncs[p].fetched[s.name] # NoConfig}

(* Every merge of what may have been fetched, computed once.               *)
Merges ==
  UNION {{[setup |-> s, fetched |-> f, merged |-> MergeAll(s.mode, order, f)] :
           order \in MergeOrders({x \in s.sources : f[x.name] # NoConfig})} :
         s \in Setups, f \in [Names -> Contents \union {NoConfig}]}

Refused(merge) == merge.setup.mode = "error" /\ merge.merged.conflicts # {}

Invalid(merge) == merge.setup.validate /\ ~Valid(merge.merged)

ReportOf(p, merged) ==
  [conflicts |-> merged.conflicts, skipped |-> merged.skipped,
   failed |-> {s.name : s \in setup.sources \ Answering(p)}]

(* The rest of fetchAndMerge: a conflict in mode "error" leaves its report *)
(* and nothing else, an invalid merge not even that.                       *)
MergeFetched(p) ==
  /\ syncs[p].stage = "fetching"
  /\ \A n \in Names : syncs[p].fetched[n] # Unset
  /\ \E merge \in Merges :
       /\ merge.setup = setup /\ merge.fetched = syncs[p].fetched
       /\ report' = IF Refused(merge) \/ ~Invalid(merge)
                      THEN ReportOf(p, merge.merged) ELSE report
       /\ syncs' = [syncs EXCEPT ![p] =
            IF Refused(merge) \/ Invalid(merge) THEN Idle
            ELSE [@ EXCEPT !.stage = "pushing", !.merged = merge.merged]]
  /\ UNCHANGED <<setup, content, tags, current, healthy, events>>

-----------------------------------------------------------------------------
(* pushToTarget, one attempt of doPush.                                    *)
Pushing(p, t) == syncs[p].stage = "pushing" /\ syncs[p].outcome[t] = "none"

Deliver(p, t) ==
  /\ Pushing(p, t)
  /\ syncs' = [syncs EXCEPT ![p].outcome[t] = "delivered"]
  /\ UNCHANGED <<setup, content, tags, current, report, healthy, events>>

PushFails(p, t) ==
  /\ Happens
  /\ Pushing(p, t)
  /\ syncs' = [syncs EXCEPT
       ![p].attempts[t] = @ + 1,
       ![p].outcome[t] = IF syncs[p].attempts[t] = RetryAttempts THEN "failed" ELSE @]
  /\ UNCHANGED <<setup, content, tags, current, report, healthy>>

(* The 30 seconds of a webhook end: its request fails, and it does not wait*)
(* for another.                                                            *)
GiveUp(t) ==
  /\ Happens
  /\ Pushing("webhook", t)
  /\ syncs' = [syncs EXCEPT !["webhook"].outcome[t] = "failed"]
  /\ UNCHANGED <<setup, content, tags, current, report, healthy>>

(* The flag of a target that failed once stays down.                       *)
MarkTargetDown(p, t) ==
  /\ syncs[p].outcome[t] \in {"delivered", "failed"}
  /\ healthy' = IF syncs[p].outcome[t] = "failed" THEN [healthy EXCEPT ![t] = FALSE] ELSE healthy
  /\ syncs' = [syncs EXCEPT ![p].outcome[t] = IF @ = "failed" THEN "given up" ELSE "done"]
  /\ UNCHANGED <<setup, content, tags, current, report, events>>

(* The goroutine of the target writes its flag, without the lock.          *)
MarkTarget(p, t) ==
  /\ syncs[p].outcome[t] \in {"delivered", "failed"}
  /\ healthy' = [healthy EXCEPT ![t] = syncs[p].outcome[t] = "delivered"]
  /\ syncs' = [syncs EXCEPT ![p].outcome[t] = IF @ = "failed" THEN "given up" ELSE "done"]
  /\ UNCHANGED <<setup, content, tags, current, report, events>>

Published(merged) == [server |-> merged.server, defaults |-> merged.defaults, rules |-> merged.rules]

(* wg.Wait, and for Sync the new currentConfig.                            *)
Finish(p) ==
  /\ syncs[p].stage = "pushing"
  /\ \A t \in Targets : syncs[p].outcome[t] \in {"done", "given up"}
  /\ current' = IF p # "watch" /\ \A t \in Targets : syncs[p].outcome[t] = "done"
                  THEN Published(syncs[p].merged) ELSE current
  /\ syncs' = [syncs EXCEPT ![p] = Idle]
  /\ UNCHANGED <<setup, content, tags, report, healthy, events>>

Proceed(p) ==
  \/ \E n \in Names : Answer(p, n) \/ NotModified(p, n)
  \/ MergeFetched(p)
  \/ \E t \in Targets : Deliver(p, t) \/ MarkTarget(p, t)
  \/ Finish(p)

Trouble(p) ==
  \/ \E n \in Names : FetchFails(p, n)
  \/ \E t \in Targets : PushFails(p, t)

Next ==
  \/ Tick \/ Webhook
  \/ \E n \in Names : Edit(n) \/ WatchedChange(n)
  \/ \E p \in Processes : Proceed(p) \/ Trouble(p)
  \/ \E t \in Targets : GiveUp(t)

(* Every call has a deadline and the ticker keeps firing.                  *)
Fairness == WF_vars(Tick) /\ \A p \in Processes : WF_vars(Proceed(p))

Spec == Init /\ [][Next]_vars /\ Fairness

-----------------------------------------------------------------------------
Merged == {p \in Processes \ {"watch"} : syncs[p].stage = "pushing"}

RulesOf(p, source) == Range(syncs[p].fetched[source.name].rules)

(* What a sync publishes has one rule for a path key, and every rule of a  *)
(* source that answered is in it, or is named in the report by a conflict  *)
(* or as outside its source's allowed paths (syncer.go:426-512).           *)
NothingLost ==
  \A p \in Merged :
    LET merged == syncs[p].merged
    IN  /\ \A i, j \in DOMAIN merged.rules :
             PathKey(merged.rules[i]) = PathKey(merged.rules[j]) => i = j
        /\ \A source \in Answering(p) : \A rule \in RulesOf(p, source) :
             LET claim == [source |-> source.name, id |-> Prefixed(source, rule.id)]
             IN  \/ claim \in merged.skipped /\ ~Allowed(source, rule)
                 \/ [rule EXCEPT !.id = claim.id] \in Range(merged.rules)
                 \/ \E c \in merged.conflicts :
                      c.key = PathKey(rule) /\ claim \in Range(c.claims)

(* Among the rules of one path key that of a source of the highest priority*)
(* is published in mode "priority", that of the lowest in mode "first"     *)
(* (syncer.go:74-76 and 140-142).                                          *)
WinnerByPriority ==
  \A p \in Merged :
    \A key \in DOMAIN syncs[p].merged.owner, winner, loser \in Answering(p) :
      /\ syncs[p].merged.owner[key].source = winner.name
      /\ \E rule \in RulesOf(p, loser) : PathKey(rule) = key /\ Allowed(loser, rule)
      => /\ setup.mode = "priority" => winner.priority >= loser.priority
         /\ setup.mode = "first" => winner.priority <= loser.priority

(* A rule says by a path or by a pattern what it matches, not by both.     *)
Plain(rule) ==
  IF rule.type \in {"exact", "prefix"} THEN rule.pattern = Unset ELSE rule.path = <<>>

(* There are requests whose host fits both.                                *)
HostsMeet(x, y) == x.host = y.host \/ NoHost \in {x.host, y.host}

(* What the linter does not look for: a regular expression, a glob other   *)
(* than a trailing /**, a prefix above such a glob, and an exact rule for  *)
(* all hosts beside one for a host.                                        *)
Unforeseen(x, y) ==
  \/ x.type = "exact" /\ y.type = "exact" /\ x.host # y.host
  \/ \E r \in {x, y} : r.type = "regex" \/ (r.type = "glob" /\ r.pattern.shape # "all")
  \/ \E p, g \in {x, y} :
       p.type = "prefix" /\ g.type = "glob" /\ IsStrictPrefix(p.path, g.pattern.base)

(* Run on the same configurations, the linter of several sources names     *)
(* every path two sources conflict on in the merge; and where it names no  *)
(* path and no pair of rules, no path is matched by rules of two sources   *)
(* for one host, but for pairs of a kind it does not look for: see         *)
(* Unforeseen (lint.go:914-1076, syncer.go:472-500).                       *)
LintForesees ==
  \A p \in Merged :
    LET shared == SharedPaths(Answering(p), syncs[p].fetched)
    IN  /\ \A c \in syncs[p].merged.conflicts :
             c.claims[1].source # c.claims[2].source => c.key \in shared
        /\ shared = {} /\ Overlaps(Answering(p), syncs[p].fetched) = {} =>
             \A s, t \in Answering(p) : s # t =>
               \A x \in RulesOf(p, s), y \in RulesOf(p, t), path \in Paths :
                 /\ Plain(x) /\ Plain(y) /\ HostsMeet(x, y)
                 /\ PathMatchesRule(path, x) /\ PathMatchesRule(path, y)
                 => Unforeseen(x, y)

(* The merge of all sources is published, if there is one at all, and every*)
(* target is healthy.                                                      *)
UpToDate ==
  LET now == {m \in Merges : m.setup = setup /\ m.fetched = content}
  IN  (\A m \in now : ~Refused(m) /\ ~Invalid(m)) =>
        /\ \E m \in now : current = Published(m.merged)
        /\ \A t \in Targets : healthy[t]

(* Once the sources stay as they are and answer, their merge is published  *)
(* and stays published, and every target is healthy, if no source keeps an *)
(* ETag: a failed source comes back, and no slower sync's older answer     *)
(* remains (syncer.go:269-283, 315-339, 565-600).  A source that does      *)
(* answers "not modified" when nothing has changed, which is an error: its *)
(* rules are left out of every further merge (http.go:132-134,             *)
(* syncer.go:380).                                                         *)
Converges == (\A s \in setup.sources : ~s.tagged) => <>[]UpToDate
=============================================================================
