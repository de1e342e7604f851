----------------------------- MODULE MergeRules -----------------------------
(***************************************************************************)
(* Merging the configurations of several teams: the second half of         *)
(* fetchAndMerge in internal/syncer/syncer.go, and what the linter of      *)
(* several sources in internal/lint/lint.go says of them beforehand.       *)
(* A source has a name, prefix, priority and allowed paths; an ID is the   *)
(* tuple of its parts, so that a prefixed ID can be the same as one        *)
(* written out.  Rules are the records of ConfigLoad and Lint.  Wording    *)
(* and time stamps of the report are left out.                             *)
(***************************************************************************)
EXTENDS Lint

(* A regex here is a plain path, "base".                                   *)
PatternText(pattern) ==
  CASE pattern.shape = "all" -> Append(pattern.base, "**")
    [] pattern.shape = "one" -> Append(pattern.base, "*")
    [] OTHER                 -> pattern.base

(* What two rules are taken to conflict by: not their types.               *)
PathKey(rule) ==
  <<rule.host, IF rule.path # <<>> THEN rule.path ELSE PatternText(rule.pattern)>>

Prefixed(source, id) == IF source.prefix = Unset THEN id ELSE <<source.prefix>> \o id

Allowed(source, rule) ==
  source.allowed = {} \/
    \E path \in source.allowed :
      \/ IsPrefix(path, rule.path)
      \/ rule.pattern # Unset /\ IsPrefix(path, PatternText(rule.pattern))

(* What of a list is kept after each of its places, if those in "keep" are.*)
KeepRounds(list, keep) ==
  LET kept[n \in 0 .. Len(list)] ==
        IF n = 0 THEN <<>>
        ELSE IF n \in keep THEN Append(kept[n - 1], list[n]) ELSE kept[n - 1]
  IN  kept

(* removeRuleByPath without the host.                                      *)
RemoveRuleByPathOnly(rules, key) ==
  KeepRounds(rules, {k \in DOMAIN rules : PathKey(rules[k])[2] # key[2]})[Len(rules)]

RemoveRuleByPath(rules, key) ==
  KeepRounds(rules, {k \in DOMAIN rules : PathKey(rules[k]) # key})[Len(rules)]

(* The merge in progress.  "owner" is pathToSource with pathToRuleID.      *)
NothingMerged ==
  [server |-> NoConfig.server, defaults |-> NoConfig.defaults, rules |-> <<>>,
   owner |-> <<>>, conflicts |-> {}, skipped |-> {}]

(* One more rule of a source, its ID prefixed.                             *)
MergeRule(mode, source, merged, fetched) ==
  LET rule     == [fetched EXCEPT !.id = Prefixed(source, @)]
      key      == PathKey(rule)
      taken    == key \in DOMAIN merged.owner
      claim    == [source |-> source.name, id |-> rule.id]
      reported == [merged EXCEPT !.conflicts = @ \union {[key |-> key, claims |-> <<merged.owner[key], claim>>]}]
      Adopt(m, rules) ==
        [m EXCEPT !.rules = Append(rules, rule),
                  !.owner = [k \in DOMAIN @ \union {key} |-> IF k = key THEN claim ELSE @[k]]]
  IN  CASE ~Allowed(source, rule) -> [merged EXCEPT !.skipped = @ \union {claim}]
        [] Allowed(source, rule) /\ taken /\ mode \in {"error", "first"} -> reported
        [] Allowed(source, rule) /\ taken /\ mode = "priority" ->
             Adopt(reported, RemoveRuleByPath(merged.rules, key))
        [] OTHER -> Adopt(merged, merged.rules)

(* What is merged after each rule of a source.                             *)
RuleRounds(mode, merged, source, config) ==
  LET after[n \in 0 .. Len(config.rules)] ==
        IF n = 0 THEN merged ELSE MergeRule(mode, source, after[n - 1], config.rules[n])
  IN  after

(* The server section comes from the first source with a port, the defaults*)
(* from the first with a status, whatever the mode.                        *)
MergeSource(mode, merged, source, config) ==
  RuleRounds(mode,
             [merged EXCEPT !.server   = IF @.port = 0 /\ config.server.port # 0
                                           THEN config.server ELSE @,
                            !.defaults = IF @.status = 0 THEN config.defaults ELSE @],
             source, config)[Len(config.rules)]

(* The orders sort.Slice may leave the sources in with the order of merging*)
(* turned round.                                                           *)
MergeOrdersDescending(sources) ==
  {order \in SetToSeqs(sources) :
     \A i, j \in DOMAIN order : i < j => order[i].priority >= order[j].priority}

(* The orders sort.Slice may leave the sources in.                         *)
MergeOrders(sources) ==
  {order \in SetToSeqs(sources) :
     \A i, j \in DOMAIN order : i < j => order[i].priority <= order[j].priority}

(* What is merged after each source.                                       *)
SourceRounds(mode, order, configs) ==
  LET after[n \in 0 .. Len(order)] ==
        IF n = 0 THEN NothingMerged
        ELSE MergeSource(mode, after[n - 1], order[n], configs[order[n].name])
  IN  after

MergeAll(mode, order, configs) == SourceRounds(mode, order, configs)[Len(order)]

-----------------------------------------------------------------------------
(* checkCrossSourceConflicts, first half: the path keys that rules of more *)
(* than one source share.                                                  *)
SharedPaths(sources, configs) ==
  {key \in UNION {{PathKey(rule) : rule \in Range(configs[s.name].rules)} : s \in sources} :
     \E s, t \in sources : s # t /\
       \A u \in {s, t} : \E rule \in Range(configs[u.name].rules) : PathKey(rule) = key}

(* detectCrossSourceOverlap with an exact rule only looked for on the right.*)
CrossSourceOverlapOneWay(r1, r2) ==
  \/ r1.type = "prefix" /\ r2.type = "prefix" /\ IsPrefix(r1.path, r2.path)
  \/ r1.type = "prefix" /\ r2.type = "exact" /\ IsPrefix(r1.path, r2.path)

(* One way round, of the patterns only globs with a trailing /**.          *)
Covers(p, r) ==
  \/ p.type = "prefix" /\ r.type \in {"exact", "prefix"} /\ IsPrefix(p.path, r.path)
  \/ p.type = "glob" /\ p.pattern.shape = "all" /\ IsPrefix(p.pattern.base, PathKey(r)[2])

CrossSourceOverlap(r1, r2) == Covers(r1, r2) \/ Covers(r2, r1)

(* checkCrossSourceConflicts, second half: pairs of rules by their IDs.    *)
Overlaps(sources, configs) ==
  LET order == SetToSeq(sources)
      rules(i) == Range(configs[order[i].name].rules)
  IN  UNION {{<<Prefixed(order[p[1]], q[1].id), Prefixed(order[p[2]], q[2].id)>> :
                q \in {r \in rules(p[1]) \X rules(p[2]) : CrossSourceOverlap(r[1], r[2])}} :
             p \in {p \in (DOMAIN order) \X (DOMAIN order) : p[1] < p[2]}}
=============================================================================
