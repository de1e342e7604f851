-------------------------------- MODULE Lint --------------------------------
(***************************************************************************)
(* internal/lint/lint.go as operators on the rules of a configuration, a   *)
(* sequence of the records of ConfigLoad.  A pattern is a record [shape,   *)
(* base, accepts]: what its compiled expression matches, and for a glob    *)
(* the path before its stars, with shape "all" for a trailing /**, "one"   *)
(* for a trailing /* and "other" for any other; a regex has shape "regex". *)
(* A destination is a record [host, path].  Regular expressions without    *)
(* captures only, so that the sample path of a pattern rule does not       *)
(* change its destination.  Hints on style are left out.                   *)
(***************************************************************************)
EXTENDS ConfigLoad

NoHost == <<>>

LocalHosts(rules) == {rules[i].host : i \in DOMAIN rules} \ {NoHost}

(* The path of a destination of this service, or <<>>.                     *)
DestinationPath(rules, i) ==
  IF rules[i].to.host \in LocalHosts(rules) \union {NoHost} THEN rules[i].to.path ELSE <<>>

GlobMatchesPath(pattern, path) ==
  \/ pattern.shape \in {"all", "one"} /\ pattern.base = <<"/">>
  \/ pattern.shape = "all" /\ IsPrefix(pattern.base, path)
  \/ pattern.shape = "one" /\ IsStrictPrefix(pattern.base, path)

(* The host of the rule plays no part.                                     *)
PathMatchesRule(path, rule) ==
  CASE rule.type = "exact"  -> path = rule.path
    [] rule.type = "prefix" -> IsPrefix(rule.path, path)
    [] rule.type = "regex"  -> path \in rule.pattern.accepts
    [] rule.type = "glob"   -> GlobMatchesPath(rule.pattern, path)

RedirectRules(rules) == {i \in DOMAIN rules : IsRedirect(rules[i])}

(* Redirects with the rules that look like a catch-all left out.           *)
RedirectsToExactOnly(rules, i, j) ==
  /\ i # j /\ {i, j} \subseteq RedirectRules(rules)
  /\ rules[j].type = "exact"
  /\ DestinationPath(rules, i) # <<>>
  /\ PathMatchesRule(DestinationPath(rules, i), rules[j])

Redirects(rules, i, j) ==
  /\ i # j /\ {i, j} \subseteq RedirectRules(rules)
  /\ DestinationPath(rules, i) # <<>>
  /\ PathMatchesRule(DestinationPath(rules, i), rules[j])

(* The inner loop: the targets among the first n rules, in their order.    *)
TargetRounds(rules, i) ==
  LET targets[n \in 0 .. Len(rules)] ==
        IF n = 0 THEN <<>>
        ELSE IF Redirects(rules, i, n) THEN Append(targets[n - 1], n) ELSE targets[n - 1]
  IN  targets

BuildRedirectGraph(rules, nodes) == [i \in nodes |-> TargetRounds(rules, i)[Len(rules)]]

(* checkPrefixSelfLoops with the two paths the wrong way round.            *)
PrefixSelfLoopsSwapped(rules) ==
  {i \in RedirectRules(rules) :
     /\ rules[i].type = "prefix" /\ rules[i].preservePath
     /\ DestinationPath(rules, i) # <<>>
     /\ IsStrictPrefix(DestinationPath(rules, i), rules[i].path)}

PrefixSelfLoops(rules) ==
  {i \in RedirectRules(rules) :
     /\ rules[i].type = "prefix" /\ rules[i].preservePath
     /\ IsPrefix(rules[i].path, DestinationPath(rules, i))}

(* checkRegexGlobCycles looking at the rule itself only.                   *)
PatternCyclesDirect(rules) ==
  {i \in RedirectRules(rules) :
     /\ rules[i].type \in {"regex", "glob"}
     /\ DestinationPath(rules, i) # <<>>
     /\ PathMatchesRule(DestinationPath(rules, i), rules[i])}

(* checkRegexGlobCycles: the destination of a pattern rule leads back to it*)
(* at once or through one other rule.                                      *)
PatternCycles(rules) ==
  {i \in RedirectRules(rules) :
     /\ rules[i].type \in {"regex", "glob"}
     /\ DestinationPath(rules, i) # <<>>
     /\ \/ PathMatchesRule(DestinationPath(rules, i), rules[i])
        \/ \E j \in RedirectRules(rules) \ {i} :
             /\ PathMatchesRule(DestinationPath(rules, i), rules[j])
             /\ DestinationPath(rules, j) # <<>>
             /\ PathMatchesRule(DestinationPath(rules, j), rules[i])}

-----------------------------------------------------------------------------
(* detectOverlap comparing two prefixes in one direction only.             *)
OverlapOneWay(r1, r2) ==
  \/ r1.type = "exact" /\ r2.type = "exact" /\ r1.path = r2.path
  \/ r1.type = "prefix" /\ r2.type = "prefix" /\ IsStrictPrefix(r1.path, r2.path)

(* detectOverlap: rules that may match one path, whatever their hosts.     *)
Overlap(r1, r2) ==
  \/ r1.type = "exact" /\ r2.type = "exact" /\ r1.path = r2.path
  \/ r1.type = "prefix" /\ r2.type = "prefix"
     /\ (IsPrefix(r1.path, r2.path) \/ IsPrefix(r2.path, r1.path))
  \/ \E p, e \in {r1, r2} :
       p.type = "prefix" /\ e.type = "exact" /\ IsPrefix(p.path, e.path)
  \/ \E g \in {r1, r2} : g.type = "glob" /\ g.pattern.shape = "all"

(* checkOverlappingPatterns: a warning only between equal priorities.      *)
OverlapWarnings(rules) ==
  {p \in (DOMAIN rules) \X (DOMAIN rules) :
     /\ p[1] < p[2] /\ Overlap(rules[p[1]], rules[p[2]])
     /\ rules[p[1]].priority = rules[p[2]].priority}
=============================================================================
