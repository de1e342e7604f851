------------------------------- MODULE Router -------------------------------
(***************************************************************************)
(* internal/router/router.go: which rule answers a request.  New sorts the *)
(* rules once and splits them into a map of exact matches, a list of       *)
(* prefixes and a list of patterns; Match looks in that order.  A router   *)
(* never changes: a reload builds another one.                             *)
(*                                                                         *)
(* Strings are sequences.  A path is a sequence of its parts, a host is    *)
(* <<>> (empty), <<name>> or <<name, port>>.  A rule is a record [type,    *)
(* host, priority, path, accepts]; "accepts" is the set of paths the       *)
(* compiled regular expression of a regex or glob rule finds a match in.   *)
(* Rules are known by their position in the configuration.                 *)
(***************************************************************************)
EXTENDS Integers, SequencesExt

CONSTANTS
  Rules,       \* the rules a configuration may contain
  RuleBound,   \* the most rules of a configuration
  Hosts,       \* the hosts requested
  Paths,       \* the paths requested
  NoRule       \* the nil *config.Rule

NoHost == <<>>

ASSUME NoRuleAssumption == RuleBound \in Nat \ {0} /\ NoRule \notin 1 .. RuleBound

ASSUME RulesAssumption ==
  \A rule \in Rules : /\ rule.type \in {"exact", "prefix", "regex", "glob"}
                      /\ rule.priority \in Int

VARIABLES
  rules,       \* the configuration, in file order
  router       \* [sorted, allowedHosts, allowAnyHost]

vars == <<rules, router>>

-----------------------------------------------------------------------------
(* New                                                                     *)

(* The comparison of lines 41-52.  It orders two prefixes of one priority  *)
(* by length but ties each of them with every other type, so it is not a   *)
(* weak order.                                                             *)
Less(rs, i, j) ==
  \/ rs[i].priority > rs[j].priority
  \/ /\ rs[i].priority = rs[j].priority
     /\ rs[i].type = "prefix" /\ rs[j].type = "prefix"
     /\ Len(rs[i].path) > Len(rs[j].path)

(* Insert with equals met from the wrong side: the sort is not stable.     *)
InsertUnstable(rs, sorted, i) ==
  InsertAt(sorted, SelectLastInSeq(sorted, LAMBDA j : Less(rs, j, i)) + 1, i)

(* One round of the insertion sort that sort.SliceStable is on the blocks  *)
(* of 20: rule i moves left past every neighbour it is less than.          *)
Insert(rs, sorted, i) ==
  InsertAt(sorted, SelectLastInSeq(sorted, LAMBDA j : ~Less(rs, i, j)) + 1, i)

(* What is sorted after each round.                                        *)
Sorted(rs) ==
  LET sorted[n \in 0 .. Len(rs)] == IF n = 0 THEN <<>> ELSE Insert(rs, sorted[n - 1], n)
  IN  sorted

Sort(rs) == Sorted(rs)[Len(rs)]

New(rs) ==
  [sorted       |-> Sort(rs),
   allowedHosts |-> {rs[i].host : i \in DOMAIN rs} \ {NoHost},
   allowAnyHost |-> \E i \in DOMAIN rs : rs[i].host = NoHost]

-----------------------------------------------------------------------------
(* Matching                                                                *)

StripPort(host) == IF Len(host) = 2 THEN <<host[1]>> ELSE host

(* IsAllowedHost with the catch-all rules forgotten.                       *)
IsAllowedHostListed(host) == StripPort(host) \in router.allowedHosts

IsAllowedHost(host) ==
  router.allowAnyHost \/ StripPort(host) \in router.allowedHosts

At(position) == IF position = 0 THEN NoRule ELSE router.sorted[position]

(* The exact matches are a map: of two rules with one key the later stays. *)
ExactAt(host, path) ==
  At(SelectLastInSeq(router.sorted,
       LAMBDA i : rules[i].type = "exact" /\ rules[i].host = host /\ rules[i].path = path))

(* MatchExact without its second lookup.                                   *)
MatchExactHostOnly(host, path) == ExactAt(host, path)

MatchExact(host, path) ==
  IF ExactAt(host, path) # NoRule THEN ExactAt(host, path) ELSE ExactAt(NoHost, path)

HostFits(i, host) == rules[i].host \in {NoHost, host}

(* MatchPrefix giving up at the first prefix for the host.                 *)
MatchPrefixFirst(host, path) ==
  LET i == At(SelectInSeq(router.sorted,
                LAMBDA j : rules[j].type = "prefix" /\ HostFits(j, host)))
  IN  IF i # NoRule /\ IsPrefix(rules[i].path, path) THEN i ELSE NoRule

MatchPrefix(host, path) ==
  At(SelectInSeq(router.sorted,
       LAMBDA i : rules[i].type = "prefix" /\ HostFits(i, host)
                    /\ IsPrefix(rules[i].path, path)))

MatchRegex(host, path) ==
  At(SelectInSeq(router.sorted,
       LAMBDA i : rules[i].type \in {"regex", "glob"} /\ HostFits(i, host)
                    /\ path \in rules[i].accepts))

Match(host, path) ==
  LET found == <<MatchExact(host, path), MatchPrefix(host, path), MatchRegex(host, path)>>
      hit   == SelectInSeq(found, LAMBDA i : i # NoRule)
  IN  IF hit = 0 THEN NoRule ELSE found[hit]

-----------------------------------------------------------------------------
(* Configurations come and grow by a rule at the end.                      *)

Load(rs) ==
  /\ rules' = rs
  /\ router' = New(rs)

Init ==
  \E r \in Rules :
    /\ rules = <<r>>
    /\ router = New(<<r>>)

AppendRule ==
  /\ Len(rules) < RuleBound
  /\ \E r \in Rules : Load(Append(rules, r))

Next == AppendRule

Spec == Init /\ [][Next]_vars

-----------------------------------------------------------------------------
(* Properties                                                              *)

(* Rule i, taken alone, covers the request.                                *)
Applies(i, host, path) ==
  /\ HostFits(i, host)
  /\ CASE rules[i].type = "exact"  -> rules[i].path = path
       [] rules[i].type = "prefix" -> IsPrefix(rules[i].path, path)
       [] OTHER                    -> path \in rules[i].accepts

Applicable(host, path, types) ==
  {i \in DOMAIN rules : rules[i].type \in types /\ Applies(i, host, path)}

Covering(host, path) == Applicable(host, path, {"exact", "prefix", "regex", "glob"})

(* The three-stage lookup answers no request with a rule that does not     *)
(* cover it, and misses none that a rule covers if its host names no port, *)
(* although the map of exact matches keeps one rule per key (lines         *)
(* 119-200).  With a port it may miss a rule for the host without it, since*)
(* only the allowlist strips the port (line 91).                           *)
MissesNothing ==
  \A host \in Hosts, path \in Paths :
    /\ Match(host, path) # NoRule => Match(host, path) \in Covering(host, path)
    /\ Len(host) < 2 /\ Covering(host, path) # {} => Match(host, path) # NoRule

(* The early rejection is only a short cut: while no rule names a port, a  *)
(* rejected host is one for which no rule would be found (lines 72-94).    *)
RejectionIsHarmless ==
  (\A i \in DOMAIN rules : Len(rules[i].host) < 2)
    => \A host \in Hosts, path \in Paths :
         Match(host, path) # NoRule => IsAllowedHost(host)

(* A prefix, regex or glob rule that answers has the highest priority among*)
(* the covering rules of its own type, and for a regex or a glob it is the *)
(* first of the file among those of that priority (lines 41-52, 157-200).  *)
(* Nothing is said of two types, which the code does not rank together, nor*)
(* of the length of two prefixes, which the sort may leave either way.     *)
BestOfItsKind ==
  \A host \in Hosts, path \in Paths :
    LET i == Match(host, path)
    IN  i # NoRule /\ rules[i].type # "exact" =>
          \A j \in Applicable(host, path, {rules[i].type}) :
            /\ rules[i].priority >= rules[j].priority
            /\ rules[i].priority = rules[j].priority /\ rules[i].type # "prefix" => i <= j

(* A rule added at the end of the file changes no answer to a request it   *)
(* does not cover, wherever the sort puts it (lines 38-70).                *)
UnrelatedRuleIsNeutral ==
  [][\A host \in Hosts, path \in Paths :
       ~Applies(Len(rules), host, path)' => Match(host, path)' = Match(host, path)]_vars
=============================================================================
