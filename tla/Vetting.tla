------------------------------ MODULE Vetting ------------------------------
(***************************************************************************)
(* redirector-sync -lint on a directory (cmd/redirector-sync/main.go,      *)
(* runSingleLint): load it, build the graph of its redirects and search it *)
(* for loops.  Composes ConfigLoad, Lint and CycleSearch, and compares     *)
(* their verdict with what Router does with the same rules.                *)
(***************************************************************************)
EXTENDS CycleSearch, Lint, Integers

CONSTANTS
  Directories,   \* directories: sequences of files
  Hosts,         \* the hosts requested
  Paths,         \* the paths requested
  NoRule         \* the nil *config.Rule

ASSUME BoundsAssumption == IsFiniteSet(Hosts) /\ NoRule \notin 1 .. N

(* What a rule of a file holds: paths are sequences, that of a destination *)
(* at least a slash; a glob matches nothing outside its base; the hosts    *)
(* that rules name are among those requested.                              *)
WellFormed(rule) ==
  /\ {"id", "type", "status", "preserveQuery"} \subseteq DOMAIN rule
  /\ rule.host \in Hosts \union {NoHost}
  /\ rule.path \in Seq(Range(rule.path))
  /\ rule.priority \in Int /\ rule.preservePath \in BOOLEAN
  /\ rule.to # Unset => rule.to.path \in Seq(Range(rule.to.path)) /\ rule.to.path # <<>>
  /\ rule.type = "glob" /\ rule.pattern # Unset =>
       /\ rule.pattern.shape \in {"all", "one", "other"}
       /\ \A path \in rule.pattern.accepts :
            /\ rule.pattern.shape = "all" => IsPrefix(rule.pattern.base, path)
            /\ rule.pattern.shape = "one" => IsStrictPrefix(rule.pattern.base, path)

ASSUME PathsAssumption == \A path \in Paths : path \in Seq(Range(path))

(* Directories of at most N rules.                                         *)
ASSUME DirectoriesAssumption ==
  \A directory \in Directories :
    /\ directory \in Seq(Range(directory))
    /\ Len(LoadDirectory(directory).rules) <= N
    /\ \A file \in Range(directory) :
         /\ file.defaults \in [status : Nat, preserveQuery : BOOLEAN]
         /\ file.server \in [port : Nat, management : Nat]
         /\ file.rules \in Seq(Range(file.rules))
         /\ \A rule \in Range(file.rules) : WellFormed(rule)

VARIABLES
  files,         \* the directory
  cfg            \* what was loaded; no rules before that and after an error

vars == <<files, cfg, adj, searchVars>>

Init ==
  /\ files \in Directories
  /\ cfg = NoConfig
  /\ adj = [u \in Nodes |-> <<>>]
  /\ StartSearch

LoadConfig ==
  /\ cfg = NoConfig
  /\ cfg' = LoadDirectory(files)
  /\ cfg' # NoConfig
  /\ adj' = BuildRedirectGraph(cfg'.rules, Nodes)
  /\ UNCHANGED <<files, searchVars>>

FindCycles ==
  /\ cfg # NoConfig
  /\ Search
  /\ UNCHANGED <<files, cfg>>

Next == LoadConfig \/ FindCycles

Spec == Init /\ [][Next]_vars

Linted == cfg # NoConfig /\ SearchDone

-----------------------------------------------------------------------------
(* What the server would do with these rules                               *)

RouterRules ==
  [i \in DOMAIN cfg.rules |->
     [type |-> cfg.rules[i].type, host |-> cfg.rules[i].host,
      priority |-> cfg.rules[i].priority, path |-> cfg.rules[i].path,
      accepts |-> IF cfg.rules[i].pattern = Unset THEN {} ELSE cfg.rules[i].pattern.accepts]]

Sorter == INSTANCE Router WITH
  Rules <- {}, RuleBound <- N, rules <- RouterRules, router <- <<>>

Served == INSTANCE Router WITH
  Rules <- {}, RuleBound <- N, rules <- RouterRules, router <- Sorter!New(RouterRules)

(* A rule whose destination has the rest of the request's path appended.   *)
Appends(i) == cfg.rules[i].preservePath /\ cfg.rules[i].type = "prefix"

(* The destination handleRedirect sends, suffix and all.                   *)
Location(i, path) ==
  LET rule == cfg.rules[i]
  IN  IF Appends(i) THEN rule.to.path \o SubSeq(path, Len(rule.path) + 1, Len(path))
                    ELSE rule.to.path

(* The request a client makes when rule i has answered <<host, path>>.     *)
Followed(i, host, path) ==
  <<IF cfg.rules[i].to.host = NoHost THEN host ELSE cfg.rules[i].to.host, Location(i, path)>>

(* The rule that answers: none for a host the server turns away, and none  *)
(* for one that no rule names, of which the linter cannot know.            *)
Answers(host, path) ==
  IF host \in LocalHosts(cfg.rules) \union {NoHost} /\ Served!IsAllowedHost(host)
    THEN Served!Match(host, path) ELSE NoRule

Final == [rule |-> NoRule, host |-> NoHost, path |-> <<>>]

Request(host, path) == [rule |-> Answers(host, path), host |-> host, path |-> path]

(* The rules of some kinds that send all they answer to one place.         *)
Plain(kinds) == {i \in DOMAIN cfg.rules : cfg.rules[i].type \in kinds /\ ~Appends(i)}

(* What a client asks next, if it was redirected by one of the rules heeded.*)
FollowUp(last, heeded) ==
  LET to == Followed(last.rule, last.host, last.path)
  IN  IF last.rule \in heeded /\ IsRedirect(cfg.rules[last.rule])
        THEN Request(to[1], to[2]) ELSE Final

(* The first n requests of a client that follows such redirects only.      *)
Trail(first, heeded, n) ==
  LET trail[k \in 1 .. n] == IF k = 1 THEN first ELSE FollowUp(trail[k - 1], heeded)
  IN  trail

Enough == Len(cfg.rules) * Cardinality(Hosts) + 1

(* The rules a client meets again and again through plain rules: after as  *)
(* many redirects as there are rules and hosts it repeats itself.          *)
LoopRules(first, kinds) ==
  LET trail == Trail(first, Plain(kinds), 2 * Enough)
  IN  {trail[k].rule : k \in Enough .. 2 * Enough} \ {NoRule}

FirstRequests == {Request(host, path) : host \in Hosts, path \in Paths}

(* v can be reached from u in the graph: it lies in every set of nodes that*)
(* has u and is closed under redirects.                                    *)
Leads(u, v) ==
  \A S \in SUBSET Nodes :
    u \in S /\ (\A w \in S, x \in Nodes : Edge(w, x) => x \in S) => v \in S

-----------------------------------------------------------------------------
(* Properties                                                              *)

(* A client that is sent round and round through at least two rules, all   *)
(* of them exact rules or prefix rules that append nothing to their        *)
(* destination, is foretold: the search reports a cycle through their part *)
(* of the graph, although the graph knows neither hosts nor priorities and *)
(* the search does not report every cycle (lines 490-605).  The graph has  *)
(* no suffixes and no edge from a rule to itself: loops through several    *)
(* rules of which one appends, and an exact rule to its own path, are not  *)
(* foretold.                                                               *)
LoopsAreReported ==
  Linted =>
    \A first \in FirstRequests :
      LET loop == LoopRules(first, {"exact", "prefix"})
      IN  Cardinality(loop) > 1 =>
            \E c \in cycles : \A i \in loop : Leads(i, c[1]) /\ Leads(c[1], i)

(* A prefix rule with preserve_path that sends a request to a path at least*)
(* as long that it answers again is reported (lines 649-681).              *)
GrowingLoopsAreReported ==
  Linted =>
    \A first \in FirstRequests :
      LET i  == first.rule
          to == Followed(i, first.host, first.path)
      IN  /\ i # NoRule /\ IsRedirect(cfg.rules[i])
          /\ cfg.rules[i].type = "prefix" /\ cfg.rules[i].preservePath
          /\ Answers(to[1], to[2]) = i /\ Len(to[2]) >= Len(first.path)
          => i \in PrefixSelfLoops(cfg.rules)

(* A pattern rule without captures that a client meets in every request or *)
(* in every second one, sent back by a rule that appends nothing to its    *)
(* destination, is warned of, unless it is or is sent back by a glob with  *)
(* stars inside (lines 685-761).                                           *)
PatternLoopsAreWarned ==
  Linted =>
    \A first \in FirstRequests :
      LET loop == LoopRules(first, {"exact", "prefix", "regex", "glob"})
      IN  /\ Cardinality(loop) <= 2
          /\ \A i \in loop : cfg.rules[i].type = "glob" => cfg.rules[i].pattern.shape # "other"
          => \A i \in loop : cfg.rules[i].type \in {"regex", "glob"} => i \in PatternCycles(cfg.rules)

(* An exact or prefix rule that never answers, because another of its kind *)
(* and priority answers all it covers, has a warning (lines 131-198).      *)
SilencedIsWarned ==
  Linted =>
    \A i, j \in DOMAIN cfg.rules :
      LET covered == {at \in Hosts \X Paths : Served!Applies(i, at[1], at[2])}
      IN  /\ i # j /\ covered # {}
          /\ cfg.rules[i].type = cfg.rules[j].type /\ cfg.rules[i].type \in {"exact", "prefix"}
          /\ cfg.rules[i].priority = cfg.rules[j].priority
          /\ \A at \in covered : Served!Match(at[1], at[2]) = j
          => {<<i, j>>, <<j, i>>} \cap OverlapWarnings(cfg.rules) # {}

(* The one file that holds the sections and all the rules of a directory.  *)
OneFile ==
  LET from(section) == SelectInSeq(files, LAMBDA f : f[section] # NoConfig[section])
      of(section)   == IF from(section) = 0 THEN NoConfig[section]
                                            ELSE files[from(section)][section]
  IN  [version |-> of("version"), server |-> of("server"), defaults |-> of("defaults"),
       stats |-> of("stats"), onlyOneFile |-> of("onlyOneFile"),
       rules |-> FlattenSeq([k \in DOMAIN files |-> files[k].rules])]

SetOnce(section) ==
  Cardinality({k \in DOMAIN files : files[k][section] # NoConfig[section]}) <= 1

(* A directory in which no section stands twice is the one file with       *)
(* everything in it, for better or worse: unnamed rules get the same IDs,  *)
(* rules the same defaults, and both are refused or neither (config.go     *)
(* lines 162-289).  Not so with the sections that are read from a single   *)
(* file only, with defaults that do not set a status and with a server     *)
(* section that does not set a port: those are lost.                       *)
DirectoryIsOneFile ==
  /\ \A section \in {"version", "server", "defaults", "stats"} : SetOnce(section)
  /\ OneFile.onlyOneFile = 0
  /\ OneFile.defaults.preserveQuery => OneFile.defaults.status # 0
  /\ OneFile.server.management # 0 => OneFile.server.port # 0
  => LoadDirectory(files) = Load(OneFile)
=============================================================================
