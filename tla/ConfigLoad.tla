----------------------------- MODULE ConfigLoad -----------------------------
(***************************************************************************)
(* internal/config/config.go: what becomes of the files of a configuration *)
(* directory.  A file or configuration is a record [version, server,       *)
(* defaults, stats, onlyOneFile, rules]; 0 is what is not there, the       *)
(* management port stands for all of the server section but the port, and  *)
(* "onlyOneFile" for auth, tracing and rate_limit.  A rule is a            *)
(* record [id, type, host, path, pattern, priority, status, to,            *)
(* preservePath, preserveQuery]; <<>> is the empty path and Unset whatever  *)
(* else YAML left at its zero value.                                       *)
(* YAML itself and the expansion of environment variables are left out.    *)
(***************************************************************************)
EXTENDS Naturals, SequencesExt

CONSTANT Unset

NoConfig ==
  [version |-> 0, server |-> [port |-> 0, management |-> 0],
   defaults |-> [status |-> 0, preserveQuery |-> FALSE],
   stats |-> 0, onlyOneFile |-> 0, rules |-> <<>>]

IsRedirect(rule) == rule.status \in 300 .. 399

-----------------------------------------------------------------------------
(* A name for every rule by its place in its list: what is written by hand *)
(* as "rule-2" is <<"rule", 2>>.                                           *)
GeneratedID(i) == <<"rule", i>>

(* applyDefaults for one rule.                                             *)
ApplyDefaultsTo(rule, i, defaults) ==
  [rule EXCEPT
    !.id = IF @ = Unset THEN GeneratedID(i) ELSE @,
    !.type = IF @ = Unset THEN "exact" ELSE @,
    !.status = IF @ = 0 THEN defaults.status ELSE @,
    !.preserveQuery = IF @ = Unset THEN defaults.preserveQuery ELSE @]

ApplyDefaults(cfg) ==
  LET defaults == [cfg.defaults EXCEPT !.status = IF @ = 0 THEN 301 ELSE @]
  IN  [cfg EXCEPT
        !.server.port = IF @ = 0 THEN 8080 ELSE @,
        !.server.management = IF @ = 0 THEN 8081 ELSE @,
        !.defaults = defaults,
        !.rules = [i \in DOMAIN @ |-> ApplyDefaultsTo(@[i], i, defaults)]]

(* Validate: every check of the loop; the compiled pattern is part of the  *)
(* rule from the start.                                                    *)
ValidRule(rule) ==
  /\ rule.status \in 100 .. 599
  /\ IsRedirect(rule) => rule.to # Unset
  /\ \/ rule.type \in {"exact", "prefix"} /\ rule.path # <<>>
     \/ rule.type \in {"regex", "glob"} /\ rule.pattern # Unset

Valid(cfg) ==
  /\ cfg.rules # <<>>
  /\ \A i, j \in DOMAIN cfg.rules : cfg.rules[i].id = cfg.rules[j].id => i = j
  /\ \A i \in DOMAIN cfg.rules : ValidRule(cfg.rules[i])

(* The configuration, or NoConfig with the error.                          *)
Checked(cfg) == IF Valid(cfg) THEN cfg ELSE NoConfig

Load(file) == Checked(ApplyDefaults(file))

(* The next file of a directory.  Rules are appended, of the servers with a*)
(* port and the versions the first stays, of the defaults and the          *)
(* statistics the last; auth, tracing and rate_limit are not taken over.   *)
Merge(merged, file) ==
  [version     |-> IF merged.version = 0 THEN file.version ELSE merged.version,
   server      |-> IF merged.server.port = 0 /\ file.server.port # 0
                     THEN file.server ELSE merged.server,
   defaults    |-> IF file.defaults.status # 0 THEN file.defaults ELSE merged.defaults,
   stats       |-> IF file.stats # 0 THEN file.stats ELSE merged.stats,
   onlyOneFile |-> merged.onlyOneFile,
   rules       |-> merged.rules \o file.rules]

(* What is merged after each file.                                         *)
MergeRounds(files) ==
  LET merged[n \in 0 .. Len(files)] ==
        IF n = 0 THEN NoConfig ELSE Merge(merged[n - 1], files[n])
  IN  merged

(* LoadDirectory with the defaults applied file by file, as Load does.     *)
LoadDirectoryByFile(files) ==
  LET applied == [k \in DOMAIN files |-> ApplyDefaults(files[k])]
  IN  Checked(ApplyDefaults(MergeRounds(applied)[Len(files)]))

(* Files come sorted by their full path.                                   *)
LoadDirectory(files) == Checked(ApplyDefaults(MergeRounds(files)[Len(files)]))
=============================================================================
