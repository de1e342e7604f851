--------------------------- MODULE MCVersionStore ---------------------------
(***************************************************************************)
(* VersionStore on four configurations over two rule IDs: one rule edited  *)
(* in a compared field, one edited only in an ignored field, one rule      *)
(* added, and a different server section.                                  *)
(***************************************************************************)
EXTENDS VersionStore

CONSTANT VersionBound   \* no more entries than this are stored

Rule(c, i) == [compared |-> c, ignored |-> i]

OneRule(r) == [id \in {"r1"} |-> r]

TwoRules(r, s) == [id \in {"r1", "r2"} |-> IF id = "r1" THEN r ELSE s]

MCConfigs ==
  {[version |-> "1", rules |-> OneRule(Rule("/a", "keep")),
    server |-> "8080", stats |-> NoSection, auth |-> NoSection],
   [version |-> "1", rules |-> OneRule(Rule("/b", "keep")),
    server |-> "8080", stats |-> NoSection, auth |-> NoSection],
   [version |-> "1", rules |-> OneRule(Rule("/a", "drop")),
    server |-> "8080", stats |-> NoSection, auth |-> [enabled |-> TRUE, rest |-> "k1"]],
   [version |-> "1", rules |-> TwoRules(Rule("/a", "keep"), Rule("/c", "keep")),
    server |-> "9090", stats |-> "on", auth |-> [enabled |-> TRUE, rest |-> "k2"]]}

MCNext == nextVersion <= VersionBound /\ Next

MCSpec == Init /\ [][MCNext]_vars
=============================================================================
