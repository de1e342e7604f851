--------------------------- MODULE MCConfigServer ---------------------------
(***************************************************************************)
(* ConfigServer on configurations that differ in rule count, version and   *)
(* the hosts they serve.                                                   *)
(***************************************************************************)
EXTENDS ConfigServer, TLC

Serving(h) == [compared |-> h, ignored |-> "none"]

Sections(version, rules) ==
  [version |-> version, rules |-> rules, server |-> "8080",
   stats |-> NoSection, auth |-> NoSection]

ForA  == Sections("1", [id \in {"r1"} |-> Serving("a")])
ForAB == Sections("2", [id \in {"r1", "r2"} |-> IF id = "r1" THEN Serving("a") ELSE Serving("b")])

TwoConfigs == {ForA, ForAB}

(* A key that may write and one that may not.                              *)
MCAuthentication ==
  [enabled |-> TRUE, allowIPs |-> {"10.0.0.1"}, jwt |-> TRUE,
   issuer |-> "corp", audience |-> "redirector",
   apiKeys |-> <<[key |-> "k1", name |-> "ops", permissions |-> {"write"}],
                 [key |-> "k2", name |-> "deploy", permissions |-> {"reload", "read"}]>>]

Token(subject, permissions) ==
  [genuine |-> TRUE, expired |-> FALSE, issuer |-> "corp", audiences |-> {"redirector", "wiki"},
   permissions |-> permissions, subject |-> subject]

(* ops may write with a token too, a reader was given none; of the others, *)
(* which claim all, each has one fault.                                    *)
Tokens ==
  {Token("ops", {"write"}), Token("reader", {}),
   [Token("forger", {"admin"}) EXCEPT !.genuine = FALSE],
   [Token("leaver", {"admin"}) EXCEPT !.expired = TRUE],
   [Token("partner", {"admin"}) EXCEPT !.issuer = "other"],
   [Token("wikibot", {"admin"}) EXCEPT !.audiences = {"wiki"}]}

Caller(ip, headerKey, scheme, value, queryKey) ==
  [ip |-> ip, headerKey |-> headerKey, queryKey |-> queryKey,
   authorization |-> [scheme |-> scheme, value |-> value]]

MCCallers ==
  {Caller("10.0.0.2", "k1", "", NoCredential, NoCredential),
   Caller("10.0.0.2", NoCredential, "ApiKey", "k1", "k2"),
   Caller("10.0.0.2", "k2", "", NoCredential, "k1"),
   Caller("10.0.0.1", NoCredential, "", NoCredential, NoCredential)}
    \union {Caller("10.0.0.2", "k3", "Bearer", t, NoCredential) : t \in Tokens}

OpSymmetry == Permutations(Ops)
=============================================================================
