--------------------------- MODULE MCRequestPath ----------------------------
(***************************************************************************)
(* RequestPath for three requests of two clients, one of them exempt and   *)
(* asking for a host nobody knows, with latencies at the boundaries.       *)
(***************************************************************************)
EXTENDS RequestPath

Input(ip, path, exempt, host, status, rule, latency) ==
  [ip |-> ip, path |-> path, exempt |-> exempt, host |-> host,
   status |-> status, rule |-> rule, latency |-> latency]

MCInputs ==
  {Input("a", <<"/", "shop">>, FALSE, TRUE, 302, "shop", 10000),
   Input("a", <<"/">>, FALSE, TRUE, 404, "", 100),
   Input("b", <<"/", "shop">>, TRUE, FALSE, 302, "shop", 99)}

MCLimits ==
  {[path |-> <<"/">>, wild |-> TRUE], [path |-> <<"/", "shop">>, wild |-> TRUE],
   [path |-> <<"/">>, wild |-> FALSE]}

Symmetry == Permutations(Requests)
=============================================================================
