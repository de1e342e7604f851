------------------------------ MODULE MCRouter ------------------------------
(***************************************************************************)
(* Router on paths of up to two parts, one host with and without a port,   *)
(* and rules of every type at two priorities.                              *)
(***************************************************************************)
EXTENDS Router

Home == <<"/">>
Blog == <<"/", "blog">>
Post == <<"/", "blog", "post">>

MCPaths == {Home, Blog, Post}
MCHosts == {<<>>, <<"a">>, <<"a", "8080">>, <<"b">>}

Rule(type, host, priority, path, accepts) ==
  [type |-> type, host |-> host, priority |-> priority, path |-> path, accepts |-> accepts]

Exact == {Rule("exact", h, p, Blog, {}) : h \in {NoHost, <<"a">>}, p \in {0, 1}}
Prefix == {Rule("prefix", h, p, d, {}) : h \in {NoHost, <<"a">>}, p \in {0, 1}, d \in {Home, Blog}}
Pattern ==
  {Rule("regex", NoHost, p, <<>>, {Post}) : p \in {0, 1}}
    \union {Rule("glob", <<"a">>, p, <<>>, {Blog, Post}) : p \in {0, 1}}
Ported == {Rule("prefix", <<"a", "8080">>, 1, Home, {})}

MCRules == Exact \union Prefix \union Pattern \union Ported
=============================================================================
