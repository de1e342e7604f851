----------------------------- MODULE MCVetting -----------------------------
(***************************************************************************)
(* Vetting on single files of up to three rules that redirect to each      *)
(* other, and on directories of up to two files that leave out sections,   *)
(* IDs, types and statuses.                                                *)
(***************************************************************************)
EXTENDS Vetting

Home == <<"/">>
Old == <<"/", "old">>
New == <<"/", "new">>
Deep == <<"/", "old", "x">>
Deeper == <<"/", "new", "x">>

MCPaths == {Home, Old, New, Deep}
MCHosts == {NoHost, <<"a">>}

Here(path) == [host |-> NoHost, path |-> path]
OnA(path) == [host |-> <<"a">>, path |-> path]
Elsewhere == [host |-> <<"www">>, path |-> Old]

Glob(shape, base, accepts) == [shape |-> shape, base |-> base, accepts |-> accepts]

Rule(type, host, path, pattern, priority, to, preservePath) ==
  [id |-> Unset, type |-> type, host |-> host, path |-> path, pattern |-> pattern,
   priority |-> priority, status |-> 302, to |-> to, preservePath |-> preservePath,
   preserveQuery |-> FALSE]

Exact(host, path, priority, to) == Rule("exact", host, path, Unset, priority, to, FALSE)
Prefix(host, path, priority, to, keep) == Rule("prefix", host, path, Unset, priority, to, keep)
Pattern(type, pattern, to) == Rule(type, NoHost, <<>>, pattern, 0, to, FALSE)

LintRules ==
  {Exact(NoHost, Old, 0, Here(New)), Exact(NoHost, New, 0, Here(Old)),
   Exact(NoHost, New, 1, Here(Deep)), Exact(NoHost, Old, 0, Here(Old)),
   Exact(<<"a">>, Old, 0, Here(New)), Exact(NoHost, New, 0, OnA(Old)),
   Exact(NoHost, New, 0, Elsewhere), Exact(NoHost, Deep, 0, Here(Home)),
   Prefix(NoHost, Old, 0, Here(New), FALSE), Prefix(<<"a">>, Old, 1, Here(New), FALSE),
   Prefix(NoHost, Home, 0, Here(Deep), FALSE), Prefix(NoHost, Old, 0, Here(Deep), TRUE),
   Prefix(NoHost, Deep, 0, Here(Old), TRUE),
   Prefix(NoHost, Old, 0, Here(New), TRUE), Exact(NoHost, Deeper, 0, Here(Deep)),
   Pattern("glob", Glob("all", Old, {Old, Deep}), Here(New)),
   Pattern("glob", Glob("one", Old, {Deep}), Here(Deep)),
   Pattern("glob", Glob("other", <<>>, {Deep}), Here(Deep)),
   Pattern("regex", Glob("regex", <<>>, {New}), Here(Old))}

Defaults(status, preserveQuery) == [status |-> status, preserveQuery |-> preserveQuery]

File(version, server, defaults, onlyOneFile, rules) ==
  [version |-> version, server |-> server, defaults |-> defaults,
   stats |-> server.port, onlyOneFile |-> onlyOneFile, rules |-> rules]

Server(port, management) == [port |-> port, management |-> management]

LoadRules ==
  {[Exact(NoHost, Old, 0, Here(New)) EXCEPT !.id = Unset, !.status = 0, !.type = Unset],
   [Exact(NoHost, New, 0, Here(Old)) EXCEPT !.id = <<"rule", 2>>, !.preserveQuery = Unset],
   [Exact(NoHost, New, 0, Unset) EXCEPT !.id = <<"gone">>, !.status = 410],
   [Exact(NoHost, New, 0, Unset) EXCEPT !.status = 0]}

LoadFiles ==
  {File(0, Server(0, 0), d, 0, rules) :
     d \in {Defaults(0, FALSE), Defaults(308, TRUE), Defaults(404, FALSE)}, rules \in SeqOf(LoadRules, 2)}
    \union {File(version, server, Defaults(0, preserve), only, <<r>>) :
              version \in {0, 1}, server \in {Server(9090, 0), Server(0, 9091)},
              preserve \in BOOLEAN, only \in {0, 1}, r \in LoadRules}

MCDirectories ==
  {<<File(1, Server(0, 0), Defaults(0, FALSE), 0, rules)>> : rules \in SeqOf(LintRules, 3)}
    \union SeqOf(LoadFiles, 2)
=============================================================================
