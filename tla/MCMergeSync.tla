---------------------------- MODULE MCMergeSync -----------------------------
(***************************************************************************)
(* MergeSync for two sources that hold up to two rules each, one target    *)
(* with one retry.                                                         *)
(***************************************************************************)
EXTENDS MergeSync

Home == <<"/">>
Shop == <<"/", "shop">>
Sale == <<"/", "shop", "sale">>
Blog == <<"/", "blog">>

MCNames == {"shop", "web"}
MCPaths == {Home, Shop, Sale, Blog}

Rule(id, type, host, path, pattern) ==
  [id |-> id, type |-> type, host |-> host, path |-> path, pattern |-> pattern,
   status |-> 302, to |-> [host |-> <<>>, path |-> Blog]]

Config(port, rules) ==
  [server |-> [port |-> port, management |-> 8081], defaults |-> [status |-> 301, preserveQuery |-> FALSE], rules |-> rules]

ShopGlob == [shape |-> "all", base |-> Shop, accepts |-> {Shop, Sale}]

MCContents ==
  {Config(8080, <<Rule(<<"r1">>, "exact", <<>>, Sale, Unset), Rule(<<"r2">>, "exact", <<>>, Blog, Unset)>>),
   Config(9090, <<Rule(<<"r1">>, "prefix", <<>>, Sale, Unset), Rule(<<"r3">>, "exact", <<"a">>, Sale, Unset)>>),
   Config(8080, <<Rule(<<"web", "r1">>, "prefix", <<>>, Home, Unset)>>),
   Config(8080, <<Rule(<<"r2">>, "glob", <<>>, <<>>, ShopGlob)>>)}

Source(name, prefix, priority, allowed) ==
  [name |-> name, prefix |-> prefix, priority |-> priority, allowed |-> allowed, tagged |-> FALSE]

TaggedSource(name, priority) == [Source(name, name, priority, {}) EXCEPT !.tagged = TRUE]

Setup(mode, validate, shop, web) == [mode |-> mode, validate |-> validate, sources |-> {shop, web}]

MCSetups ==
  {Setup("priority", TRUE, Source("shop", "shop", 2, {}), Source("web", "web", 1, {})),
   Setup("first", FALSE, Source("shop", Unset, 1, {}), Source("web", "web", 2, {})),
   Setup("priority", FALSE, Source("shop", "shop", 1, {Shop}), Source("web", Unset, 1, {Blog, Shop})),
   Setup("error", TRUE, Source("shop", Unset, 1, {Shop}), Source("web", "web", 2, {})),
   Setup("first", TRUE, TaggedSource("shop", 1), Source("web", Unset, 2, {}))}
=============================================================================
