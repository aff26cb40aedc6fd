------------------------------ MODULE MCRoutes ------------------------------
(* Instances of Routes for TLC.                                            *)
EXTENDS Routes, TLC

MCParams == {":x", ":y"}
MCWidth  == ("" :> 0) @@ ("a" :> 1) @@ ("A" :> 1) @@ ("b" :> 1) @@ ("c" :> 1)
              @@ (":x" :> 2) @@ (":y" :> 2)
MCFold   == ("" :> "") @@ ("a" :> "a") @@ ("A" :> "a") @@ ("b" :> "b") @@ ("c" :> "c")
MCSegment == [g \in GroupNames |-> "a"]

P(flag, segs) == [flag |-> flag, segs |-> segs]

\* "", "= /b", "= /b/", "~ /b", "/b", "/:x", "/b/:y"
MCPaths ==
  { P("plain", << >>), P("full", <<"b">>), P("full", <<"b", "">>), P("prefix", <<"b">>),
    P("plain", <<"b">>), P("plain", <<":x">>), P("plain", <<"b", ":y">>) }

\* "/:x/:y" and "/b/:y"
FewPaths ==
  { P("plain", <<":x", ":y">>), P("plain", <<"b", ":y">>) }

\* "/", "/b", "/a/b", "/A/b", "/a/b/c", "/c/b/"
MCURLs ==
  { <<"">>, <<"b">>, <<"a", "b">>, <<"A", "b">>, <<"a", "b", "c">>, <<"c", "b", "">> }
=============================================================================
