---------------------------- MODULE MCHandleEvent ---------------------------
(***************************************************************************)
(* Instances of HandleEvent: sets over two names that are no sets, and     *)
(* lists of filters.                                                       *)
(***************************************************************************)
EXTENDS HandleEvent

Simple(kind) == [kind |-> kind, members |-> << >>, filters |-> << >>, mutator |-> "json"]
SetOf(members) == [Simple("set") EXCEPT !.members = members]

SetNames == {"s1", "s2", "s3"}
Members == {"a", "b", "s2", "s3"}
ListsOf(S) == {<< >>} \cup {<<x>> : x \in S} \cup {<<x, y>> : x, y \in S}

\* Every way to fill two sets with up to two of four names each and a third
\* with one of them.
SetConfigs ==
  {[names |-> names,
    entries |-> [n \in {"a", "b"} \cup SetNames |->
                   IF n = "a" THEN Simple("handler")
                   ELSE IF n = "b" THEN Simple(kind) ELSE SetOf(m[n])]] :
     names \in {<<"s1">>, <<"a", "s1">>, <<"s1", "s2">>, <<"s1", "s2", "s3">>},
     kind \in {"handler", "none", "error"},
     m \in {[s1 |-> x, s2 |-> y, s3 |-> <<z>>] :
              x, y \in ListsOf(Members), z \in Members}}

\* A set with an extension in it, and another that may have the same URL.
ExtensionOf(url) ==
  [kind |-> "extension", url |-> url, members |-> << >>, filters |-> << >>, mutator |-> "json"]
ExtensionConfigs ==
  {[names |-> names,
    entries |-> [a |-> ExtensionOf("u"), b |-> ExtensionOf(url), s1 |-> SetOf(<<"a">>)]] :
     names \in {<<"a">>, <<"s1">>, <<"a", "s1">>, <<"s1", "a">>, <<"b", "s1">>, <<"s1", "b">>,
                <<"a", "b">>},
     url \in {"u", "v"}}

Builtin == {[kind |-> "builtin", denies |-> d] : d \in BOOLEAN}
Extension == {[kind |-> "extension", answer |-> a] : a \in {"allow", "deny", "error"}}
Custom ==
  {[kind |-> "custom", action |-> a, window |-> w, matches |-> m] :
     a \in {"allow", "deny"}, w \in {"none", "in", "out", "error"},
     m \in {<<TRUE>>, <<FALSE>>, <<TRUE, FALSE>>, <<FALSE, TRUE>>, <<TRUE, TRUE>>}}
Unreadable == {[kind |-> "unreadable"]}

\* Up to two filters; one of two is in Some.
Filter == Builtin \cup Extension \cup Custom \cup Unreadable
Some ==
  Builtin \cup Unreadable
    \cup {[kind |-> "custom", action |-> a, window |-> "in", matches |-> <<TRUE>>] :
            a \in {"allow", "deny"}}
FilterLists ==
  {<< >>} \cup {<<f>> : f \in Filter}
    \cup UNION {{<<f, g>>, <<g, f>>} : f \in Filter, g \in Some}

\* Two handlers with filters, the second with or without a failing mutator,
\* or an extension, which has no filters, and such a handler.
FilterConfigs ==
  {[names |-> <<"a", "b">>,
    entries |-> [a |-> a, b |-> [Simple("handler") EXCEPT !.filters = g, !.mutator = mu]]] :
     a \in {ExtensionOf("u")}
             \cup {[Simple(kind) EXCEPT !.filters = f] :
                      kind \in {"handler", "grpc"}, f \in FilterLists},
     g \in {<< >>, <<[kind |-> "builtin", denies |-> TRUE]>>}, mu \in {"json", "fails"}}

MCConfigs == SetConfigs \cup ExtensionConfigs \cup FilterConfigs
=============================================================================
