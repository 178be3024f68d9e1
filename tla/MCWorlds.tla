------------------------------- MODULE MCWorlds -------------------------------
(***************************************************************************)
(* Small instances of BuildGraph: a root with two inputs, two repositories *)
(* whose inputs may lead to each other or back, overlays that redirect     *)
(* one of the inputs below them or make it follow.                         *)
(***************************************************************************)
EXTENDS BuildGraph

\* Written as trees, and turned into functions of paths.
Input(url, follows, inputs) == [url |-> url, follows |-> follows, inputs |-> inputs]
Following == Input(NoUrl, TRUE, <<>>)
To(url) == Input(url, FALSE, <<>>)
Overlays == {<<>>, <<Following>>, <<To("b")>>}
Over(urls) == {Input(url, FALSE, overlay) : url \in urls, overlay \in Overlays}

ByPath(list) ==
  LET at(path) == IF Len(path) = 1 THEN list[path[1]] ELSE list[path[1]].inputs[path[2]]
  IN  [path \in {<<i>> : i \in DOMAIN list}
                \cup UNION {{<<i, j>> : j \in DOMAIN list[i].inputs} : i \in DOMAIN list} |->
        [url |-> at(path).url, follows |-> at(path).follows]]
Lists(first, second) ==
  {ByPath(list) : list \in {<<>>} \cup {<<x>> : x \in first}
                           \cup {<<x, y>> : x \in first, y \in second}}

\* Worlds that differ little, for edits.
MCFewWorlds ==
  [inputs : [r : {ByPath(<<To("a"), To("b")>>),
                  ByPath(<<Input("a", FALSE, <<To("b")>>), To("a")>>)},
             a : {ByPath(<<To("b")>>), ByPath(<<To("remote")>>)},
             b : {ByPath(<<>>), ByPath(<<To("a")>>)}],
   untracked : {{}, {"b"}}]

MCWorlds ==
  MCFewWorlds \cup
  [inputs : [r : Lists(Over({"a", "b"}), Over({"a", "b"})),
             a : Lists(Over({"b"}) \cup {To("remote"), To("r")}, {}),
             b : Lists({To("a"), To("remote"), Following}, {To("a")})],
   untracked : {{}, {"b"}}]
=============================================================================
