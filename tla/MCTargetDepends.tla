--------------------------- MODULE MCTargetDepends ---------------------------
(* Projects of three targets for the model checker.                        *)
EXTENDS TargetDepends

MCNames == {"a", "b", "c", "m"}

\* Links to libraries in both orders, to itself, twice, and to one that is
\* no target; utilities for the last target.
Links(x, y) == {<<>>, <<x>>, <<y>>, <<x, y>>, <<y, x>>}
OddLinks == {<<"a", "b", "b">>, <<"m", "c">>, <<"b", "m", "a", "c">>}

Unique ==
  {[name |-> <<"a", "b", "c">>, directory |-> <<1, 1, 2>>, static |-> s,
    links |-> <<l0, l1, l2>>, utilities |-> << <<>>, <<>>, u>>,
    total |-> [m \in {"a", "b", "c"} |-> CASE m = "a" -> 1 [] m = "b" -> 2 [] m = "c" -> 3]] :
     s \in [Node -> BOOLEAN],
     l0 \in Links("b", "c") \cup OddLinks, l1 \in Links("a", "c"),
     l2 \in Links("a", "b"), u \in {<<>>, <<"a">>, <<"a", "b">>}}

\* Two targets of different directories have one name, as CMP0002 and
\* ALLOW_DUPLICATE_CUSTOM_TARGETS permit; either may be the one known globally.
Duplicate ==
  {[name |-> <<"a", "b", "a">>, directory |-> <<1, d, 2>>, static |-> s,
    links |-> <<l0, l1, l2>>, utilities |-> << <<>>, u, <<>>>>,
    total |-> [m \in {"a", "b"} |-> IF m = "b" THEN 2 ELSE g]] :
     d \in {1, 2, 3}, s \in [Node -> BOOLEAN],
     l0 \in {<<>>, <<"b">>}, l1 \in {<<>>, <<"a">>}, l2 \in {<<>>, <<"b">>, <<"a", "b">>},
     u \in {<<>>, <<"a">>}, g \in {1, 3}}

MCProjects == Unique \cup Duplicate
=============================================================================
