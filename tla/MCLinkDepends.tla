---------------------------- MODULE MCLinkDepends ----------------------------
(* Projects for the model checker: a target t and the items a, b and c.    *)
EXTENDS LinkDepends

MCItems == {"t", "a", "b", "c", "x", "y"}

NoList == [m \in MCItems |-> <<>>]
NoShared(known) == [m \in known |-> <<>>]

\* The lists of an item over two others.
Lists2(m, n) == {<<>>, <<m>>, <<n>>, <<m, n>>, <<n, m>>}

Project(line, la, lb, lc, known, da, db, dc) ==
  [libraries |-> [m \in MCItems |->
     CASE m = "t" -> line
       [] m = "a" /\ "a" \in known -> la
       [] m = "b" /\ "b" \in known -> lb
       [] m = "c" /\ "c" \in known -> lc
       [] OTHER -> <<>>],
   known |-> known,
   sharedDeps |-> [m \in known |-> CASE m = "a" -> da [] m = "b" -> db [] m = "c" -> dc [] OTHER -> <<>>]]

Lines == {<<"a">>, <<"a", "b">>, <<"b", "a">>, <<"a", "b", "a", "c">>, <<"c", "t", "a">>,
          <<"b", "c", "b">>}

\* Static libraries and files that list each other in every way.
Archives ==
  {Project(line, la, lb, lc, known, <<>>, <<>>, <<>>) :
     line \in Lines, la \in Lists2("b", "c") \cup {<<"a", "b">>}, lb \in Lists2("c", "a") \cup {<<"t", "b">>},
     lc \in Lists2("a", "b"), known \in {k \cup {"t"} : k \in SUBSET {"a", "b", "c"}}}

\* Shared libraries that need others, without a cycle, and have any interface.
SharedLibraries ==
  {Project(line, la, lb, lc, {"t", "a", "b", "c"}, da, db, <<>>) :
     line \in Lines, la \in {<<>>, <<"b">>, <<"c">>}, lb \in {<<>>, <<"c">>}, lc \in {<<>>, <<"a">>},
     da \in {<<>>, <<"b">>, <<"c">>, <<"c", "b">>},
     db \in {<<>>, <<"c">>}}

\* The last example of the comment at the top of cmComputeLinkDepends.cxx.
Example ==
  [libraries |-> [NoList EXCEPT !["t"] = <<"x">>, !["x"] = <<"a", "b", "y", "c">>, !["y"] = <<"a", "c", "b">>],
   known |-> {"t", "x", "y"}, sharedDeps |-> NoShared({"t", "x", "y"})]

MCLinks == Archives \cup SharedLibraries \cup {Example}

\* Two shared libraries that need each other.
MCSharedCycle ==
  {Project(<<"a">>, <<>>, lb, <<>>, {"t", "a", "b", "c"}, <<"b">>, <<"a">>, <<>>) : lb \in {<<>>, <<"c">>}}
=============================================================================
