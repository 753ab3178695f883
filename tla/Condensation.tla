---------------------------- MODULE Condensation ----------------------------
(***************************************************************************)
(* What cmComputeComponentGraph promises: the strongly connected           *)
(* components of a graph are named one after the other, each one after     *)
(* all the components that it has edges to.                                *)
(***************************************************************************)
EXTENDS Naturals, Sequences

VARIABLES Edges,           \* for every node the set of nodes it has edges to
          Components       \* the components named so far, each a set of nodes

vars == <<Edges, Components>>

Nodes == DOMAIN Edges

Closed(S) == \A n \in S : Edges[n] \subseteq S

\* The least set that holds n and is closed under the edges.
Reachable(n) ==
  {m \in Nodes : \A S \in SUBSET Nodes : n \in S /\ Closed(S) => m \in S}

Component(n) == {m \in Reachable(n) : n \in Reachable(m)}

Named == UNION {Components[c] : c \in 1..Len(Components)}

Init == Components = <<>>

\* The next component is one whose edges leave it for named nodes only.
Name(n) ==
  /\ n \notin Named
  /\ \A m \in Component(n) : Edges[m] \subseteq Named \cup Component(n)
  /\ Components' = Append(Components, Component(n))
  /\ UNCHANGED Edges

Next == \E n \in Nodes : Name(n)

Spec == Init /\ [][Next]_vars

Acyclic == \A n \in Nodes : n \notin Edges[n] /\ Component(n) = {n}
=============================================================================
