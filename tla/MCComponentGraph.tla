-------------------------- MODULE MCComponentGraph --------------------------
(* Graphs of three and four nodes for the model checker.                   *)
EXTENDS ComponentGraph, SequencesExt

\* Every graph of n nodes, the edges of a node in every order.
AllGraphs(n) == [1..n -> UNION {SetToSeqs(S) : S \in SUBSET (1..n)}]

\* The graphs without edges from a node to itself, the edges of a node in
\* ascending order, as cmComputeLinkDepends sorts them.
SortedGraphs(n) ==
  LET Ascending(S) == SetToSortSeq(S, LAMBDA a, b : a < b)
  IN  {[m \in 1..n |-> Ascending(e[m])] :
         e \in {f \in [1..n -> SUBSET (1..n)] : \A m \in 1..n : m \notin f[m]}}

MCGraphs == AllGraphs(3) \cup SortedGraphs(4)
=============================================================================
