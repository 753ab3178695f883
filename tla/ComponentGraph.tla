--------------------------- MODULE ComponentGraph ---------------------------
(***************************************************************************)
(* cmComputeComponentGraph: Tarjan's algorithm over an adjacency list,     *)
(* one action for each turn of a loop of Tarjan() and TarjanVisit() and    *)
(* for each return of the latter.  The recursion is the sequence calls,    *)
(* innermost call first; each call keeps the edges it has not dealt with.  *)
(*                                                                         *)
(* Nodes, components and visits are numbered from 1 (the code's nodes and   *)
(* components from 0), so that 0 stands for its -1.  A component is a set   *)
(* (the code sorts its list, hence the list is the set in ascending order), *)
(* and so is a list of component edges, in which only repetitions and       *)
(* their order are lost.                                                    *)
(***************************************************************************)
EXTENDS Integers, Sequences

CONSTANT Graphs    \* the adjacency lists that are looked at

ASSUME GraphsAssumption ==
  \A g \in Graphs : g \in Seq(Seq(Nat)) /\ g \in [1..Len(g) -> Seq(1..Len(g))]

VARIABLES
  InputGraph,
  TarjanVisited,      \* the walk that has reached the node, or 0
  TarjanComponents,   \* the component the node belongs to, or 0
  Root, VisitIndex,   \* TarjanEntries
  TarjanStack,        \* top first
  TarjanWalkId, TarjanIndex,
  Components,
  ComponentGraph,
  calls,              \* the calls of TarjanVisit, innermost first
  i,                  \* the loop variable of Tarjan()
  pc                  \* "new", "Tarjan", "TransferEdges" or "done"

walk == <<TarjanVisited, VisitIndex, TarjanIndex>>
found == <<TarjanComponents, TarjanStack, Components>>
vars == <<InputGraph, walk, found, Root, TarjanWalkId, ComponentGraph, calls, i, pc>>

-----------------------------------------------------------------------------
Node == DOMAIN InputGraph
Successors(n) == {InputGraph[n][k] : k \in 1..Len(InputGraph[n])}

\* Nothing but the graph is known.
Unconstructed ==
  /\ TarjanVisited = <<>> /\ TarjanComponents = <<>>
  /\ Root = <<>> /\ VisitIndex = <<>>
  /\ TarjanStack = <<>>
  /\ TarjanWalkId = 0 /\ TarjanIndex = 0
  /\ Components = <<>>
  /\ ComponentGraph = <<>>
  /\ calls = <<>>
  /\ i = 0
  /\ pc = "new"

Init == InputGraph \in Graphs /\ Unconstructed

\* The constructor, up to the loop of Tarjan().
Construct ==
  /\ pc = "new"
  /\ TarjanVisited' = [n \in Node |-> 0]
  /\ TarjanComponents' = [n \in Node |-> 0]
  /\ Root' = [n \in Node |-> 0]
  /\ VisitIndex' = [n \in Node |-> 0]
  /\ i' = 1
  /\ pc' = "Tarjan"
  /\ UNCHANGED <<InputGraph, TarjanIndex, TarjanStack, Components, TarjanWalkId, ComponentGraph, calls>>

\* The first lines of TarjanVisit(n), in walk w, as its index-th node.
EnterVisit(n, w, index) ==
  /\ TarjanVisited' = [TarjanVisited EXCEPT ![n] = w]
  /\ Root' = [Root EXCEPT ![n] = n]
  /\ TarjanComponents' = [TarjanComponents EXCEPT ![n] = 0]
  /\ VisitIndex' = [VisitIndex EXCEPT ![n] = index]
  /\ TarjanIndex' = index
  /\ TarjanStack' = <<n>> \o TarjanStack
  /\ calls' = <<[node |-> n, edges |-> InputGraph[n]]>> \o calls
  /\ UNCHANGED <<InputGraph, Components, ComponentGraph, pc>>

StartWalk ==
  /\ pc = "Tarjan" /\ calls = <<>> /\ i <= Len(InputGraph)
  /\ TarjanVisited[i] = 0
  /\ TarjanWalkId' = TarjanWalkId + 1
  /\ EnterVisit(i, TarjanWalkId + 1, 1)
  /\ i' = i + 1

SkipNode ==
  /\ pc = "Tarjan" /\ calls = <<>> /\ i <= Len(InputGraph)
  /\ TarjanVisited[i] > 0
  /\ i' = i + 1
  /\ UNCHANGED <<InputGraph, walk, found, Root, TarjanWalkId, ComponentGraph, calls, pc>>

\* The innermost call, the node it visits and the node its next edge leads to.
Call == Head(calls)
Here == Call.node
There == Head(Call.edges)
FollowsEdge == pc = "Tarjan" /\ calls # <<>> /\ Call.edges # <<>>

NextEdge == calls' = <<[Call EXCEPT !.edges = Tail(@)]>> \o Tail(calls)

ByEarlierWalk(n) == TarjanVisited[n] > 0 /\ TarjanVisited[n] < TarjanWalkId

IgnoreEdge ==
  /\ FollowsEdge
  /\ ByEarlierWalk(There)
  /\ NextEdge
  /\ UNCHANGED <<InputGraph, walk, found, Root, TarjanWalkId, ComponentGraph, i, pc>>

\* The call leaves its edge where it is, to look at it again on return.
VisitDestination ==
  /\ FollowsEdge
  /\ TarjanVisited[There] = 0
  /\ EnterVisit(There, TarjanWalkId, TarjanIndex + 1)
  /\ UNCHANGED <<TarjanWalkId, i>>

\* Mistake: the root of a node whose component is known counts too.
BetterRoot_Assigned == VisitIndex[Root[There]] < VisitIndex[Root[Here]]

BetterRoot ==
  /\ TarjanComponents[There] = 0
  /\ VisitIndex[Root[There]] < VisitIndex[Root[Here]]

\* Mistake: the edge is looked at again and again.
UpdateRoot_KeepsEdge ==
  /\ FollowsEdge
  /\ TarjanVisited[There] > 0 /\ ~ByEarlierWalk(There)
  /\ Root' = IF BetterRoot THEN [Root EXCEPT ![Here] = Root[There]] ELSE Root
  /\ UNCHANGED <<InputGraph, walk, found, TarjanWalkId, ComponentGraph, calls, i, pc>>

UpdateRoot ==
  /\ FollowsEdge
  /\ TarjanVisited[There] > 0 /\ ~ByEarlierWalk(There)
  /\ Root' = IF BetterRoot THEN [Root EXCEPT ![Here] = Root[There]] ELSE Root
  /\ NextEdge
  /\ UNCHANGED <<InputGraph, walk, found, TarjanWalkId, ComponentGraph, i, pc>>

EdgesFollowed == pc = "Tarjan" /\ calls # <<>> /\ Call.edges = <<>>

ReturnUnderRoot ==
  /\ EdgesFollowed
  /\ Root[Here] # Here
  /\ calls' = Tail(calls)
  /\ UNCHANGED <<InputGraph, walk, found, Root, TarjanWalkId, ComponentGraph, i, pc>>

\* How much of the stack is popped: down to and including the node itself.
Depth == CHOOSE d \in 1..Len(TarjanStack) :
           TarjanStack[d] = Here /\ \A e \in 1..(d-1) : TarjanStack[e] # Here
Popped == {TarjanStack[d] : d \in 1..Depth}

FindComponent ==
  /\ EdgesFollowed
  /\ Root[Here] = Here
  /\ Components' = Append(Components, Popped)
  /\ TarjanComponents' =
       [n \in Node |-> IF n \in Popped THEN Len(Components) + 1 ELSE TarjanComponents[n]]
  /\ Root' = [n \in Node |-> IF n \in Popped THEN Here ELSE Root[n]]
  /\ TarjanStack' = SubSeq(TarjanStack, Depth + 1, Len(TarjanStack))
  /\ calls' = Tail(calls)
  /\ UNCHANGED <<InputGraph, walk, TarjanWalkId, ComponentGraph, i, pc>>

EndTarjan ==
  /\ pc = "Tarjan" /\ calls = <<>> /\ i > Len(InputGraph)
  /\ pc' = "TransferEdges"
  /\ UNCHANGED <<InputGraph, walk, found, Root, TarjanWalkId, ComponentGraph, calls, i>>

\* Mistake: edges inside a component are not left out.
OutgoingEdges_Inner(c) ==
  {TarjanComponents[m] : m \in UNION {Successors(n) : n \in {k \in Node : TarjanComponents[k] = c}}}

\* The components, other than c, that an edge leads to from a node of c.
OutgoingEdges(c) ==
  {TarjanComponents[m] : m \in UNION {Successors(n) : n \in {k \in Node : TarjanComponents[k] = c}}}
    \ {c}

TransferEdges ==
  /\ pc = "TransferEdges"
  /\ ComponentGraph' = [c \in 1..Len(Components) |-> OutgoingEdges(c)]
  /\ pc' = "done"
  /\ UNCHANGED <<InputGraph, walk, found, Root, TarjanWalkId, calls, i>>

Next ==
  \/ Construct
  \/ StartWalk \/ SkipNode \/ EndTarjan
  \/ IgnoreEdge \/ VisitDestination \/ UpdateRoot
  \/ ReturnUnderRoot \/ FindComponent
  \/ TransferEdges

Spec == Init /\ [][Next]_vars
FairSpec == Spec /\ WF_vars(Next)

-----------------------------------------------------------------------------
(* Properties.                                                             *)

\* The values the variables take: a component is a set of nodes that have
\* been visited, and every call visits a node, with edges that lead to nodes.
TypeOK ==
  /\ InputGraph \in [1..Len(InputGraph) -> Seq(1..Len(InputGraph))]
  /\ pc \in {"new", "Tarjan", "TransferEdges", "done"}
  /\ pc = "new" => Unconstructed
  /\ pc # "new" =>
       /\ TarjanVisited \in [Node -> 0..TarjanWalkId]
       /\ TarjanComponents \in [Node -> 0..Len(Components)]
       /\ Root \in [Node -> Node \cup {0}]
       /\ VisitIndex \in [Node -> 0..Len(InputGraph)]
       /\ i \in 1..(Len(InputGraph) + 1)
  /\ TarjanWalkId \in 0..i
  /\ TarjanIndex \in 0..Len(InputGraph)
  /\ TarjanStack \in Seq(Node)
  /\ Components \in Seq({C \in SUBSET Node : \A n \in C : TarjanVisited[n] > 0})
  /\ ComponentGraph \in Seq(SUBSET (1..Len(Components)))
  /\ calls \in Seq([node : Node, edges : Seq(Node)])

\* An edge of the component graph leads to a component that was found
\* earlier: the graph has no cycle and its numbers are a safe order, which
\* cmComputeLinkDepends.cxx:722 and the class comment rely on.  The edges
\* are those of the graph, and none is lost.
EdgesTransferred ==
  pc = "done" =>
    \A c \in 1..Len(Components) :
      /\ \A d \in ComponentGraph[c] : d < c
      /\ \A n \in Components[c], d \in 1..Len(Components) :
           Successors(n) \cap Components[d] # {} => d = c \/ d \in ComponentGraph[c]
      /\ \A d \in ComponentGraph[c] : \E n \in Components[c] : Successors(n) \cap Components[d] # {}

Condense == INSTANCE Condensation WITH Edges <- [n \in Node |-> Successors(n)]

\* Each component is a whole strongly connected component, found after
\* those it leads to: "the components are identified in a topologically
\* sorted order" (cmComputeComponentGraph.h).
CondensationSpec == Condense!Spec

\* The recursion ends, with every node in a component.
Terminates == <>(pc = "done" /\ \A n \in Node : TarjanComponents[n] > 0)
=============================================================================
