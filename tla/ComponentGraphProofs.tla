------------------------ MODULE ComponentGraphProofs ------------------------
(* Proofs about ComponentGraph, for every graph.  The inductive invariant   *)
(* says of Tarjan's stack, indices, roots and calls what the algorithm      *)
(* relies on; it does not depend on the set of graphs that are looked at,   *)
(* so that modules that run ComponentGraph on a graph of theirs can use it. *)
EXTENDS ComponentGraph, SequenceTheorems, FiniteSetTheorems, WellFoundedInduction, TLAPS

---------------------------------------------------------------------------
(* Sequences that grow and shrink at the front.                             *)
LEMMA PushedFront ==
  ASSUME NEW S, NEW s \in Seq(S), NEW e \in S, NEW t, t = <<e>> \o s
  PROVE  /\ t \in Seq(S) /\ t # <<>> /\ Len(s) \in Nat /\ Len(t) = Len(s) + 1
         /\ t[1] = e /\ \A a \in 1..Len(s) : t[a + 1] = s[a]
         /\ \A a \in 1..Len(t) : \/ a = 1 /\ t[a] = e
                                 \/ a > 1 /\ a - 1 \in 1..Len(s) /\ t[a] = s[a - 1]
<1>1. <<e>> \in Seq(S) /\ Len(<<e>>) = 1 /\ <<e>>[1] = e
  OBVIOUS
<1>2. /\ t \in Seq(S) /\ Len(t) = 1 + Len(s)
      /\ \A a \in 1..(1 + Len(s)) : t[a] = IF a <= 1 THEN <<e>>[a] ELSE s[a - 1]
  BY <1>1, ConcatProperties
<1>3. Len(s) \in Nat
  BY LenProperties
<1>4. t[1] = e /\ \A a \in 1..Len(s) : t[a + 1] = s[a]
  <2>1. \A a \in 1..Len(s) : a + 1 \in 1..(1 + Len(s)) /\ ~(a + 1 <= 1) /\ a + 1 - 1 = a
    BY <1>3
  <2> QED BY <1>1, <1>2, <1>3, <2>1
<1>5. \A a \in 1..Len(t) : \/ a = 1 /\ t[a] = e
                           \/ a > 1 /\ a - 1 \in 1..Len(s) /\ t[a] = s[a - 1]
  BY <1>2, <1>3, <1>4
<1>6. t # <<>>
  BY <1>2, <1>3, EmptySeq
<1> QED BY <1>2, <1>3, <1>4, <1>5, <1>6

LEMMA PoppedFront ==
  ASSUME NEW S, NEW s \in Seq(S), s # <<>>, NEW t, t = Tail(s)
  PROVE  /\ t \in Seq(S) /\ Len(s) \in Nat \ {0} /\ Len(t) = Len(s) - 1
         /\ Head(s) = s[1] /\ s[1] \in S
         /\ \A a \in 1..Len(t) : a + 1 \in 1..Len(s) /\ t[a] = s[a + 1]
<1>1. Len(s) \in Nat \ {0}
  BY EmptySeq
<1>2. t \in Seq(S) /\ Len(t) = Len(s) - 1 /\ \A a \in 1..Len(t) : t[a] = s[a + 1]
  BY HeadTailProperties
<1>3. Head(s) = s[1] /\ s[1] \in S
  BY <1>1, ElementOfSeq
<1> QED BY <1>1, <1>2, <1>3

LEMMA ReplacedFront ==
  ASSUME NEW S, NEW s \in Seq(S), s # <<>>, NEW e \in S, NEW t, t = <<e>> \o Tail(s)
  PROVE  /\ t \in Seq(S) /\ t # <<>> /\ Len(t) = Len(s) /\ t[1] = e
         /\ \A a \in 1..Len(s) : a # 1 => t[a] = s[a]
<1> DEFINE u == Tail(s)
<1>1. /\ u \in Seq(S) /\ Len(s) \in Nat \ {0} /\ Len(u) = Len(s) - 1
      /\ \A a \in 1..Len(u) : u[a] = s[a + 1]
  BY PoppedFront
<1>2. /\ t \in Seq(S) /\ t # <<>> /\ Len(t) = Len(u) + 1 /\ t[1] = e
      /\ \A a \in 1..Len(u) : t[a + 1] = u[a]
  BY <1>1, PushedFront
<1>3. \A a \in 1..Len(s) : a # 1 => t[a] = s[a]
  <2> SUFFICES ASSUME NEW a \in 1..Len(s), a # 1 PROVE t[a] = s[a]
    OBVIOUS
  <2>1. a - 1 \in 1..Len(u) /\ a - 1 + 1 = a
    BY <1>1
  <2> QED BY <1>1, <1>2, <2>1
<1> QED BY <1>1, <1>2, <1>3

LEMMA AppendedBack ==
  ASSUME NEW S, NEW s \in Seq(S), NEW e \in S, NEW t, t = Append(s, e)
  PROVE  /\ t \in Seq(S) /\ Len(s) \in Nat /\ Len(t) = Len(s) + 1
         /\ t[Len(t)] = e /\ \A a \in 1..Len(s) : t[a] = s[a]
  BY AppendProperties, LenProperties

(* A nonempty set of natural numbers has a least element.                   *)
LEMMA LeastNumber ==
  ASSUME NEW T \in SUBSET Nat, T # {}
  PROVE  \E m \in T : \A k \in T : m <= k
<1> DEFINE Less == {p \in Nat \X Nat : p[1] < p[2]}
<1>1. PICK m \in T : \A k \in T : <<k, m>> \notin Less
  <2>1. IsWellFoundedOn(Less, Nat)
    BY NatLessThanWellFounded DEF OpToRel
  <2> HIDE DEF Less
  <2> QED BY <2>1, WFMin
<1>2. \A k \in T : m <= k
  <2> SUFFICES ASSUME NEW k \in T PROVE m <= k
    OBVIOUS
  <2>1. k \in Nat /\ m \in Nat /\ ~(k < m)
    BY <1>1
  <2> QED BY <2>1
<1> QED BY <1>2

(* What is reached from the nodes of any graph.                            *)
LEMMA ReachableFacts ==
  ASSUME NEW S, NEW E \in [S -> SUBSET S], NEW R,
         R = [n \in S |-> {m \in S : \A T \in SUBSET S :
                                       n \in T /\ (\A k \in T : E[k] \subseteq T) => m \in T}]
  PROVE  \A n \in S :
           /\ n \in R[n] /\ R[n] \subseteq S
           /\ \A m \in R[n] : E[m] \subseteq R[n] /\ R[m] \subseteq R[n]
           /\ \A T \in SUBSET S : n \in T /\ (\A k \in T : E[k] \subseteq T) => R[n] \subseteq T
<1> SUFFICES ASSUME NEW n \in S
             PROVE  /\ n \in R[n] /\ R[n] \subseteq S
                    /\ \A m \in R[n] : E[m] \subseteq R[n] /\ R[m] \subseteq R[n]
                    /\ \A T \in SUBSET S : n \in T /\ (\A k \in T : E[k] \subseteq T) => R[n] \subseteq T
  OBVIOUS
<1>1. n \in R[n] /\ R[n] \subseteq S
  OBVIOUS
<1>2. \A T \in SUBSET S : n \in T /\ (\A k \in T : E[k] \subseteq T) => R[n] \subseteq T
  OBVIOUS
<1>3. ASSUME NEW m \in R[n] PROVE E[m] \subseteq R[n]
  <2> SUFFICES ASSUME NEW x \in E[m], NEW T \in SUBSET S, n \in T, \A k \in T : E[k] \subseteq T
               PROVE  x \in S /\ x \in T
    OBVIOUS
  <2>1. m \in S /\ m \in T
    OBVIOUS
  <2> QED BY <2>1
<1>4. ASSUME NEW m \in R[n] PROVE R[m] \subseteq R[n]
  <2> SUFFICES ASSUME NEW x \in R[m], NEW T \in SUBSET S, n \in T, \A k \in T : E[k] \subseteq T
               PROVE  x \in S /\ x \in T
    OBVIOUS
  <2>1. m \in S /\ m \in T
    OBVIOUS
  <2> QED BY <2>1
<1> QED BY <1>1, <1>2, <1>3, <1>4

---------------------------------------------------------------------------
(* The inductive invariant.                                                 *)

Level == 1..Len(calls)     \* of the recursion, 1 is the innermost
Slot == 1..Len(TarjanStack)
Held == {n \in Node : TarjanVisited[n] > 0 /\ TarjanComponents[n] = 0}
Active == {calls[a].node : a \in Level}
Pending(a) == {calls[a].edges[k] : k \in 1..Len(calls[a].edges)}

Succ == [n \in Node |-> Successors(n)]
Leads(n, S) == n \in S /\ \A m \in S : Succ[m] \subseteq S
Reach == [n \in Node |-> {m \in Node : \A S \in SUBSET Node : Leads(n, S) => m \in S}]
Mutual == [n \in Node |-> {m \in Reach[n] : n \in Reach[m]}]

GraphInv == /\ InputGraph \in Seq(Seq(Nat))
            /\ InputGraph \in [1..Len(InputGraph) -> Seq(1..Len(InputGraph))]

TypeInv ==
  /\ TarjanVisited \in [Node -> Nat]
  /\ TarjanComponents \in [Node -> Nat]
  /\ Root \in [Node -> Node \cup {0}]
  /\ VisitIndex \in [Node -> Nat]
  /\ TarjanWalkId \in Nat /\ TarjanIndex \in Nat
  /\ TarjanStack \in Seq(Node)
  /\ Components \in Seq(SUBSET Node)
  /\ calls \in Seq([node : Node, edges : Seq(Node)])
  /\ i \in 1..(Len(InputGraph) + 1)
  /\ pc \in {"Tarjan", "TransferEdges", "done"}

(* The stack has the nodes that have been visited and are in no component   *)
(* yet, those visited last on top.                                          *)
StackInv ==
  /\ \A a, b \in Slot : a < b => VisitIndex[TarjanStack[b]] < VisitIndex[TarjanStack[a]]
  /\ Held = {TarjanStack[a] : a \in Slot}
  /\ \A n \in Held : TarjanVisited[n] = TarjanWalkId /\ VisitIndex[n] \in 1..TarjanIndex

(* The calls are those of a path in the graph; the outermost one visits the *)
(* first node of the walk.                                                  *)
CallInv ==
  /\ \A a \in Level : calls[a].node \in Held /\ Pending(a) \subseteq Succ[calls[a].node]
  /\ \A a, b \in Level : a < b => VisitIndex[calls[b].node] < VisitIndex[calls[a].node]
  /\ \A a, b \in Level : b = a + 1 => calls[b].edges # <<>> /\ Head(calls[b].edges) = calls[a].node
  /\ calls # <<>> =>
       \A n \in Held : VisitIndex[calls[Len(calls)].node] <= VisitIndex[n]
  /\ calls = <<>> => Held = {}

(* A root is a node of the stack, not above the node, that can be reached   *)
(* from it; a node whose visit is over is not its own root.                 *)
RootInv ==
  \A n \in Held :
    /\ Root[n] \in Held /\ VisitIndex[Root[n]] <= VisitIndex[n]
    /\ Root[n] \in Reach[n]
    /\ n \notin Active => VisitIndex[Root[n]] < VisitIndex[n]

(* What is on the stack from the node of a call upwards is reached from it. *)
ReachInv ==
  \A a \in Level, n \in Held :
    VisitIndex[calls[a].node] <= VisitIndex[n] => n \in Reach[calls[a].node]

(* The edges of a node of the stack that have been followed lead to visited *)
(* nodes, on the stack not below the root of the node.                      *)
EdgeInv ==
  \A n \in Held :
    \A m \in Succ[n] :
      \/ TarjanVisited[m] > 0 /\ (TarjanComponents[m] = 0 => VisitIndex[Root[n]] <= VisitIndex[m])
      \/ \E a \in Level : calls[a].node = n /\ m \in Pending(a)

(* The root of a call is not above those of the nodes visited from it, but  *)
(* for what the innermost call is about to learn from its next edge.        *)
Between(a, n) ==
  /\ VisitIndex[calls[a].node] < VisitIndex[n]
  /\ \A b \in Level : b < a => VisitIndex[n] < VisitIndex[calls[b].node]
AboutToLearn(n) ==
  /\ calls[1].edges # <<>>
  /\ LET m == Head(calls[1].edges) IN
       /\ m \in Held
       /\ VisitIndex[calls[1].node] < VisitIndex[m] /\ VisitIndex[m] <= VisitIndex[n]
       /\ VisitIndex[Root[m]] <= VisitIndex[Root[n]]
LowInv ==
  \A a \in Level, n \in Held : Between(a, n) =>
    \/ VisitIndex[Root[calls[a].node]] <= VisitIndex[Root[n]]
    \/ a = 1 /\ AboutToLearn(n)

(* The components found so far are whole components of the graph, and their *)
(* edges lead to earlier ones.                                              *)
NamedInv ==
  /\ \A n \in Node : TarjanComponents[n] > 0 =>
       /\ TarjanVisited[n] > 0 /\ TarjanComponents[n] <= Len(Components)
       /\ Components[TarjanComponents[n]] = Mutual[n]
       /\ \A m \in Succ[n] :
            0 < TarjanComponents[m] /\ TarjanComponents[m] <= TarjanComponents[n]
  /\ \A c \in 1..Len(Components) :
       Components[c] # {} /\ Components[c] = {n \in Node : TarjanComponents[n] = c}

(* The nodes before the one the loop of Tarjan() is at have been visited;   *)
(* the nodes of a walk are numbered without a gap.                          *)
WalkInv ==
  /\ \A n \in Node : n < i => TarjanVisited[n] > 0
  /\ \A n \in Node : TarjanVisited[n] <= TarjanWalkId
  /\ TarjanWalkId < i
  /\ \A k \in 1..TarjanIndex : \E n \in Node : TarjanVisited[n] = TarjanWalkId /\ VisitIndex[n] = k
  /\ \A n \in Node : VisitIndex[n] <= Len(InputGraph)
  /\ TarjanIndex <= Len(InputGraph)

EndInv ==
  /\ pc # "Tarjan" => calls = <<>> /\ i > Len(InputGraph)
  /\ pc # "done" => ComponentGraph = <<>>
  /\ pc = "done" => ComponentGraph = [c \in 1..Len(Components) |-> OutgoingEdges(c)]

Constructed == pc # "new"
WalkingInv == TypeInv /\ StackInv /\ CallInv /\ RootInv /\ ReachInv /\ EdgeInv /\ LowInv
                /\ NamedInv /\ WalkInv /\ EndInv
Inv == GraphInv /\ (~Constructed => Unconstructed) /\ (Constructed => WalkingInv)

---------------------------------------------------------------------------
(* Reachability in the graph, which no step changes.                        *)
LEMMA SuccessorsAreNodes ==
  ASSUME GraphInv
  PROVE  /\ Node = 1..Len(InputGraph) /\ Len(InputGraph) \in Nat
         /\ Succ \in [Node -> SUBSET Node]
         /\ \A n \in Node : Succ[n] = Successors(n) /\ InputGraph[n] \in Seq(Node)
<1>1. Node = 1..Len(InputGraph) /\ Len(InputGraph) \in Nat
  BY LenProperties DEF GraphInv, Node
<1>2. \A n \in Node : InputGraph[n] \in Seq(Node)
  BY <1>1 DEF GraphInv
<1>3. \A n \in Node : \A k \in 1..Len(InputGraph[n]) : InputGraph[n][k] \in Node
  BY <1>2, ElementOfSeq
<1> QED BY <1>1, <1>2, <1>3 DEF Successors, Succ

LEMMA ReachFacts ==
  ASSUME GraphInv, NEW n \in Node
  PROVE  /\ n \in Reach[n] /\ Reach[n] \subseteq Node
         /\ \A m \in Reach[n] : Succ[m] \subseteq Reach[n]
         /\ \A m \in Reach[n] : Reach[m] \subseteq Reach[n]
         /\ \A S \in SUBSET Node : Leads(n, S) => Reach[n] \subseteq S
<1>1. \A m \in Node : Succ[m] \subseteq Node
  BY SuccessorsAreNodes
<1>2. n \in Reach[n] /\ Reach[n] \subseteq Node
  BY DEF Reach, Leads
<1>3. \A m \in Reach[n] : Succ[m] \subseteq Reach[n]
  <2> SUFFICES ASSUME NEW m \in Reach[n], NEW x \in Succ[m], NEW S \in SUBSET Node,
                      Leads(n, S)
               PROVE  x \in Node /\ x \in S
    BY <1>1 DEF Reach
  <2>1. m \in S
    BY DEF Reach
  <2> QED BY <2>1, <1>1 DEF Leads
<1>4. \A S \in SUBSET Node : Leads(n, S) => Reach[n] \subseteq S
  BY DEF Reach
<1>5. \A m \in Reach[n] : Reach[m] \subseteq Reach[n]
  <2> SUFFICES ASSUME NEW m \in Reach[n] PROVE Reach[m] \subseteq Reach[n]
    OBVIOUS
  <2>1. Leads(m, Reach[n])
    BY <1>3 DEF Leads
  <2> QED BY <1>2, <2>1 DEF Reach
<1> QED BY <1>2, <1>3, <1>4, <1>5

LEMMA SameGraph ==
  ASSUME InputGraph' = InputGraph
  PROVE  Node' = Node /\ Succ' = Succ /\ Reach' = Reach /\ Mutual' = Mutual /\ GraphInv' = GraphInv
<1>1. Node' = Node /\ Succ' = Succ
  BY DEF Node, Successors, Succ
<1>2. GraphInv' = GraphInv
  BY DEF GraphInv
<1>3. Reach' = Reach
  BY <1>1 DEF Reach, Leads
<1>4. Mutual' = Mutual
  BY <1>1, <1>3 DEF Mutual
<1> QED BY <1>1, <1>2, <1>3, <1>4

(* The components of module Condensation are those of Mutual.               *)
LEMMA MutualIsComponent ==
  ASSUME GraphInv
  PROVE  /\ Condense!Nodes = Node
         /\ \A n \in Node : Condense!Reachable(n) = Reach[n] /\ Condense!Component(n) = Mutual[n]
<1>1. Condense!Nodes = Node
  BY DEF Condense!Nodes
<1>2. ASSUME NEW n \in Node PROVE Condense!Reachable(n) = Reach[n]
  <2>1. \A S \in SUBSET Node : (n \in S /\ Condense!Closed(S)) <=> Leads(n, S)
    BY DEF Condense!Closed, Leads, Succ
  <2> QED BY <1>1, <2>1 DEF Condense!Reachable, Reach
<1>3. ASSUME NEW n \in Node PROVE Condense!Component(n) = Mutual[n]
  <2>1. Reach[n] \subseteq Node
    BY DEF Reach
  <2> QED BY <1>2, <2>1 DEF Condense!Component, Mutual
<1> QED BY <1>1, <1>2, <1>3

---------------------------------------------------------------------------
(* A visit begins: the node is put on the stack and called for.             *)
LEMMA EnterFacts ==
  ASSUME GraphInv, WalkingInv, NEW n \in Node, NEW w, NEW index,
         EnterVisit(n, w, index), TarjanVisited[n] = 0
  PROVE  /\ InputGraph' = InputGraph /\ Components' = Components
         /\ ComponentGraph' = ComponentGraph /\ pc' = pc
         /\ TarjanComponents' = TarjanComponents /\ TarjanComponents[n] = 0 /\ n \notin Held
         /\ \A m \in Node : /\ TarjanVisited'[m] = IF m = n THEN w ELSE TarjanVisited[m]
                            /\ Root'[m] = IF m = n THEN n ELSE Root[m]
                            /\ VisitIndex'[m] = IF m = n THEN index ELSE VisitIndex[m]
         /\ TarjanIndex' = index
         /\ TarjanStack' = <<n>> \o TarjanStack
         /\ calls' = <<[node |-> n, edges |-> InputGraph[n]]>> \o calls
<1> USE DEF EnterVisit, WalkingInv
<1>1. TarjanComponents[n] = 0
  <2>1. TarjanComponents[n] > 0 => TarjanVisited[n] > 0
    BY DEF NamedInv
  <2> QED BY <2>1 DEF TypeInv
<1>2. TarjanComponents' = TarjanComponents
  BY <1>1 DEF TypeInv
<1>3. n \notin Held
  BY DEF Held
<1> QED BY <1>1, <1>2, <1>3 DEF TypeInv

LEMMA EnterCalls ==
  ASSUME GraphInv, WalkingInv, NEW n \in Node, NEW w, NEW index,
         EnterVisit(n, w, index), TarjanVisited[n] = 0
  PROVE  /\ calls' \in Seq([node : Node, edges : Seq(Node)]) /\ calls' # <<>>
         /\ Len(calls) \in Nat /\ Len(calls') = Len(calls) + 1
         /\ calls'[1].node = n /\ Pending(1)' = Succ[n]
         /\ \A a \in Level : /\ calls'[a + 1].node = calls[a].node
                             /\ calls'[a + 1].edges = calls[a].edges
                             /\ Pending(a + 1)' = Pending(a)
         /\ \A a \in Level' : a = 1 \/ (a > 1 /\ a - 1 \in Level)
<1> DEFINE c == [node |-> n, edges |-> InputGraph[n]]
<1>1. calls' = <<c>> \o calls /\ InputGraph' = InputGraph
  BY EnterFacts
<1>2. c \in [node : Node, edges : Seq(Node)]
  BY SuccessorsAreNodes DEF GraphInv
<1>3. calls \in Seq([node : Node, edges : Seq(Node)])
  BY DEF WalkingInv, TypeInv
<1>4. /\ calls' \in Seq([node : Node, edges : Seq(Node)]) /\ calls' # <<>>
      /\ Len(calls) \in Nat /\ Len(calls') = Len(calls) + 1
      /\ calls'[1] = c
      /\ \A a \in 1..Len(calls) : calls'[a + 1] = calls[a]
      /\ \A a \in 1..Len(calls') : a = 1 \/ (a > 1 /\ a - 1 \in 1..Len(calls))
  <2> DEFINE S == [node : Node, edges : Seq(Node)]
  <2>1. calls \in Seq(S)
    BY <1>3
  <2> HIDE DEF S
  <2> PICK e \in S : e = c
    BY <1>2 DEF S
  <2> HIDE DEF c
  <2>3. calls' = <<e>> \o calls
    BY <1>1
  <2>2. /\ calls' \in Seq(S) /\ calls' # <<>>
        /\ Len(calls) \in Nat /\ Len(calls') = Len(calls) + 1
        /\ calls'[1] = c
        /\ \A a \in 1..Len(calls) : calls'[a + 1] = calls[a]
        /\ \A a \in 1..Len(calls') : a = 1 \/ (a > 1 /\ a - 1 \in 1..Len(calls))
    BY <2>1, <2>3, PushedFront
  <2> QED BY <2>2 DEF S
<1>5. Pending(1)' = Succ[n]
  BY <1>4, SuccessorsAreNodes DEF Pending, Successors
<1>6. \A a \in Level : Pending(a + 1)' = Pending(a)
  BY <1>4 DEF Pending, Level
<1> QED BY <1>4, <1>5, <1>6 DEF Level

LEMMA EnterStep ==
  ASSUME GraphInv, WalkingInv, pc = "Tarjan",
         NEW n \in Node, NEW w \in Nat \ {0}, NEW index \in Nat \ {0},
         EnterVisit(n, w, index), TarjanVisited[n] = 0,
         TarjanWalkId' = w, i' \in 1..(Len(InputGraph) + 1),
         \A m \in Held : TarjanVisited[m] = w /\ VisitIndex[m] < index,
         calls # <<>> => calls[1].edges # <<>> /\ Head(calls[1].edges) = n
  PROVE  /\ TypeInv' /\ StackInv' /\ CallInv' /\ RootInv' /\ ReachInv' /\ EdgeInv' /\ LowInv'
         /\ NamedInv' /\ EndInv'
<1> USE DEF WalkingInv
<1>1. /\ InputGraph' = InputGraph /\ Components' = Components
      /\ ComponentGraph' = ComponentGraph /\ pc' = pc
      /\ TarjanComponents' = TarjanComponents /\ TarjanComponents[n] = 0 /\ n \notin Held
      /\ \A m \in Node : /\ TarjanVisited'[m] = IF m = n THEN w ELSE TarjanVisited[m]
                         /\ Root'[m] = IF m = n THEN n ELSE Root[m]
                         /\ VisitIndex'[m] = IF m = n THEN index ELSE VisitIndex[m]
      /\ TarjanIndex' = index
      /\ TarjanStack' = <<n>> \o TarjanStack
  BY EnterFacts
<1>2. /\ calls' \in Seq([node : Node, edges : Seq(Node)]) /\ calls' # <<>>
      /\ Len(calls) \in Nat /\ Len(calls') = Len(calls) + 1
      /\ calls'[1].node = n /\ Pending(1)' = Succ[n]
      /\ \A a \in Level : /\ calls'[a + 1].node = calls[a].node
                          /\ calls'[a + 1].edges = calls[a].edges
                          /\ Pending(a + 1)' = Pending(a)
      /\ \A a \in Level' : a = 1 \/ (a > 1 /\ a - 1 \in Level)
  BY EnterCalls
<1>3. /\ Node' = Node
      /\ Succ' = Succ /\ Reach' = Reach /\ Mutual' = Mutual
  BY <1>1, SameGraph
<1>4. /\ Held' = Held \cup {n} /\ Held \subseteq Node
      /\ \A m \in Held : m # n /\ VisitIndex[m] \in Nat /\ VisitIndex[m] < index
  <2>1. Held' = Held \cup {n} /\ Held \subseteq Node
    BY <1>1, <1>3 DEF Held
  <2> QED BY <1>1, <2>1 DEF TypeInv
<1>5. /\ TarjanStack' \in Seq(Node) /\ Len(TarjanStack) \in Nat
      /\ Len(TarjanStack') = Len(TarjanStack) + 1
      /\ TarjanStack'[1] = n /\ \A a \in Slot : TarjanStack'[a + 1] = TarjanStack[a]
      /\ \A a \in Slot' : \/ a = 1 /\ TarjanStack'[a] = n
                          \/ a > 1 /\ a - 1 \in Slot /\ TarjanStack'[a] = TarjanStack[a - 1]
  BY <1>1, PushedFront DEF TypeInv, Slot
<1>6. \A a \in Slot : TarjanStack[a] \in Node /\ TarjanStack[a] \in Held
  <2>1. \A a \in Slot : TarjanStack[a] \in Node
    BY ElementOfSeq DEF TypeInv, Slot
  <2> QED BY <2>1 DEF StackInv
<1>7. \A a \in Level : calls[a].node \in Node /\ calls[a].node \in Held
  <2>1. \A a \in Level : calls[a] \in [node : Node, edges : Seq(Node)]
    BY ElementOfSeq DEF TypeInv, Level
  <2> QED BY <2>1 DEF CallInv
<1>8. \A a \in Level' : a = 1 \/ (a - 1 \in Level /\ calls'[a].node = calls[a - 1].node)
  <2> SUFFICES ASSUME NEW a \in Level', a # 1
               PROVE  a - 1 \in Level /\ calls'[a].node = calls[a - 1].node
    OBVIOUS
  <2>1. a - 1 \in Level /\ (a - 1) + 1 = a
    BY <1>2 DEF Level
  <2> QED BY <1>2, <2>1
<1>9. /\ VisitIndex'[calls'[1].node] = index
       /\ \A a \in Level : /\ VisitIndex'[calls[a].node] = VisitIndex[calls[a].node]
                           /\ VisitIndex[calls[a].node] \in Nat
                           /\ VisitIndex[calls[a].node] < index
  BY <1>1, <1>2, <1>4, <1>7
<1>10. TypeInv'
  <2>1. /\ TarjanVisited' \in [Node -> Nat] /\ Root' \in [Node -> Node \cup {0}]
        /\ VisitIndex' \in [Node -> Nat]
    BY DEF TypeInv, EnterVisit
  <2> QED BY <1>1, <1>2, <1>3, <1>5, <2>1 DEF TypeInv
<1>11. StackInv'
  <2>1. \A a, b \in Slot' : a < b => VisitIndex'[TarjanStack'[b]] < VisitIndex'[TarjanStack'[a]]
    <3> SUFFICES ASSUME NEW a \in Slot', NEW b \in Slot', a < b
                 PROVE  VisitIndex'[TarjanStack'[b]] < VisitIndex'[TarjanStack'[a]]
      OBVIOUS
    <3>1. a \in Nat /\ b \in Nat
      BY <1>5 DEF Slot
    <3>2. b > 1 /\ b - 1 \in Slot /\ TarjanStack'[b] = TarjanStack[b - 1]
      BY <1>5, <3>1
    <3>3. VisitIndex'[TarjanStack'[b]] = VisitIndex[TarjanStack[b - 1]]
      BY <1>1, <1>4, <1>6, <3>2
    <3>4. CASE a = 1
      BY <1>1, <1>4, <1>5, <1>6, <3>2, <3>3, <3>4
    <3>5. CASE a > 1
      <4>1. a - 1 \in Slot /\ TarjanStack'[a] = TarjanStack[a - 1] /\ a - 1 < b - 1
        BY <1>5, <3>1, <3>5
      <4> QED BY <1>1, <1>4, <1>6, <3>2, <3>3, <4>1 DEF StackInv
    <3> QED BY <1>5, <3>4, <3>5
  <2>2. \A m : m \in Held' <=> \E a \in Slot' : TarjanStack'[a] = m
    <3> SUFFICES ASSUME NEW m
                 PROVE  m \in Held' <=> \E a \in Slot' : TarjanStack'[a] = m
      OBVIOUS
    <3>1. \A a \in Slot : a + 1 \in Slot' /\ TarjanStack'[a + 1] = TarjanStack[a]
      BY <1>5 DEF Slot
    <3>2. 1 \in Slot'
      BY <1>5 DEF Slot
    <3> QED BY <1>4, <1>5, <3>1, <3>2 DEF StackInv
  <2>3. \A m \in Held' : TarjanVisited'[m] = w /\ VisitIndex'[m] \in 1..index
    <3> SUFFICES ASSUME NEW m \in Held' PROVE TarjanVisited'[m] = w /\ VisitIndex'[m] \in 1..index
      OBVIOUS
    <3>1. CASE m = n
      BY <1>1, <3>1
    <3>2. CASE m \in Held
      <4>1. VisitIndex[m] \in 1..TarjanIndex
        BY <3>2 DEF StackInv
      <4>2. VisitIndex[m] \in 1..index
        BY <1>4, <3>2, <4>1
      <4> QED BY <1>1, <1>4, <3>2, <4>2
    <3> QED BY <1>4, <3>1, <3>2
  <2>4. Held' = {TarjanStack'[a] : a \in Slot'}
    BY <2>2
  <2> QED BY <1>1, <2>1, <2>3, <2>4 DEF StackInv
<1>12. CallInv'
  <2>1. \A a \in Level' : /\ calls'[a].node \in Node /\ calls'[a].node \in Held'
                          /\ Pending(a)' \subseteq Succ[calls'[a].node]
    <3> SUFFICES ASSUME NEW a \in Level'
                 PROVE  /\ calls'[a].node \in Node /\ calls'[a].node \in Held'
                        /\ Pending(a)' \subseteq Succ[calls'[a].node]
      OBVIOUS
    <3>1. CASE a = 1
      BY <1>2, <1>3, <1>4, <3>1
    <3>2. CASE a # 1
      <4>1. a - 1 \in Level /\ (a - 1) + 1 = a
        BY <1>2, <3>2 DEF Level
      <4>2. calls'[a].node = calls[a - 1].node /\ Pending(a)' = Pending(a - 1)
        BY <1>2, <4>1
      <4> QED BY <1>3, <1>4, <1>7, <4>1, <4>2 DEF CallInv
    <3> QED BY <3>1, <3>2
  <2>2. \A a, b \in Level' : a < b => VisitIndex'[calls'[b].node] < VisitIndex'[calls'[a].node]
    <3> SUFFICES ASSUME NEW a \in Level', NEW b \in Level', a < b
                 PROVE  VisitIndex'[calls'[b].node] < VisitIndex'[calls'[a].node]
      OBVIOUS
    <3>1. a \in Nat \ {0} /\ b - 1 \in Level /\ b - 1 + 1 = b
      BY <1>2 DEF Level
    <3>2. VisitIndex'[calls'[b].node] = VisitIndex[calls[b - 1].node]
      <4>1. calls'[b].node = calls[b - 1].node
        BY <1>2, <3>1
      <4> QED BY <1>9, <3>1, <4>1
    <3>3. CASE a = 1
      BY <1>9, <3>1, <3>2, <3>3
    <3>4. CASE a # 1
      <4>1. a - 1 \in Level /\ a - 1 + 1 = a /\ a - 1 < b - 1
        BY <1>2, <3>1, <3>4 DEF Level
      <4>2. calls'[a].node = calls[a - 1].node
        BY <1>2, <4>1
      <4>3. VisitIndex[calls[b - 1].node] < VisitIndex[calls[a - 1].node]
        BY <3>1, <4>1 DEF CallInv
      <4> QED BY <1>9, <3>2, <4>1, <4>2, <4>3
    <3> QED BY <3>3, <3>4
  <2>3. \A a, b \in Level' : b = a + 1 =>
           calls'[b].edges # <<>> /\ Head(calls'[b].edges) = calls'[a].node
    <3> SUFFICES ASSUME NEW a \in Level', a + 1 \in Level'
                 PROVE  calls'[a + 1].edges # <<>> /\ Head(calls'[a + 1].edges) = calls'[a].node
      OBVIOUS
    <3>1. a \in Level
      BY <1>2 DEF Level
    <3>2. CASE a = 1
      <4>1. calls # <<>>
        BY <1>2, <3>1, EmptySeq DEF Level
      <4> QED BY <1>2, <3>1, <3>2, <4>1
    <3>3. CASE a # 1
      <4>1. a - 1 \in Level /\ a - 1 + 1 = a
        BY <1>2, <3>1, <3>3 DEF Level
      <4>2. calls[a].edges # <<>> /\ Head(calls[a].edges) = calls[a - 1].node
        BY <3>1, <4>1 DEF CallInv
      <4>3. calls'[a].node = calls[a - 1].node
        BY <1>2, <4>1
      <4> QED BY <1>2, <3>1, <4>2, <4>3
    <3> QED BY <3>2, <3>3
  <2>4. \A m \in Held' : VisitIndex'[calls'[Len(calls')].node] <= VisitIndex'[m]
    <3> SUFFICES ASSUME NEW m \in Held'
                 PROVE  VisitIndex'[calls'[Len(calls')].node] <= VisitIndex'[m]
      OBVIOUS
    <3>1. CASE calls = <<>>
      <4>1. Len(calls') = 1
        BY <1>2, <3>1, EmptySeq
      <4>2. m = n
        BY <1>4, <3>1 DEF CallInv
      <4>3. VisitIndex'[calls'[Len(calls')].node] = index /\ VisitIndex'[m] = index
        BY <1>1, <1>9, <4>1, <4>2
      <4> QED BY <4>3
    <3>2. CASE calls # <<>>
      <4>1. Len(calls) \in Level
        BY <3>2, EmptySeq DEF TypeInv, Level
      <4>2. calls'[Len(calls')].node = calls[Len(calls)].node
        BY <1>2, <4>1
      <4>3. VisitIndex'[calls'[Len(calls')].node] = VisitIndex[calls[Len(calls)].node]
        BY <1>1, <1>4, <1>7, <4>1, <4>2
      <4> QED BY <1>1, <1>4, <1>7, <3>2, <4>1, <4>3 DEF CallInv
    <3> QED BY <3>1, <3>2
  <2> QED BY <1>2, <1>3, <2>1, <2>2, <2>3, <2>4 DEF CallInv
<1>13. Active' = Active \cup {n}
  <2>1. \A a \in Level : a + 1 \in Level' /\ calls'[a + 1].node = calls[a].node
    BY <1>2 DEF Level
  <2>2. 1 \in Level' /\ calls'[1].node = n
    BY <1>2 DEF Level
  <2> QED BY <1>8, <2>1, <2>2 DEF Active
<1>14. RootInv'
  <2> SUFFICES ASSUME NEW m \in Held'
               PROVE  /\ Root'[m] \in Held'
                      /\ VisitIndex'[Root'[m]] <= VisitIndex'[m]
                      /\ Root'[m] \in Reach[m]
                      /\ m \notin Active' => VisitIndex'[Root'[m]] < VisitIndex'[m]
    BY <1>3 DEF RootInv
  <2>1. CASE m = n
    BY <1>1, <1>3, <1>4, <1>13, <2>1, ReachFacts
  <2>2. CASE m # n
    <3>1. m \in Held /\ Root'[m] = Root[m] /\ VisitIndex'[m] = VisitIndex[m]
      BY <1>1, <1>4, <2>2
    <3>2. Root[m] \in Node /\ Root[m] \in Held
      BY <1>4, <3>1 DEF RootInv
    <3>3. VisitIndex'[Root[m]] = VisitIndex[Root[m]]
      BY <1>1, <1>4, <3>2
    <3> QED BY <1>3, <1>4, <1>13, <3>1, <3>2, <3>3 DEF RootInv
  <2> QED BY <2>1, <2>2
<1>15. ReachInv'
  <2> SUFFICES ASSUME NEW a \in Level', NEW m \in Held',
                      VisitIndex'[calls'[a].node] <= VisitIndex'[m]
               PROVE  m \in Reach[calls'[a].node]
    <3>1. \A a \in Level' : calls'[a].node \in Node
      BY <1>2, <1>7, <1>8
    <3> QED BY <1>3, <3>1 DEF ReachInv
  <2>1. CASE a = 1
    <3>1. m = n
      BY <1>1, <1>2, <1>4, <2>1
    <3> QED BY <1>2, <2>1, <3>1, ReachFacts
  <2>2. CASE a # 1
    <3>1. a - 1 \in Level /\ calls'[a].node = calls[a - 1].node
      BY <1>8, <2>2
    <3>2. VisitIndex'[calls'[a].node] = VisitIndex[calls[a - 1].node]
      BY <1>1, <1>4, <1>7, <3>1
    <3>3. CASE m # n
      BY <1>1, <1>4, <3>1, <3>2, <3>3 DEF ReachInv
    <3>4. CASE m = n
      <4>1. calls # <<>> /\ 1 \in Level
        BY <1>2, <3>1, EmptySeq DEF Level
      <4>2. n \in Pending(1)
        <5>1. calls[1].edges \in Seq(Node) /\ calls[1].edges # <<>> /\ Head(calls[1].edges) = n
          <6>1. calls[1] \in [node : Node, edges : Seq(Node)]
            BY <4>1, ElementOfSeq DEF TypeInv, Level
          <6> QED BY <4>1, <6>1
        <5>2. calls[1].edges[1] = n /\ Len(calls[1].edges) \in Nat \ {0}
          BY <5>1, PoppedFront
        <5> QED BY <5>2 DEF Pending
      <4>3. n \in Succ[calls[1].node]
        BY <4>1, <4>2 DEF CallInv
      <4>4. VisitIndex[calls[a - 1].node] <= VisitIndex[calls[1].node]
        <5>1. CASE a - 1 = 1
          BY <4>1, <1>7, <1>4, <5>1
        <5>2. CASE a - 1 # 1
          <6>1. 1 < a - 1
            BY <3>1, <5>2 DEF Level
          <6>2. VisitIndex[calls[a - 1].node] < VisitIndex[calls[1].node]
            BY <3>1, <4>1, <6>1 DEF CallInv
          <6> QED BY <1>4, <1>7, <3>1, <4>1, <6>2
        <5> QED BY <5>1, <5>2
      <4>5. calls[1].node \in Reach[calls[a - 1].node]
        BY <1>7, <3>1, <4>1, <4>4 DEF ReachInv
      <4> QED BY <1>7, <3>1, <3>4, <4>3, <4>5, ReachFacts
    <3> QED BY <3>3, <3>4
  <2> QED BY <2>1, <2>2
<1>16. EdgeInv'
  <2> SUFFICES ASSUME NEW x \in Held', NEW m \in Succ[x]
               PROVE  \/ /\ TarjanVisited'[m] > 0
                         /\ TarjanComponents'[m] = 0 => VisitIndex'[Root'[x]] <= VisitIndex'[m]
                      \/ \E a \in Level' : calls'[a].node = x /\ m \in Pending(a)'
    BY <1>3 DEF EdgeInv
  <2>0. m \in Node /\ x \in Node
    <3>1. x \in Node
      BY <1>4
    <3> QED BY <3>1, SuccessorsAreNodes
  <2>1. CASE x = n
    BY <1>2, <2>1 DEF Level
  <2>2. CASE x # n
    <3>1. x \in Held /\ Root'[x] = Root[x]
      BY <1>1, <1>4, <2>2
    <3>2. Root[x] \in Node /\ VisitIndex'[Root[x]] = VisitIndex[Root[x]]
           /\ VisitIndex[Root[x]] \in Nat /\ VisitIndex[Root[x]] < index
      BY <1>1, <1>4, <3>1 DEF RootInv
    <3>3. CASE TarjanVisited[m] > 0 /\ (TarjanComponents[m] = 0 => VisitIndex[Root[x]] <= VisitIndex[m])
      <4>1. m # n
        BY <3>3
      <4> QED BY <1>1, <2>0, <3>1, <3>2, <3>3, <4>1
    <3>4. CASE \E a \in Level : calls[a].node = x /\ m \in Pending(a)
      <4>1. PICK a \in Level : calls[a].node = x /\ m \in Pending(a)
        BY <3>4
      <4>2. a + 1 \in Level' /\ calls'[a + 1].node = x /\ m \in Pending(a + 1)'
        BY <1>2, <4>1 DEF Level
      <4> QED BY <4>2
    <3> QED BY <3>1, <3>3, <3>4 DEF EdgeInv
  <2> QED BY <2>1, <2>2
<1>17. LowInv'
  <2> SUFFICES ASSUME NEW a \in Level', NEW m \in Held', Between(a, m)'
               PROVE  VisitIndex'[Root'[calls'[a].node]] <= VisitIndex'[Root'[m]]
    BY <1>3 DEF LowInv
  <2>1. 1 \in Level' /\ VisitIndex'[calls'[1].node] = index
    BY <1>1, <1>2 DEF Level
  <2>2. a # 1 /\ m # n
    <3>1. VisitIndex'[m] <= index
      BY <1>1, <1>4
    <3>2. VisitIndex'[m] \in Nat
      BY <1>1, <1>4
    <3>3. a # 1
      BY <2>1, <3>1, <3>2 DEF Between
    <3>4. 1 < a
      BY <1>2, <3>3 DEF Level
    <3>5. VisitIndex'[m] < index
      BY <2>1, <3>4 DEF Between
    <3> QED BY <1>1, <3>3, <3>5
  <2>3. a - 1 \in Level /\ calls'[a].node = calls[a - 1].node
    BY <1>8, <2>2
  <2>4. m \in Held /\ VisitIndex'[m] = VisitIndex[m] /\ Root'[m] = Root[m]
    BY <1>1, <1>4, <2>2
  <2>5. calls[a - 1].node \in Node /\ calls[a - 1].node \in Held /\ calls[a - 1].node # n
    BY <1>4, <1>7, <2>3
  <2>6. Between(a - 1, m)
    <3>1. VisitIndex[calls[a - 1].node] < VisitIndex[m]
      BY <1>1, <2>3, <2>4, <2>5 DEF Between
    <3>2. ASSUME NEW b \in Level, b < a - 1 PROVE VisitIndex[m] < VisitIndex[calls[b].node]
      <4>1. b + 1 \in Level' /\ b + 1 < a /\ calls'[b + 1].node = calls[b].node
        BY <1>2, <2>3, <3>2 DEF Level
      <4>2. VisitIndex'[m] < VisitIndex'[calls'[b + 1].node]
        BY <4>1 DEF Between
      <4> QED BY <1>1, <1>4, <1>7, <2>4, <4>1, <4>2
    <3> QED BY <3>1, <3>2 DEF Between
  <2>7. ~(a - 1 = 1 /\ AboutToLearn(m))
    <3>1. calls # <<>>
      BY <2>3, <1>2, EmptySeq DEF Level
    <3> QED BY <1>1, <3>1 DEF AboutToLearn
  <2>8. VisitIndex[Root[calls[a - 1].node]] <= VisitIndex[Root[m]]
    BY <2>3, <2>4, <2>6, <2>7 DEF LowInv
  <2>9. Root[m] \in Node /\ Root[m] # n /\ Root[calls[a - 1].node] \in Node /\ Root[calls[a - 1].node] # n
    BY <1>4, <2>4, <2>5 DEF RootInv
  <2> QED BY <1>1, <2>3, <2>4, <2>5, <2>8, <2>9
<1>18. NamedInv'
  <2>1. ASSUME NEW m \in Node, TarjanComponents[m] > 0
        PROVE  TarjanVisited'[m] > 0
    <3>1. TarjanVisited[m] > 0
      BY <2>1 DEF NamedInv
    <3> QED BY <1>1, <3>1
  <2> QED BY <1>1, <1>3, <2>1 DEF NamedInv
<1>19. EndInv'
  BY <1>1 DEF EndInv
<1> QED BY <1>10, <1>11, <1>12, <1>14, <1>15, <1>16, <1>17, <1>18, <1>19

(* The nodes of a walk have different numbers, so that there are no more    *)
(* numbers than nodes.                                                      *)
LEMMA NumbersSuffice ==
  ASSUME GraphInv, WalkingInv, NEW n \in Node, TarjanVisited[n] # TarjanWalkId
  PROVE  TarjanIndex + 1 <= Len(InputGraph)
<1> DEFINE N == Len(InputGraph)
           K == TarjanIndex
           f == [k \in 1..(K + 1) |-> IF k = K + 1 THEN n
                                      ELSE CHOOSE m \in Node : /\ TarjanVisited[m] = TarjanWalkId
                                                               /\ VisitIndex[m] = k]
<1>1. Node = 1..N /\ N \in Nat /\ K \in Nat
  BY SuccessorsAreNodes DEF WalkingInv, TypeInv
<1>2. \A k \in 1..K : f[k] \in Node /\ TarjanVisited[f[k]] = TarjanWalkId /\ VisitIndex[f[k]] = k
  <2> SUFFICES ASSUME NEW k \in 1..K
               PROVE  f[k] \in Node /\ TarjanVisited[f[k]] = TarjanWalkId /\ VisitIndex[f[k]] = k
    OBVIOUS
  <2>1. \E m \in Node : TarjanVisited[m] = TarjanWalkId /\ VisitIndex[m] = k
    BY DEF WalkingInv, WalkInv
  <2>2. k \in 1..(K + 1) /\ k # K + 1
    BY <1>1
  <2> QED BY <2>1, <2>2
<1>3. f[K + 1] = n
  BY <1>1
<1>4. f \in [1..(K + 1) -> 1..N]
  <2>1. \A k \in 1..(K + 1) : f[k] \in 1..N
    <3> SUFFICES ASSUME NEW k \in 1..(K + 1) PROVE f[k] \in 1..N
      OBVIOUS
    <3>1. k \in 1..K \/ k = K + 1
      BY <1>1
    <3> HIDE DEF f
    <3> QED BY <1>1, <1>2, <1>3, <3>1
  <2> QED BY <2>1
<1>5. \A j, k \in 1..(K + 1) : j # k => f[j] # f[k]
  <2> SUFFICES ASSUME NEW j \in 1..(K + 1), NEW k \in 1..(K + 1), j # k PROVE f[j] # f[k]
    OBVIOUS
  <2>1. (j \in 1..K \/ j = K + 1) /\ (k \in 1..K \/ k = K + 1)
    BY <1>1
  <2> HIDE DEF f
  <2> QED BY <1>2, <1>3, <2>1
<1> HIDE DEF f, N, K
<1>6. /\ IsFiniteSet(1..(K + 1)) /\ Cardinality(1..(K + 1)) = K + 1
      /\ IsFiniteSet(1..N) /\ Cardinality(1..N) = N
  <2>1. /\ IsFiniteSet(1..(K + 1))
        /\ Cardinality(1..(K + 1)) = IF 1 > K + 1 THEN 0 ELSE (K + 1) - 1 + 1
    BY <1>1, FS_Interval
  <2>2. IsFiniteSet(1..N) /\ Cardinality(1..N) = IF 1 > N THEN 0 ELSE N - 1 + 1
    BY <1>1, FS_Interval
  <2> QED BY <1>1, <2>1, <2>2
<1>7. ~(N < K + 1)
  BY <1>4, <1>5, <1>6, FS_PigeonHole
<1> QED BY <1>1, <1>7 DEF N, K

(* A new walk has not visited a node before its first one.                  *)
LEMMA StartWalkStep ==
  ASSUME GraphInv, WalkingInv, StartWalk
  PROVE  GraphInv' /\ WalkingInv'
<1> USE DEF WalkingInv
<1>1. pc = "Tarjan" /\ calls = <<>> /\ Held = {}
  BY DEF StartWalk, CallInv
<1>2. Node = 1..Len(InputGraph) /\ Len(InputGraph) \in Nat /\ i \in Node /\ TarjanWalkId \in Nat
  BY SuccessorsAreNodes DEF StartWalk, TypeInv
<1>3. EnterVisit(i, TarjanWalkId + 1, 1) /\ TarjanVisited[i] = 0 /\ i' = i + 1
      /\ TarjanWalkId' = TarjanWalkId + 1
  BY DEF StartWalk
<1>4. /\ TypeInv' /\ StackInv' /\ CallInv' /\ RootInv' /\ ReachInv' /\ EdgeInv' /\ LowInv'
      /\ NamedInv' /\ EndInv'
  BY <1>1, <1>2, <1>3, EnterStep
<1>5. /\ InputGraph' = InputGraph /\ pc' = pc /\ TarjanIndex' = 1
      /\ \A m \in Node : /\ TarjanVisited'[m] = IF m = i THEN TarjanWalkId + 1 ELSE TarjanVisited[m]
                         /\ VisitIndex'[m] = IF m = i THEN 1 ELSE VisitIndex[m]
  <2> HIDE DEF WalkingInv
  <2> DEFINE w == TarjanWalkId + 1
             index == 1
  <2>1. EnterVisit(i, w, index) /\ TarjanVisited[i] = 0 /\ i \in Node
    BY <1>2, <1>3
  <2> HIDE DEF w, index
  <2>2. /\ InputGraph' = InputGraph /\ pc' = pc /\ TarjanIndex' = index
        /\ \A m \in Node : /\ TarjanVisited'[m] = IF m = i THEN w ELSE TarjanVisited[m]
                           /\ VisitIndex'[m] = IF m = i THEN index ELSE VisitIndex[m]
    BY <2>1, EnterFacts
  <2> QED BY <2>2 DEF w, index
<1>6. Node' = Node /\ GraphInv'
  BY <1>5, SameGraph
<1>7. WalkInv'
  <2>1. \A n \in Node : n < i + 1 => TarjanVisited'[n] > 0
    <3> SUFFICES ASSUME NEW n \in Node, n < i + 1 PROVE TarjanVisited'[n] > 0
      OBVIOUS
    <3>1. n < i \/ n = i
      BY <1>2
    <3>2. n < i => TarjanVisited[n] > 0
      BY DEF WalkInv
    <3> QED BY <1>2, <1>5, <3>1, <3>2
  <2>2. \A n \in Node : TarjanVisited'[n] <= TarjanWalkId + 1
    <3>1. \A n \in Node : TarjanVisited[n] \in Nat /\ TarjanVisited[n] <= TarjanWalkId
      BY DEF TypeInv, WalkInv
    <3> QED BY <1>2, <1>5, <3>1
  <2>3. TarjanWalkId + 1 < i + 1
    BY <1>2 DEF WalkInv
  <2>4. \A k \in 1..1 : \E n \in Node : TarjanVisited'[n] = TarjanWalkId + 1 /\ VisitIndex'[n] = k
    BY <1>2, <1>5
  <2>5. \A n \in Node : VisitIndex'[n] <= Len(InputGraph)
    BY <1>2, <1>5 DEF WalkInv
  <2>6. 1 <= Len(InputGraph)
    BY <1>2
  <2> QED BY <1>3, <1>5, <1>6, <2>1, <2>2, <2>3, <2>4, <2>5, <2>6 DEF WalkInv
<1> QED BY <1>1, <1>4, <1>5, <1>6, <1>7

(* A visit of the destination of an edge.                                   *)
LEMMA InnermostCall ==
  ASSUME TypeInv, calls # <<>>
  PROVE  /\ 1 \in Level /\ Len(calls) \in Level /\ Len(calls) \in Nat \ {0}
         /\ Call = calls[1] /\ calls[1] \in [node : Node, edges : Seq(Node)]
         /\ Here = calls[1].node /\ Here \in Node
<1>1. calls \in Seq([node : Node, edges : Seq(Node)])
  BY DEF TypeInv
<1>2. /\ Len(calls) \in Nat \ {0} /\ Head(calls) = calls[1]
      /\ calls[1] \in [node : Node, edges : Seq(Node)]
  BY <1>1, PoppedFront
<1> QED BY <1>2 DEF Level, Call, Here

LEMMA NextDestination ==
  ASSUME GraphInv, WalkingInv, FollowsEdge
  PROVE  /\ There = Head(calls[1].edges) /\ There \in Pending(1)
         /\ There \in Succ[Here] /\ There \in Node /\ Here \in Held
<1>1. /\ 1 \in Level /\ Call = calls[1] /\ calls[1] \in [node : Node, edges : Seq(Node)]
      /\ Here = calls[1].node /\ Here \in Node
  BY InnermostCall DEF WalkingInv, FollowsEdge
<1>2. There = Head(calls[1].edges) /\ calls[1].edges \in Seq(Node) /\ calls[1].edges # <<>>
  BY <1>1 DEF FollowsEdge, There
<1>3. Len(calls[1].edges) \in Nat \ {0} /\ There = calls[1].edges[1]
  BY <1>2, PoppedFront
<1>4. There \in Pending(1)
  BY <1>3 DEF Pending
<1>5. Here \in Held /\ There \in Succ[Here]
  BY <1>1, <1>4 DEF WalkingInv, CallInv
<1>6. There \in Node
  BY <1>1, <1>5, SuccessorsAreNodes
<1> QED BY <1>2, <1>4, <1>5, <1>6

LEMMA VisitDestinationStep ==
  ASSUME GraphInv, WalkingInv, VisitDestination
  PROVE  GraphInv' /\ WalkingInv'
<1> USE DEF WalkingInv
<1>1. FollowsEdge /\ TarjanVisited[There] = 0 /\ EnterVisit(There, TarjanWalkId, TarjanIndex + 1)
      /\ TarjanWalkId' = TarjanWalkId /\ i' = i /\ pc = "Tarjan" /\ calls # <<>>
  BY DEF VisitDestination, FollowsEdge
<1>2. There = Head(calls[1].edges) /\ There \in Node /\ Here \in Held /\ calls[1].edges # <<>>
  <2>1. calls[1].edges # <<>>
    BY <1>1, InnermostCall DEF FollowsEdge
  <2> QED BY <1>1, <2>1, NextDestination
<1>3. /\ TarjanWalkId \in Nat /\ TarjanIndex \in Nat
      /\ \A m \in Node : TarjanVisited[m] \in Nat /\ VisitIndex[m] \in Nat
  BY DEF TypeInv
<1>4. \A m \in Held : TarjanVisited[m] = TarjanWalkId /\ VisitIndex[m] < TarjanIndex + 1
  BY <1>3 DEF StackInv
<1>5. TarjanWalkId > 0
  <2>1. TarjanVisited[Here] > 0
    BY <1>2 DEF Held
  <2> QED BY <1>2, <1>4, <2>1
<1>6. TarjanIndex + 1 <= Len(InputGraph)
  BY <1>1, <1>2, <1>5, NumbersSuffice
<1>7. /\ TypeInv' /\ StackInv' /\ CallInv' /\ RootInv' /\ ReachInv' /\ EdgeInv' /\ LowInv'
      /\ NamedInv' /\ EndInv'
  <2>1. /\ TarjanWalkId \in Nat \ {0} /\ TarjanIndex + 1 \in Nat \ {0}
        /\ i' \in 1..(Len(InputGraph) + 1)
    BY <1>1, <1>3, <1>5 DEF TypeInv
  <2> QED BY <1>1, <1>2, <1>4, <2>1, EnterStep
<1>8. /\ InputGraph' = InputGraph /\ pc' = pc /\ TarjanIndex' = TarjanIndex + 1
      /\ \A m \in Node : /\ TarjanVisited'[m] = IF m = There THEN TarjanWalkId ELSE TarjanVisited[m]
                         /\ VisitIndex'[m] = IF m = There THEN TarjanIndex + 1 ELSE VisitIndex[m]
  <2> HIDE DEF WalkingInv
  <2> DEFINE n == There
             index == TarjanIndex + 1
  <2>1. EnterVisit(n, TarjanWalkId, index) /\ TarjanVisited[n] = 0 /\ n \in Node
    BY <1>1, <1>2
  <2> HIDE DEF n, index
  <2>2. /\ InputGraph' = InputGraph /\ pc' = pc /\ TarjanIndex' = index
        /\ \A m \in Node : /\ TarjanVisited'[m] = IF m = n THEN TarjanWalkId ELSE TarjanVisited[m]
                           /\ VisitIndex'[m] = IF m = n THEN index ELSE VisitIndex[m]
    BY <2>1, EnterFacts
  <2> QED BY <2>2 DEF n, index
<1>9. Node' = Node /\ GraphInv'
  BY <1>8, SameGraph
<1>10. WalkInv'
  <2>1. \A n \in Node : n < i => TarjanVisited'[n] > 0
    BY <1>3, <1>5, <1>8 DEF WalkInv
  <2>2. \A n \in Node : TarjanVisited'[n] <= TarjanWalkId
    BY <1>3, <1>8 DEF WalkInv
  <2>3. \A k \in 1..(TarjanIndex + 1) :
          \E n \in Node : TarjanVisited'[n] = TarjanWalkId /\ VisitIndex'[n] = k
    <3> SUFFICES ASSUME NEW k \in 1..(TarjanIndex + 1)
                 PROVE  \E n \in Node : TarjanVisited'[n] = TarjanWalkId /\ VisitIndex'[n] = k
      OBVIOUS
    <3>1. CASE k = TarjanIndex + 1
      BY <1>2, <1>8, <3>1
    <3>2. CASE k # TarjanIndex + 1
      <4>1. k \in 1..TarjanIndex
        BY <1>3, <3>2
      <4>2. PICK n \in Node : TarjanVisited[n] = TarjanWalkId /\ VisitIndex[n] = k
        BY <4>1 DEF WalkInv
      <4>3. n # There
        BY <1>1, <1>5, <4>2
      <4> QED BY <1>8, <4>2, <4>3
    <3> QED BY <3>1, <3>2
  <2>4. \A n \in Node : VisitIndex'[n] <= Len(InputGraph)
    BY <1>6, <1>8 DEF WalkInv
  <2> QED BY <1>1, <1>6, <1>8, <1>9, <2>1, <2>2, <2>3, <2>4 DEF WalkInv
<1> QED BY <1>1, <1>7, <1>8, <1>9, <1>10

---------------------------------------------------------------------------
(* Steps that leave the walk as it is.                                      *)
LEMMA QuietStep ==
  ASSUME WalkingInv, UNCHANGED <<InputGraph, walk, found, Root, TarjanWalkId, calls>>
  PROVE  /\ StackInv' /\ CallInv' /\ RootInv' /\ ReachInv' /\ EdgeInv' /\ LowInv' /\ NamedInv'
         /\ Held' = Held /\ Node' = Node /\ Succ' = Succ /\ GraphInv' = GraphInv
<1> USE DEF WalkingInv, walk, found
<1>1. Node' = Node /\ Succ' = Succ /\ Reach' = Reach /\ Mutual' = Mutual /\ GraphInv' = GraphInv
  BY SameGraph
<1>2. Level' = Level /\ Slot' = Slot /\ Held' = Held /\ Active' = Active
  BY <1>1 DEF Level, Slot, Held, Active
<1>3. \A a \in Level : Pending(a)' = Pending(a)
  BY DEF Pending
<1>4. StackInv' /\ CallInv' /\ RootInv'
  BY <1>1, <1>2, <1>3 DEF StackInv, CallInv, RootInv
<1>5. ReachInv' /\ EdgeInv'
  BY <1>1, <1>2, <1>3 DEF ReachInv, EdgeInv
<1>6. LowInv'
  BY <1>1, <1>2 DEF LowInv, Between, AboutToLearn
<1>7. NamedInv'
  BY <1>1, <1>2 DEF NamedInv
<1> QED BY <1>1, <1>2, <1>4, <1>5, <1>6, <1>7

LEMMA SkipNodeStep ==
  ASSUME GraphInv, WalkingInv, SkipNode
  PROVE  GraphInv' /\ WalkingInv'
<1>1. /\ StackInv' /\ CallInv' /\ RootInv' /\ ReachInv' /\ EdgeInv' /\ LowInv' /\ NamedInv'
      /\ Held' = Held /\ Node' = Node /\ Succ' = Succ /\ GraphInv' = GraphInv
  BY QuietStep DEF SkipNode
<1> USE DEF WalkingInv, SkipNode, walk, found
<1>2. Len(InputGraph) \in Nat /\ i \in Nat
  BY SuccessorsAreNodes DEF TypeInv
<1>3. TypeInv'
  BY <1>1, <1>2 DEF TypeInv
<1>4. WalkInv'
  <2>1. \A n \in Node : n < i + 1 => TarjanVisited[n] > 0
    <3> SUFFICES ASSUME NEW n \in Node, n < i + 1 PROVE TarjanVisited[n] > 0
      OBVIOUS
    <3>1. n < i \/ n = i
      BY <1>2, SuccessorsAreNodes
    <3> QED BY <3>1 DEF WalkInv
  <2>2. TarjanWalkId < i + 1
    BY <1>2 DEF WalkInv, TypeInv
  <2> QED BY <1>1, <2>1, <2>2 DEF WalkInv
<1>5. EndInv'
  BY DEF EndInv
<1> QED BY <1>1, <1>3, <1>4, <1>5

LEMMA EndTarjanStep ==
  ASSUME GraphInv, WalkingInv, EndTarjan
  PROVE  GraphInv' /\ WalkingInv'
<1>1. /\ StackInv' /\ CallInv' /\ RootInv' /\ ReachInv' /\ EdgeInv' /\ LowInv' /\ NamedInv'
      /\ Held' = Held /\ Node' = Node /\ Succ' = Succ /\ GraphInv' = GraphInv
  BY QuietStep DEF EndTarjan
<1> USE DEF WalkingInv, EndTarjan, walk, found
<1>2. TypeInv' /\ WalkInv'
  BY <1>1 DEF TypeInv, WalkInv
<1>3. EndInv'
  BY DEF EndInv
<1> QED BY <1>1, <1>2, <1>3

LEMMA TransferEdgesStep ==
  ASSUME GraphInv, WalkingInv, TransferEdges
  PROVE  GraphInv' /\ WalkingInv'
<1>1. /\ StackInv' /\ CallInv' /\ RootInv' /\ ReachInv' /\ EdgeInv' /\ LowInv' /\ NamedInv'
      /\ Held' = Held /\ Node' = Node /\ Succ' = Succ /\ GraphInv' = GraphInv
  BY QuietStep DEF TransferEdges
<1> USE DEF WalkingInv, TransferEdges, walk, found
<1>2. TypeInv' /\ WalkInv'
  BY <1>1 DEF TypeInv, WalkInv
<1>3. EndInv'
  <2>1. \A c : OutgoingEdges(c)' = OutgoingEdges(c)
    BY <1>1 DEF OutgoingEdges, Successors
  <2> QED BY <2>1 DEF EndInv
<1> QED BY <1>1, <1>2, <1>3

---------------------------------------------------------------------------
(* An edge has been dealt with, and the root of the call's node is now r.   *)
LEMMA FollowedCalls ==
  ASSUME GraphInv, WalkingInv, FollowsEdge, NextEdge
  PROVE  /\ calls' \in Seq([node : Node, edges : Seq(Node)]) /\ calls' # <<>>
         /\ Len(calls') = Len(calls) /\ Level' = Level /\ Active' = Active
         /\ \A a \in Level : /\ calls'[a].node = calls[a].node
                             /\ Pending(a)' \subseteq Pending(a)
                             /\ a # 1 => /\ Pending(a)' = Pending(a)
                                         /\ calls'[a].edges = calls[a].edges
         /\ Pending(1) \subseteq Pending(1)' \cup {There}
<1> DEFINE S == [node : Node, edges : Seq(Node)]
           e == [Call EXCEPT !.edges = Tail(@)]
<1>1. /\ 1 \in Level /\ Call = calls[1] /\ calls[1] \in S /\ Len(calls) \in Nat
  BY InnermostCall DEF WalkingInv, FollowsEdge
<1>2. /\ calls[1].edges \in Seq(Node) /\ calls[1].edges # <<>> /\ There = Head(calls[1].edges)
  BY <1>1 DEF FollowsEdge, There
<1>3. /\ Tail(calls[1].edges) \in Seq(Node) /\ Len(calls[1].edges) \in Nat \ {0}
      /\ Len(Tail(calls[1].edges)) = Len(calls[1].edges) - 1
      /\ There = calls[1].edges[1]
      /\ \A k \in 1..Len(Tail(calls[1].edges)) :
           k + 1 \in 1..Len(calls[1].edges) /\ Tail(calls[1].edges)[k] = calls[1].edges[k + 1]
  BY <1>2, PoppedFront
<1>4. e \in S /\ e.node = calls[1].node /\ e.edges = Tail(calls[1].edges)
  <2>1. /\ e = [calls[1] EXCEPT !.edges = Tail(@)]
    BY <1>1
  <2> QED BY <1>1, <1>3, <2>1
<1>5. /\ calls' \in Seq(S) /\ calls' # <<>> /\ Len(calls') = Len(calls) /\ calls'[1] = e
      /\ \A a \in 1..Len(calls) : a # 1 => calls'[a] = calls[a]
  <2>1. calls \in Seq(S) /\ calls # <<>> /\ calls' = <<e>> \o Tail(calls)
    BY DEF WalkingInv, TypeInv, FollowsEdge, NextEdge
  <2>2. e \in S
    BY <1>4
  <2> HIDE DEF e, S
  <2> QED BY <2>1, <2>2, ReplacedFront
<1>6. calls'[1].node = calls[1].node /\ calls'[1].edges = Tail(calls[1].edges)
  BY <1>4, <1>5
<1> HIDE DEF e, S
<1>7. Level' = Level
  BY <1>5 DEF Level
<1>8. \A a \in Level : calls'[a].node = calls[a].node
  BY <1>5, <1>6 DEF Level
<1>9. Active' = Active
  BY <1>7, <1>8 DEF Active
<1>10. \A a \in Level : a # 1 => Pending(a)' = Pending(a) /\ calls'[a].edges = calls[a].edges
  BY <1>5 DEF Level, Pending
<1>11. Pending(1)' \subseteq Pending(1)
  BY <1>3, <1>6 DEF Pending
<1>12. Pending(1) \subseteq Pending(1)' \cup {There}
  <2> SUFFICES ASSUME NEW k \in 1..Len(calls[1].edges), k # 1
               PROVE  calls[1].edges[k] \in Pending(1)'
    BY <1>3 DEF Pending
  <2>1. k - 1 \in 1..Len(Tail(calls[1].edges)) /\ (k - 1) + 1 = k
    BY <1>3
  <2>2. calls[1].edges[k] = Tail(calls[1].edges)[k - 1]
    BY <1>3, <2>1
  <2> QED BY <1>6, <2>1, <2>2 DEF Pending
<1> QED BY <1>5, <1>7, <1>8, <1>9, <1>10, <1>11, <1>12 DEF S

LEMMA FollowedStep ==
  ASSUME GraphInv, WalkingInv, FollowsEdge, NextEdge,
         UNCHANGED <<InputGraph, walk, found, TarjanWalkId, ComponentGraph, i, pc>>,
         NEW r \in Held, Root' = [Root EXCEPT ![Here] = r],
         VisitIndex[r] <= VisitIndex[Root[Here]], r \in Reach[Here],
         TarjanVisited[There] > 0,
         There \in Held => VisitIndex[r] <= VisitIndex[Root[There]]
  PROVE  GraphInv' /\ WalkingInv'
<1> USE DEF WalkingInv, walk, found
<1>1. /\ calls' \in Seq([node : Node, edges : Seq(Node)]) /\ calls' # <<>>
      /\ Len(calls') = Len(calls) /\ Level' = Level /\ Active' = Active
      /\ \A a \in Level : /\ calls'[a].node = calls[a].node
                          /\ Pending(a)' \subseteq Pending(a)
                          /\ a # 1 => /\ Pending(a)' = Pending(a)
                                      /\ calls'[a].edges = calls[a].edges
      /\ Pending(1) \subseteq Pending(1)' \cup {There}
  BY FollowedCalls
<1>2. /\ Node' = Node /\ Succ' = Succ /\ Reach' = Reach /\ Mutual' = Mutual /\ GraphInv' = GraphInv
  BY SameGraph
<1>3. /\ There = Head(calls[1].edges) /\ There \in Pending(1)
      /\ There \in Succ[Here] /\ There \in Node /\ Here \in Held
  BY NextDestination
<1>4. 1 \in Level /\ Len(calls) \in Level /\ Here = calls[1].node /\ calls # <<>>
  BY InnermostCall DEF FollowsEdge
<1>5. Held' = Held /\ Slot' = Slot /\ Held \subseteq Node
  BY <1>2 DEF Held, Slot
<1>6. \A n \in Node : Root'[n] = IF n = Here THEN r ELSE Root[n]
  BY <1>3, <1>5 DEF TypeInv
<1>7. \A n \in Held : /\ VisitIndex[n] \in Nat /\ Root[n] \in Held /\ Root'[n] \in Held
                      /\ VisitIndex[Root[n]] \in Nat /\ VisitIndex[Root'[n]] \in Nat
                      /\ VisitIndex[Root'[n]] <= VisitIndex[Root[n]]
                      /\ VisitIndex[Root[n]] <= VisitIndex[n]
  <2>1. \A n \in Held : VisitIndex[n] \in Nat /\ Root[n] \in Held
    BY <1>5 DEF TypeInv, RootInv
  <2>2. \A n \in Held : VisitIndex[Root[n]] <= VisitIndex[n]
    BY DEF RootInv
  <2> QED BY <1>5, <1>6, <2>1, <2>2
<1>8. \A a \in Level : calls[a].node \in Held
  BY DEF CallInv
<1>9. TypeInv'
  <2>1. Root' \in [Node -> Node \cup {0}]
    BY <1>3, <1>5 DEF TypeInv
  <2> QED BY <1>1, <1>2, <2>1 DEF TypeInv
<1>10. StackInv'
  BY <1>5 DEF StackInv
<1>11. CallInv'
  <2>1. \A a \in Level : calls'[a].node \in Held /\ Pending(a)' \subseteq Succ[calls'[a].node]
    BY <1>1 DEF CallInv
  <2>2. \A a, b \in Level : a < b => VisitIndex[calls'[b].node] < VisitIndex[calls'[a].node]
    BY <1>1 DEF CallInv
  <2>3. \A a, b \in Level : b = a + 1 => calls'[b].edges # <<>> /\ Head(calls'[b].edges) = calls'[a].node
    <3> SUFFICES ASSUME NEW a \in Level, NEW b \in Level, b = a + 1
                 PROVE  calls'[b].edges # <<>> /\ Head(calls'[b].edges) = calls'[a].node
      OBVIOUS
    <3>1. b # 1
      BY DEF Level
    <3> QED BY <1>1, <3>1 DEF CallInv
  <2>4. \A n \in Held : VisitIndex[calls'[Len(calls')].node] <= VisitIndex[n]
    BY <1>1, <1>4 DEF CallInv
  <2> QED BY <1>1, <1>2, <1>5, <2>1, <2>2, <2>3, <2>4 DEF CallInv
<1>12. RootInv'
  <2> SUFFICES ASSUME NEW n \in Held
               PROVE  /\ Root'[n] \in Held /\ VisitIndex[Root'[n]] <= VisitIndex[n]
                      /\ Root'[n] \in Reach[n]
                      /\ n \notin Active => VisitIndex[Root'[n]] < VisitIndex[n]
    BY <1>1, <1>2, <1>5 DEF RootInv
  <2>1. Root'[n] \in Reach[n]
    BY <1>5, <1>6 DEF RootInv
  <2>2. n \notin Active => VisitIndex[Root'[n]] < VisitIndex[n]
    BY <1>7 DEF RootInv
  <2> QED BY <1>7, <2>1, <2>2
<1>13. ReachInv'
  BY <1>1, <1>2, <1>5 DEF ReachInv
<1>14. EdgeInv'
  <2> SUFFICES ASSUME NEW n \in Held, NEW m \in Succ[n]
               PROVE  \/ TarjanVisited[m] > 0 /\ (TarjanComponents[m] = 0 => VisitIndex[Root'[n]] <= VisitIndex[m])
                      \/ \E a \in Level : calls'[a].node = n /\ m \in Pending(a)'
    BY <1>1, <1>2, <1>5 DEF EdgeInv
  <2>1. m \in Node
    BY <1>5, SuccessorsAreNodes
  <2>2. CASE TarjanVisited[m] > 0 /\ (TarjanComponents[m] = 0 => VisitIndex[Root[n]] <= VisitIndex[m])
    <3>1. TarjanComponents[m] = 0 => VisitIndex[Root'[n]] <= VisitIndex[m]
      <4>1. VisitIndex[m] \in Nat
        BY <2>1 DEF TypeInv
      <4> QED BY <1>7, <2>2, <4>1
    <3> QED BY <2>2, <3>1
  <2>3. CASE \E a \in Level : calls[a].node = n /\ m \in Pending(a)
    <3>1. PICK a \in Level : calls[a].node = n /\ m \in Pending(a)
      BY <2>3
    <3>2. CASE m \in Pending(a)'
      BY <1>1, <3>1, <3>2
    <3>3. CASE m \notin Pending(a)'
      <4>1. a = 1 /\ m = There /\ n = Here
        BY <1>1, <1>4, <3>1, <3>3
      <4>2. TarjanComponents[m] = 0 => VisitIndex[Root'[n]] <= VisitIndex[m]
        <5> SUFFICES ASSUME TarjanComponents[m] = 0 PROVE VisitIndex[Root'[n]] <= VisitIndex[m]
          OBVIOUS
        <5>1. There \in Held
          BY <2>1, <4>1 DEF Held
        <5>2. VisitIndex[r] <= VisitIndex[Root[There]] /\ Root'[n] = r
          BY <1>5, <1>6, <4>1, <5>1
        <5> QED BY <1>7, <4>1, <5>1, <5>2
      <4> QED BY <4>1, <4>2
    <3> QED BY <3>2, <3>3
  <2> QED BY <2>2, <2>3 DEF EdgeInv
<1>15. LowInv'
  <2> SUFFICES ASSUME NEW a \in Level, NEW n \in Held, Between(a, n)'
               PROVE  VisitIndex[Root'[calls'[a].node]] <= VisitIndex[Root'[n]]
    BY <1>1, <1>5 DEF LowInv
  <2>1. Between(a, n)
    BY <1>1 DEF Between
  <2>2. n # Here
    <3>1. CASE a = 1
      BY <1>4, <1>7, <1>8, <2>1, <3>1 DEF Between
    <3>2. CASE a # 1
      <4>1. 1 < a
        BY <3>2 DEF Level
      <4> QED BY <1>4, <1>7, <1>8, <2>1, <4>1 DEF Between
    <3> QED BY <3>1, <3>2
  <2>3. Root'[n] = Root[n] /\ calls'[a].node = calls[a].node /\ calls[a].node \in Held
    BY <1>1, <1>5, <1>6, <1>8, <2>2
  <2>4. CASE VisitIndex[Root[calls[a].node]] <= VisitIndex[Root[n]]
    BY <1>7, <2>3, <2>4
  <2>5. CASE a = 1 /\ AboutToLearn(n)
    <3>1. There \in Held /\ VisitIndex[Root[There]] <= VisitIndex[Root[n]]
      BY <1>3, <2>5 DEF AboutToLearn
    <3>2. Root'[calls'[a].node] = r /\ VisitIndex[r] \in Nat
      BY <1>4, <1>5, <1>6, <2>3, <2>5 DEF TypeInv
    <3> QED BY <1>7, <2>3, <3>1, <3>2
  <2> QED BY <2>1, <2>4, <2>5 DEF LowInv
<1>16. NamedInv' /\ WalkInv'
  BY <1>2 DEF NamedInv, WalkInv
<1>17. EndInv'
  BY DEF EndInv, FollowsEdge
<1> QED BY <1>2, <1>9, <1>10, <1>11, <1>12, <1>13, <1>14, <1>15, <1>16, <1>17

LEMMA IgnoreEdgeStep ==
  ASSUME GraphInv, WalkingInv, IgnoreEdge
  PROVE  GraphInv' /\ WalkingInv'
<1>1. /\ There \in Node /\ Here \in Held /\ FollowsEdge /\ NextEdge
  BY NextDestination DEF IgnoreEdge
<1>2. There \notin Held /\ TarjanVisited[There] > 0
  <2>1. TarjanVisited[There] > 0 /\ TarjanVisited[There] < TarjanWalkId
    BY DEF IgnoreEdge, ByEarlierWalk
  <2>2. TarjanVisited[There] \in Nat /\ TarjanWalkId \in Nat
    BY <1>1 DEF WalkingInv, TypeInv
  <2>3. There \in Held => TarjanVisited[There] = TarjanWalkId
    BY DEF WalkingInv, StackInv
  <2> QED BY <2>1, <2>2, <2>3
<1>3. Root[Here] \in Held /\ Root[Here] \in Reach[Here] /\ VisitIndex[Root[Here]] \in Nat
  BY <1>1 DEF WalkingInv, RootInv, TypeInv, Held
<1>4. Root' = [Root EXCEPT ![Here] = Root[Here]]
  BY <1>1 DEF IgnoreEdge, WalkingInv, TypeInv, Held
<1> DEFINE r == Root[Here]
<1>5. VisitIndex[r] <= VisitIndex[Root[Here]]
  BY <1>3
<1>6. UNCHANGED <<InputGraph, walk, found, TarjanWalkId, ComponentGraph, i, pc>>
  BY DEF IgnoreEdge
<1> QED BY <1>1, <1>2, <1>3, <1>4, <1>5, <1>6, FollowedStep

LEMMA UpdateRootStep ==
  ASSUME GraphInv, WalkingInv, UpdateRoot
  PROVE  GraphInv' /\ WalkingInv'
<1>1. /\ There \in Node /\ There \in Succ[Here] /\ Here \in Held /\ FollowsEdge /\ NextEdge
      /\ TarjanVisited[There] > 0
  BY NextDestination DEF UpdateRoot
<1>2. /\ Root[Here] \in Held /\ Root[Here] \in Reach[Here] /\ VisitIndex[Root[Here]] \in Nat
      /\ Here \in Node
  BY <1>1 DEF WalkingInv, RootInv, TypeInv, Held
<1>3. UNCHANGED <<InputGraph, walk, found, TarjanWalkId, ComponentGraph, i, pc>>
  BY DEF UpdateRoot
<1>4. There \in Held <=> TarjanComponents[There] = 0
  BY <1>1 DEF Held
<1>5. CASE BetterRoot
  <2>1. There \in Held
    BY <1>4, <1>5 DEF BetterRoot
  <2>2. /\ Root[There] \in Held /\ Root[There] \in Reach[There]
        /\ VisitIndex[Root[There]] \in Nat
    BY <2>1 DEF WalkingInv, RootInv, TypeInv, Held
  <2>3. There \in Reach[Here] /\ Reach[There] \subseteq Reach[Here]
    BY <1>1, <1>2, ReachFacts
  <2>4. VisitIndex[Root[There]] <= VisitIndex[Root[Here]]
    BY <1>2, <1>5, <2>2 DEF BetterRoot
  <2>5. Root' = [Root EXCEPT ![Here] = Root[There]]
    BY <1>5 DEF UpdateRoot
  <2>6. VisitIndex[Root[There]] <= VisitIndex[Root[There]]
    BY <2>2
  <2> QED BY <1>1, <1>3, <2>2, <2>3, <2>4, <2>5, <2>6, FollowedStep
<1>6. CASE ~BetterRoot
  <2>1. Root' = [Root EXCEPT ![Here] = Root[Here]]
    BY <1>2, <1>6 DEF UpdateRoot, WalkingInv, TypeInv
  <2>2. There \in Held => VisitIndex[Root[Here]] <= VisitIndex[Root[There]]
    <3> SUFFICES ASSUME There \in Held PROVE VisitIndex[Root[Here]] <= VisitIndex[Root[There]]
      OBVIOUS
    <3>1. VisitIndex[Root[There]] \in Nat
      BY DEF WalkingInv, RootInv, TypeInv, Held
    <3> QED BY <1>2, <1>4, <1>6, <3>1 DEF BetterRoot
  <2>3. VisitIndex[Root[Here]] <= VisitIndex[Root[Here]]
    BY <1>2
  <2> QED BY <1>1, <1>2, <1>3, <2>1, <2>2, <2>3, FollowedStep
<1> QED BY <1>5, <1>6

---------------------------------------------------------------------------
(* The innermost call returns.                                              *)
LEMMA HeldFacts ==
  ASSUME WalkingInv
  PROVE  /\ Held \subseteq Node
         /\ \A n \in Held : VisitIndex[n] \in Nat /\ Root[n] \in Held
                            /\ VisitIndex[Root[n]] <= VisitIndex[n]
         /\ \A n, m \in Held : VisitIndex[n] = VisitIndex[m] => n = m
<1> USE DEF WalkingInv
<1>1. Held \subseteq Node
  BY DEF Held
<1>2. \A n \in Held : VisitIndex[n] \in Nat /\ Root[n] \in Held /\ VisitIndex[Root[n]] <= VisitIndex[n]
  BY <1>1 DEF TypeInv, RootInv
<1>3. ASSUME NEW n \in Held, NEW m \in Held, VisitIndex[n] = VisitIndex[m]
      PROVE  n = m
  <2>1. PICK a \in Slot, b \in Slot : TarjanStack[a] = n /\ TarjanStack[b] = m
    BY DEF StackInv
  <2>2. ~(a < b) /\ ~(b < a)
    BY <1>2, <1>3, <2>1 DEF StackInv
  <2>3. a \in Nat /\ b \in Nat
    BY DEF Slot
  <2> QED BY <2>1, <2>2, <2>3
<1> QED BY <1>1, <1>2, <1>3

LEMMA PoppedCalls ==
  ASSUME WalkingInv, EdgesFollowed, calls' = Tail(calls)
  PROVE  /\ calls' \in Seq([node : Node, edges : Seq(Node)])
         /\ Len(calls) \in Nat \ {0} /\ Len(calls') = Len(calls) - 1
         /\ 1 \in Level /\ Here = calls[1].node /\ Here \in Held
         /\ calls[1].edges = <<>> /\ Pending(1) = {}
         /\ \A a \in Level' : /\ a + 1 \in Level /\ calls'[a].node = calls[a + 1].node
                              /\ calls'[a].edges = calls[a + 1].edges
                              /\ Pending(a)' = Pending(a + 1)
         /\ \A a \in Level : a = 1 \/ (a > 1 /\ a - 1 \in Level' /\ (a - 1) + 1 = a)
         /\ Active' = Active \ {Here}
<1> USE DEF WalkingInv
<1>1. /\ 1 \in Level /\ Here = calls[1].node /\ calls[1].edges = <<>>
  BY InnermostCall DEF EdgesFollowed
<1>2. Here \in Held
  BY <1>1 DEF CallInv
<1>3. Pending(1) = {}
  BY <1>1 DEF Pending
<1>4. /\ calls' \in Seq([node : Node, edges : Seq(Node)])
      /\ Len(calls) \in Nat \ {0} /\ Len(calls') = Len(calls) - 1
      /\ \A a \in 1..Len(calls') : a + 1 \in 1..Len(calls) /\ calls'[a] = calls[a + 1]
  <2> DEFINE S == [node : Node, edges : Seq(Node)]
  <2>1. calls \in Seq(S) /\ calls # <<>> /\ calls' = Tail(calls)
    BY DEF TypeInv, EdgesFollowed
  <2> HIDE DEF S
  <2>2. /\ calls' \in Seq(S) /\ Len(calls) \in Nat \ {0} /\ Len(calls') = Len(calls) - 1
        /\ \A a \in 1..Len(calls') : a + 1 \in 1..Len(calls) /\ calls'[a] = calls[a + 1]
    BY <2>1, PoppedFront
  <2> QED BY <2>2 DEF S
<1>5. \A a \in Level' : /\ a + 1 \in Level /\ calls'[a].node = calls[a + 1].node
                        /\ calls'[a].edges = calls[a + 1].edges
                        /\ Pending(a)' = Pending(a + 1)
  BY <1>4 DEF Level, Pending
<1>6. \A a \in Level : a = 1 \/ (a > 1 /\ a - 1 \in Level' /\ (a - 1) + 1 = a)
  BY <1>4 DEF Level
<1>7. ASSUME NEW a \in Level, a # 1 PROVE calls[a].node # Here
  <2>1. 1 < a
    BY <1>6, <1>7
  <2>2. VisitIndex[calls[a].node] < VisitIndex[Here]
    BY <1>1, <2>1 DEF CallInv
  <2>3. VisitIndex[Here] \in Nat
    BY <1>2, HeldFacts
  <2> QED BY <2>2, <2>3
<1>8. Active' = Active \ {Here}
  <2>1. \A a \in Level' : calls'[a].node \in Active /\ calls'[a].node # Here
    <3> SUFFICES ASSUME NEW a \in Level' PROVE calls'[a].node \in Active /\ calls'[a].node # Here
      OBVIOUS
    <3>1. a + 1 \in Level /\ a + 1 # 1
      BY <1>4, <1>5 DEF Level
    <3> QED BY <1>5, <1>7, <3>1 DEF Active
  <2>2. \A a \in Level : calls[a].node # Here => calls[a].node \in Active'
    <3> SUFFICES ASSUME NEW a \in Level, calls[a].node # Here PROVE calls[a].node \in Active'
      OBVIOUS
    <3>1. a - 1 \in Level' /\ (a - 1) + 1 = a
      BY <1>1, <1>6
    <3>2. calls'[a - 1].node = calls[a].node
      BY <1>5, <3>1
    <3> QED BY <3>1, <3>2 DEF Active
  <2> QED BY <2>1, <2>2 DEF Active
<1> QED BY <1>1, <1>2, <1>3, <1>4, <1>5, <1>6, <1>8

LEMMA ReturnUnderRootStep ==
  ASSUME GraphInv, WalkingInv, ReturnUnderRoot
  PROVE  GraphInv' /\ WalkingInv'
<1> USE DEF ReturnUnderRoot, walk, found
<1>1. /\ calls' \in Seq([node : Node, edges : Seq(Node)])
      /\ Len(calls) \in Nat \ {0} /\ Len(calls') = Len(calls) - 1
      /\ 1 \in Level /\ Here = calls[1].node /\ Here \in Held
      /\ calls[1].edges = <<>> /\ Pending(1) = {}
      /\ \A a \in Level' : /\ a + 1 \in Level /\ calls'[a].node = calls[a + 1].node
                           /\ calls'[a].edges = calls[a + 1].edges
                           /\ Pending(a)' = Pending(a + 1)
      /\ \A a \in Level : a = 1 \/ (a > 1 /\ a - 1 \in Level' /\ (a - 1) + 1 = a)
      /\ Active' = Active \ {Here}
  BY PoppedCalls
<1>2. /\ Node' = Node /\ Succ' = Succ /\ Reach' = Reach /\ Mutual' = Mutual /\ GraphInv' = GraphInv
  BY SameGraph
<1>3. /\ Held \subseteq Node
      /\ \A n \in Held : VisitIndex[n] \in Nat /\ Root[n] \in Held
                         /\ VisitIndex[Root[n]] <= VisitIndex[n]
      /\ \A n, m \in Held : VisitIndex[n] = VisitIndex[m] => n = m
  BY HeldFacts
<1> USE DEF WalkingInv
<1>4. Held' = Held /\ Slot' = Slot
  BY <1>2 DEF Held, Slot
<1>5. VisitIndex[Root[Here]] < VisitIndex[Here]
  <2>1. Root[Here] # Here
    OBVIOUS
  <2> QED BY <1>1, <1>3, <2>1
<1>6. calls' # <<>>
  <2> SUFFICES ASSUME calls' = <<>> PROVE FALSE
    OBVIOUS
  <2>1. Len(calls) = 1
    <3> HIDE DEF ReturnUnderRoot, WalkingInv
    <3>1. Len(calls') = 0
      BY EmptySeq
    <3>2. Len(calls) \in Nat \ {0} /\ Len(calls') = Len(calls) - 1
      BY <1>1
    <3> QED BY <3>1, <3>2
  <2>2. \A n \in Held : VisitIndex[Here] <= VisitIndex[n]
    BY <1>1, <2>1 DEF CallInv, EdgesFollowed
  <2>3. VisitIndex[Here] <= VisitIndex[Root[Here]]
    BY <1>1, <1>3, <2>2
  <2> QED BY <1>1, <1>3, <1>5, <2>3
<1>7. TypeInv' /\ StackInv'
  <2>1. TypeInv'
    BY <1>1, <1>2 DEF TypeInv
  <2>2. StackInv'
    BY <1>4 DEF StackInv
  <2> QED BY <2>1, <2>2
<1>8. CallInv'
  <2>1. \A a \in Level' : calls'[a].node \in Held /\ Pending(a)' \subseteq Succ[calls'[a].node]
    BY <1>1 DEF CallInv
  <2>2. \A a, b \in Level' : a < b => VisitIndex[calls'[b].node] < VisitIndex[calls'[a].node]
    <3> SUFFICES ASSUME NEW a \in Level', NEW b \in Level', a < b
                 PROVE  VisitIndex[calls'[b].node] < VisitIndex[calls'[a].node]
      OBVIOUS
    <3>1. a + 1 < b + 1 /\ a + 1 \in Level /\ b + 1 \in Level
      BY <1>1 DEF Level
    <3> QED BY <1>1, <3>1 DEF CallInv
  <2>3. \A a, b \in Level' : b = a + 1 => calls'[b].edges # <<>> /\ Head(calls'[b].edges) = calls'[a].node
    <3> SUFFICES ASSUME NEW a \in Level', NEW b \in Level', b = a + 1
                 PROVE  calls'[b].edges # <<>> /\ Head(calls'[b].edges) = calls'[a].node
      OBVIOUS
    <3>1. b + 1 = (a + 1) + 1 /\ a + 1 \in Level /\ b + 1 \in Level
      BY <1>1 DEF Level
    <3>2. calls[b + 1].edges # <<>> /\ Head(calls[b + 1].edges) = calls[a + 1].node
      BY <3>1 DEF CallInv
    <3>3. calls'[b].edges = calls[b + 1].edges /\ calls'[a].node = calls[a + 1].node
      BY <1>1
    <3> QED BY <3>2, <3>3
  <2>4. \A n \in Held : VisitIndex[calls'[Len(calls')].node] <= VisitIndex[n]
    <3>1. Len(calls') \in Level' /\ Len(calls') + 1 = Len(calls)
      BY <1>1, <1>6, EmptySeq DEF Level
    <3>2. calls'[Len(calls')].node = calls[Len(calls)].node
      BY <1>1, <3>1
    <3> QED BY <3>2 DEF CallInv, EdgesFollowed
  <2> QED BY <1>2, <1>4, <1>6, <2>1, <2>2, <2>3, <2>4 DEF CallInv
<1>9. RootInv'
  <2> SUFFICES ASSUME NEW n \in Held, n \notin Active' PROVE VisitIndex[Root[n]] < VisitIndex[n]
    BY <1>2, <1>4 DEF RootInv
  <2> QED BY <1>1, <1>5 DEF RootInv
<1>10. ReachInv'
  BY <1>1, <1>2, <1>4 DEF ReachInv
<1>11. EdgeInv'
  <2> SUFFICES ASSUME NEW n \in Held, NEW m \in Succ[n],
                      \E a \in Level : calls[a].node = n /\ m \in Pending(a)
               PROVE  \E a \in Level' : calls'[a].node = n /\ m \in Pending(a)'
    BY <1>2, <1>4 DEF EdgeInv
  <2>1. PICK a \in Level : calls[a].node = n /\ m \in Pending(a)
    OBVIOUS
  <2>2. a - 1 \in Level' /\ (a - 1) + 1 = a
    BY <1>1, <2>1
  <2> QED BY <1>1, <2>1, <2>2
<1>12. LowInv'
  <2> SUFFICES ASSUME NEW a \in Level', NEW n \in Held, Between(a, n)'
               PROVE  \/ VisitIndex[Root[calls'[a].node]] <= VisitIndex[Root[n]]
                      \/ a = 1 /\ AboutToLearn(n)'
    BY <1>2, <1>4 DEF LowInv
  <2>1. /\ a + 1 \in Level /\ calls'[a].node = calls[a + 1].node
        /\ a \in Nat \ {0} /\ a + 1 # 1
    BY <1>1 DEF Level
  <2>2. CASE VisitIndex[n] < VisitIndex[Here]
    <3>1. ASSUME NEW b \in Level, b < a + 1 PROVE VisitIndex[n] < VisitIndex[calls[b].node]
      <4>1. CASE b = 1
        BY <1>1, <2>2, <4>1
      <4>2. CASE b # 1
        <5>1. b - 1 \in Level' /\ (b - 1) + 1 = b /\ b - 1 < a
          BY <1>1, <2>1, <3>1, <4>2 DEF Level
        <5> QED BY <1>1, <5>1 DEF Between
      <4> QED BY <4>1, <4>2
    <3>2. Between(a + 1, n)
      BY <2>1, <3>1 DEF Between
    <3> QED BY <2>1, <3>2 DEF LowInv
  <2>3. CASE ~(VisitIndex[n] < VisitIndex[Here])
    <3>1. VisitIndex[Here] <= VisitIndex[n]
      BY <1>1, <1>3, <2>3
    <3>2. a = 1
      <4> SUFFICES ASSUME a # 1 PROVE FALSE
        OBVIOUS
      <4>1. 1 \in Level' /\ 1 < a /\ 1 + 1 \in Level
        BY <1>1, <2>1 DEF Level
      <4>2. VisitIndex[n] < VisitIndex[calls[1 + 1].node]
        BY <1>1, <4>1 DEF Between
      <4>3. VisitIndex[calls[1 + 1].node] < VisitIndex[Here]
        BY <1>1, <4>1 DEF CallInv
      <4>4. VisitIndex[calls[1 + 1].node] \in Nat
        BY <1>3, <4>1 DEF CallInv
      <4> QED BY <1>1, <1>3, <3>1, <4>2, <4>3, <4>4
    <3>3. VisitIndex[Root[Here]] <= VisitIndex[Root[n]]
      <4>1. CASE n = Here
        BY <1>1, <1>3, <4>1
      <4>2. CASE n # Here
        <5>1. VisitIndex[Here] < VisitIndex[n]
          BY <1>1, <1>3, <3>1, <4>2
        <5>2. Between(1, n)
          BY <1>1, <5>1 DEF Between, Level
        <5>3. ~AboutToLearn(n)
          BY <1>1 DEF AboutToLearn
        <5> QED BY <1>1, <5>2, <5>3 DEF LowInv
      <4> QED BY <4>1, <4>2
    <3>4. calls'[1].edges # <<>> /\ Head(calls'[1].edges) = Here
      <4>1. 1 \in Level' /\ 1 + 1 \in Level
        BY <1>1, <3>2
      <4>2. calls'[1].edges = calls[1 + 1].edges
        BY <1>1, <4>1
      <4>3. calls[1 + 1].edges # <<>> /\ Head(calls[1 + 1].edges) = calls[1].node
        BY <1>1, <4>1 DEF CallInv
      <4> QED BY <1>1, <4>2, <4>3
    <3>5. VisitIndex[calls'[1].node] < VisitIndex[Here]
      <4>1. 1 \in Level' /\ 1 + 1 \in Level /\ 1 < 1 + 1
        BY <1>1, <3>2
      <4>2. calls'[1].node = calls[1 + 1].node
        BY <1>1, <4>1
      <4>3. VisitIndex[calls[1 + 1].node] < VisitIndex[calls[1].node]
        BY <1>1, <4>1 DEF CallInv
      <4> QED BY <1>1, <4>2, <4>3
    <3>6. AboutToLearn(n)'
      BY <1>1, <1>4, <3>1, <3>3, <3>4, <3>5 DEF AboutToLearn
    <3> QED BY <3>2, <3>6
  <2> QED BY <2>2, <2>3
<1>13. NamedInv' /\ WalkInv'
  BY <1>2 DEF NamedInv, WalkInv
<1>14. EndInv'
  BY DEF EndInv, EdgesFollowed
<1> QED BY <1>2, <1>7, <1>8, <1>9, <1>10, <1>11, <1>12, <1>13, <1>14

---------------------------------------------------------------------------
(* The node of the innermost call is its own root: the nodes down to it are *)
(* a component.                                                             *)
LEMMA PoppedFacts ==
  ASSUME WalkingInv, EdgesFollowed
  PROVE  /\ Depth \in Slot /\ TarjanStack[Depth] = Here /\ Here \in Held
         /\ Popped = {n \in Held : VisitIndex[Here] <= VisitIndex[n]}
<1> USE DEF WalkingInv
<1>1. Here \in Held
  BY InnermostCall DEF EdgesFollowed, CallInv
<1>2. /\ \A n \in Held : VisitIndex[n] \in Nat
      /\ \A n, m \in Held : VisitIndex[n] = VisitIndex[m] => n = m
  BY HeldFacts
<1>3. PICK d \in Slot : TarjanStack[d] = Here
  BY <1>1 DEF StackInv
<1>4. \A e \in Slot : TarjanStack[e] \in Held
  BY DEF StackInv
<1>5. \A e \in Slot : e < d => VisitIndex[Here] < VisitIndex[TarjanStack[e]]
  BY <1>3 DEF StackInv
<1>6. \A e \in Slot : d < e => VisitIndex[TarjanStack[e]] < VisitIndex[Here]
  BY <1>3 DEF StackInv
<1>7. \A e \in Slot : e # d => TarjanStack[e] # Here
  <2> SUFFICES ASSUME NEW e \in Slot, e # d, TarjanStack[e] = Here PROVE FALSE
    OBVIOUS
  <2>1. e < d \/ d < e
    BY <1>3 DEF Slot
  <2> QED BY <1>1, <1>2, <1>5, <1>6, <2>1
<1>8. Depth = d
  <2>1. \A e \in 1..(d-1) : e \in Slot /\ e # d
    BY <1>3 DEF Slot
  <2>2. TarjanStack[d] = Here /\ \A e \in 1..(d-1) : TarjanStack[e] # Here
    BY <1>3, <1>7, <2>1
  <2>3. \A c \in Slot : (TarjanStack[c] = Here /\ \A e \in 1..(c-1) : TarjanStack[e] # Here) => c = d
    BY <1>7
  <2> QED BY <1>3, <2>2, <2>3 DEF Depth, Slot
<1>9. \A n : n \in Popped <=> \E e \in 1..d : TarjanStack[e] = n
  BY <1>8 DEF Popped
<1>10. ASSUME NEW n \in Popped PROVE n \in Held /\ VisitIndex[Here] <= VisitIndex[n]
  <2>1. PICK e \in 1..d : TarjanStack[e] = n
    BY <1>9
  <2>2. e \in Slot /\ (e < d \/ e = d)
    BY <1>3 DEF Slot
  <2> QED BY <1>1, <1>2, <1>3, <1>4, <1>5, <2>1, <2>2
<1>11. ASSUME NEW n \in Held, VisitIndex[Here] <= VisitIndex[n] PROVE n \in Popped
  <2>1. PICK e \in Slot : TarjanStack[e] = n
    BY DEF StackInv
  <2>2. ~(d < e)
    BY <1>1, <1>2, <1>6, <1>11, <2>1
  <2>3. e \in 1..d
    BY <1>3, <2>2 DEF Slot
  <2> QED BY <1>9, <2>1, <2>3
<1> QED BY <1>1, <1>3, <1>8, <1>10, <1>11

LEMMA MutualIsSymmetric ==
  ASSUME GraphInv, NEW n \in Node, NEW m \in Mutual[n]
  PROVE  Mutual[m] = Mutual[n]
<1>1. m \in Node /\ m \in Reach[n] /\ n \in Reach[m]
  BY ReachFacts DEF Mutual
<1>2. Reach[m] \subseteq Reach[n] /\ Reach[n] \subseteq Reach[m]
  BY <1>1, ReachFacts
<1>3. \A x \in Reach[n] : x \in Node /\ (n \in Reach[x] <=> m \in Reach[x])
  <2> SUFFICES ASSUME NEW x \in Reach[n]
               PROVE  x \in Node /\ (n \in Reach[x] <=> m \in Reach[x])
    OBVIOUS
  <2>1. x \in Node
    BY ReachFacts
  <2>2. n \in Reach[x] => Reach[n] \subseteq Reach[x]
    BY <2>1, ReachFacts
  <2>3. m \in Reach[x] => Reach[m] \subseteq Reach[x]
    BY <2>1, ReachFacts
  <2> QED BY <1>1, <2>1, <2>2, <2>3
<1> QED BY <1>1, <1>2, <1>3 DEF Mutual

LEMMA PoppedIsComponent ==
  ASSUME GraphInv, WalkingInv, EdgesFollowed, Root[Here] = Here
  PROVE  /\ Here \in Popped /\ Popped = Mutual[Here]
         /\ \A n \in Popped : Mutual[n] = Popped
         /\ \A n \in Popped : \A m \in Succ[n] : m \in Popped \/ TarjanComponents[m] > 0
<1> USE DEF WalkingInv
<1> DEFINE Found == {n \in Node : TarjanComponents[n] > 0}
<1>1. Here \in Held /\ Popped = {n \in Held : VisitIndex[Here] <= VisitIndex[n]}
  BY PoppedFacts
<1>2. /\ Held \subseteq Node
      /\ \A n \in Held : VisitIndex[n] \in Nat /\ Root[n] \in Held
                         /\ VisitIndex[Root[n]] <= VisitIndex[n]
      /\ \A n, m \in Held : VisitIndex[n] = VisitIndex[m] => n = m
  BY HeldFacts
<1>3. 1 \in Level /\ Here = calls[1].node /\ calls[1].edges = <<>> /\ Here \in Node
  BY InnermostCall DEF EdgesFollowed
<1>4. Here \in Popped
  BY <1>1, <1>2
<1>5. \A n \in Popped : n \in Reach[Here]
  BY <1>1, <1>3 DEF ReachInv
<1>6. \A n \in Popped : VisitIndex[Here] <= VisitIndex[Root[n]]
  <2> SUFFICES ASSUME NEW n \in Popped, n # Here PROVE VisitIndex[Here] <= VisitIndex[Root[n]]
    BY <1>1, <1>2
  <2>1. n \in Held /\ VisitIndex[Here] < VisitIndex[n]
    BY <1>1, <1>2
  <2>2. Between(1, n)
    BY <1>3, <2>1 DEF Between, Level
  <2>3. ~AboutToLearn(n)
    BY <1>3 DEF AboutToLearn
  <2> QED BY <1>3, <2>1, <2>2, <2>3 DEF LowInv
<1>7. \A a \in Level : calls[a].node \in Popped => a = 1
  <2> SUFFICES ASSUME NEW a \in Level, calls[a].node \in Popped, a # 1 PROVE FALSE
    OBVIOUS
  <2>1. 1 < a
    BY DEF Level
  <2>2. VisitIndex[calls[a].node] < VisitIndex[Here]
    BY <1>3, <2>1 DEF CallInv
  <2>3. VisitIndex[Here] <= VisitIndex[calls[a].node] /\ calls[a].node \in Held
    BY <1>1
  <2> QED BY <1>1, <1>2, <2>2, <2>3
<1>8. \A n \in Popped : Here \in Reach[n]
  <2> SUFFICES ASSUME ~ \A n \in Popped : Here \in Reach[n] PROVE FALSE
    OBVIOUS
  <2> DEFINE T == {VisitIndex[n] : n \in {p \in Popped : Here \notin Reach[p]}}
  <2>1. T \in SUBSET Nat /\ T # {}
    BY <1>1, <1>2
  <2>2. PICK least \in T : \A k \in T : least <= k
    <3> HIDE DEF T
    <3> QED BY <2>1, LeastNumber
  <2>3. PICK n \in Popped : Here \notin Reach[n] /\ VisitIndex[n] = least
    BY <2>2
  <2>4. n # Here /\ n \in Held /\ n \in Node
    BY <1>1, <1>2, <2>3, ReachFacts
  <2>5. n \notin Active
    BY <1>3, <1>7, <2>4 DEF Active
  <2>6. Root[n] \in Held /\ Root[n] \in Reach[n] /\ VisitIndex[Root[n]] < VisitIndex[n]
    BY <2>4, <2>5 DEF RootInv
  <2>7. Root[n] \in Popped
    BY <1>1, <1>6, <2>6
  <2>8. Here \notin Reach[Root[n]]
    BY <2>3, <2>4, <2>6, ReachFacts
  <2>9. VisitIndex[Root[n]] \in T
    BY <2>7, <2>8
  <2>10. VisitIndex[n] <= VisitIndex[Root[n]]
    BY <2>2, <2>3, <2>9
  <2> QED BY <1>2, <2>4, <2>6, <2>10
<1>9. ASSUME NEW n \in Popped, NEW m \in Succ[n]
      PROVE  m \in Popped \/ m \in Found
  <2>1. n \in Held /\ m \in Node
    BY <1>1, <1>2, SuccessorsAreNodes
  <2>2. ~ \E a \in Level : calls[a].node = n /\ m \in Pending(a)
    <3> SUFFICES ASSUME NEW a \in Level, calls[a].node = n, m \in Pending(a) PROVE FALSE
      OBVIOUS
    <3>1. a = 1
      BY <1>7
    <3> QED BY <1>3, <3>1 DEF Pending
  <2>3. TarjanVisited[m] > 0 /\ (TarjanComponents[m] = 0 => VisitIndex[Root[n]] <= VisitIndex[m])
    BY <2>1, <2>2 DEF EdgeInv
  <2>4. CASE TarjanComponents[m] = 0
    <3>1. m \in Held /\ VisitIndex[Root[n]] <= VisitIndex[m]
      BY <2>1, <2>3, <2>4 DEF Held
    <3>2. VisitIndex[Here] <= VisitIndex[Root[n]] /\ Root[n] \in Held
      BY <1>2, <1>6, <2>1
    <3> QED BY <1>1, <1>2, <3>1, <3>2
  <2>5. CASE TarjanComponents[m] # 0
    BY <2>1, <2>5 DEF TypeInv
  <2> QED BY <2>4, <2>5
<1>10. \A n \in Found : Succ[n] \subseteq Found
  <2> SUFFICES ASSUME NEW n \in Found, NEW m \in Succ[n] PROVE m \in Found
    OBVIOUS
  <2>1. m \in Node
    BY SuccessorsAreNodes
  <2> QED BY <2>1 DEF NamedInv
<1>11. ASSUME NEW m \in Mutual[Here] PROVE m \in Popped
  <2>1. m \in Reach[Here] /\ Here \in Reach[m] /\ m \in Node
    BY <1>3, ReachFacts DEF Mutual
  <2>2. Leads(Here, Popped \cup Found)
    BY <1>4, <1>9, <1>10 DEF Leads
  <2>3. Popped \cup Found \subseteq Node
    BY <1>1, <1>2
  <2>4. m \in Popped \cup Found
    BY <1>3, <2>1, <2>2, <2>3, ReachFacts
  <2>5. m \notin Found
    <3> SUFFICES ASSUME m \in Found PROVE FALSE
      OBVIOUS
    <3>1. Leads(m, Found)
      BY <1>10 DEF Leads
    <3>2. Here \in Found
      BY <2>1, <3>1, ReachFacts
    <3> QED BY <1>1, <3>2 DEF Held
  <2> QED BY <2>4, <2>5
<1>12. Popped = Mutual[Here]
  <2>1. \A n \in Popped : n \in Mutual[Here]
    BY <1>3, <1>5, <1>8 DEF Mutual
  <2> QED BY <1>11, <2>1
<1>13. \A n \in Popped : Mutual[n] = Popped
  BY <1>3, <1>12, MutualIsSymmetric
<1> QED BY <1>4, <1>9, <1>12, <1>13

LEMMA FindComponentStep ==
  ASSUME GraphInv, WalkingInv, FindComponent
  PROVE  GraphInv' /\ WalkingInv'
<1> DEFINE k == Len(Components) + 1
<1>1. /\ calls' \in Seq([node : Node, edges : Seq(Node)])
      /\ Len(calls) \in Nat \ {0} /\ Len(calls') = Len(calls) - 1
      /\ 1 \in Level /\ Here = calls[1].node /\ Here \in Held
      /\ calls[1].edges = <<>> /\ Pending(1) = {}
      /\ \A a \in Level' : /\ a + 1 \in Level /\ calls'[a].node = calls[a + 1].node
                           /\ calls'[a].edges = calls[a + 1].edges
                           /\ Pending(a)' = Pending(a + 1)
      /\ \A a \in Level : a = 1 \/ (a > 1 /\ a - 1 \in Level' /\ (a - 1) + 1 = a)
      /\ Active' = Active \ {Here}
  BY PoppedCalls DEF FindComponent
<1>2. /\ Node' = Node /\ Succ' = Succ /\ Reach' = Reach /\ Mutual' = Mutual /\ GraphInv' = GraphInv
  BY SameGraph DEF FindComponent
<1>3. /\ Held \subseteq Node
      /\ \A n \in Held : VisitIndex[n] \in Nat /\ Root[n] \in Held
                         /\ VisitIndex[Root[n]] <= VisitIndex[n]
      /\ \A n, m \in Held : VisitIndex[n] = VisitIndex[m] => n = m
  BY HeldFacts
<1>4. /\ Depth \in Slot /\ TarjanStack[Depth] = Here
      /\ Popped = {n \in Held : VisitIndex[Here] <= VisitIndex[n]}
  BY PoppedFacts DEF FindComponent
<1>5. /\ Here \in Popped
      /\ \A n \in Popped : Mutual[n] = Popped
      /\ \A n \in Popped : \A m \in Succ[n] : m \in Popped \/ TarjanComponents[m] > 0
  BY PoppedIsComponent DEF FindComponent
<1>6. /\ Components' = Append(Components, Popped)
      /\ TarjanComponents' = [n \in Node |-> IF n \in Popped THEN k ELSE TarjanComponents[n]]
      /\ Root' = [n \in Node |-> IF n \in Popped THEN Here ELSE Root[n]]
      /\ TarjanStack' = SubSeq(TarjanStack, Depth + 1, Len(TarjanStack))
      /\ UNCHANGED <<TarjanVisited, VisitIndex, TarjanIndex, TarjanWalkId, ComponentGraph, i, pc>>
      /\ pc = "Tarjan" /\ calls # <<>>
  BY DEF FindComponent, walk, EdgesFollowed
<1>7. /\ Components' \in Seq(SUBSET Node) /\ Len(Components) \in Nat /\ Len(Components') = k
      /\ Components'[k] = Popped /\ \A c \in 1..Len(Components) : Components'[c] = Components[c]
  <2> DEFINE S == SUBSET Node
  <2>1. Components \in Seq(S) /\ Popped \in S /\ Components' = Append(Components, Popped)
    BY <1>3, <1>4, <1>6 DEF WalkingInv, TypeInv
  <2> HIDE DEF S
  <2>2. /\ Components' \in Seq(S) /\ Len(Components) \in Nat /\ Len(Components') = k
        /\ Components'[Len(Components')] = Popped
        /\ \A c \in 1..Len(Components) : Components'[c] = Components[c]
    BY <2>1, AppendedBack
  <2> QED BY <2>2 DEF S
<1>8. /\ TarjanStack' \in Seq(Node) /\ Len(TarjanStack) \in Nat
      /\ Len(TarjanStack') = Len(TarjanStack) - Depth
      /\ \A a \in 1..Len(TarjanStack') : TarjanStack'[a] = TarjanStack[a + Depth]
  <2>1. /\ TarjanStack \in Seq(Node) /\ Len(TarjanStack) \in Nat
        /\ Depth \in 1..Len(TarjanStack)
    BY <1>4, LenProperties DEF WalkingInv, TypeInv, Slot
  <2>2. /\ Depth + 1 \in 1..(Len(TarjanStack) + 1) /\ Len(TarjanStack) \in Depth..Len(TarjanStack)
        /\ Depth \in Nat
    BY <2>1
  <2> DEFINE d == Depth
             s == TarjanStack
             t == SubSeq(s, d + 1, Len(s))
  <2>3. s \in Seq(Node) /\ d + 1 \in 1..(Len(s) + 1) /\ Len(s) \in d..Len(s) /\ d \in Nat /\ Len(s) \in Nat
    BY <2>1, <2>2
  <2> HIDE DEF d, s
  <2>4. t \in Seq(Node) /\ Len(t) = Len(s) - d /\ \A a \in 1..Len(t) : t[a] = s[a + d]
    <3>1. /\ t \in Seq(Node)
          /\ Len(t) = IF d + 1 <= Len(s) THEN Len(s) - (d + 1) + 1 ELSE 0
          /\ \A a \in 1..(Len(s) - (d + 1) + 1) : t[a] = s[d + 1 + a - 1]
      BY <2>3, SubSeqProperties
    <3>2. Len(t) = Len(s) - d /\ Len(s) - (d + 1) + 1 = Len(s) - d
      BY <2>3, <3>1
    <3>3. \A a \in 1..Len(t) : d + 1 + a - 1 = a + d
      BY <2>3
    <3> QED BY <3>1, <3>2, <3>3
  <2> QED BY <1>6, <2>1, <2>4 DEF d, s
<1> HIDE DEF k
<1>9. k = Len(Components) + 1 /\ k \in Nat \ {0}
  BY <1>7 DEF k
<1>10. \A n \in Node : /\ TarjanComponents'[n] = IF n \in Popped THEN k ELSE TarjanComponents[n]
                       /\ Root'[n] = IF n \in Popped THEN Here ELSE Root[n]
  BY <1>6
<1> USE DEF WalkingInv
<1>11. /\ Held' = Held \ Popped /\ Held' \subseteq Held /\ Popped \subseteq Held
       /\ \A n \in Held : n \in Held' <=> VisitIndex[n] < VisitIndex[Here]
       /\ \A n \in Held' : Root'[n] = Root[n] /\ Root[n] \in Held'
  <2>1. Held' = Held \ Popped
    BY <1>2, <1>6, <1>9, <1>10, <1>4 DEF Held
  <2>2. \A n \in Held : n \in Held' <=> VisitIndex[n] < VisitIndex[Here]
    BY <1>1, <1>3, <1>4, <2>1
  <2>3. \A n \in Held' : Root'[n] = Root[n]
    BY <1>3, <1>10, <2>1
  <2>4. \A n \in Held' : Root[n] \in Held'
    <3> SUFFICES ASSUME NEW n \in Held' PROVE Root[n] \in Held'
      OBVIOUS
    <3>1. /\ n \in Held /\ Root[n] \in Held /\ VisitIndex[Root[n]] <= VisitIndex[n]
          /\ VisitIndex[n] < VisitIndex[Here]
      BY <1>3, <2>1, <2>2
    <3>2. VisitIndex[Root[n]] < VisitIndex[Here]
      BY <1>1, <1>3, <3>1
    <3> QED BY <2>2, <3>1, <3>2
  <2> QED BY <1>4, <2>1, <2>2, <2>3, <2>4
<1>12. \A a \in Level' : /\ a + 1 \in Level /\ a + 1 # 1 /\ calls'[a].node \in Held'
                         /\ VisitIndex[calls'[a].node] < VisitIndex[Here]
  <2> SUFFICES ASSUME NEW a \in Level'
               PROVE  /\ a + 1 \in Level /\ a + 1 # 1 /\ calls'[a].node \in Held'
                      /\ VisitIndex[calls'[a].node] < VisitIndex[Here]
    OBVIOUS
  <2>1. a + 1 \in Level /\ 1 < a + 1
    BY <1>1 DEF Level
  <2>2. VisitIndex[calls[a + 1].node] < VisitIndex[Here] /\ calls[a + 1].node \in Held
    BY <1>1, <2>1 DEF CallInv
  <2> QED BY <1>1, <1>11, <2>1, <2>2
<1>13. TypeInv'
  <2>1. TarjanComponents' \in [Node -> Nat] /\ Root' \in [Node -> Node \cup {0}]
    BY <1>1, <1>3, <1>6, <1>9 DEF TypeInv
  <2>2. UNCHANGED <<TarjanVisited, VisitIndex, TarjanIndex, TarjanWalkId, i, pc, InputGraph>>
    BY <1>6 DEF FindComponent
  <2> QED BY <1>1, <1>2, <1>7, <1>8, <2>1, <2>2 DEF TypeInv
<1>14. StackInv'
  <2>1. \A a \in Slot' : a + Depth \in Slot /\ TarjanStack'[a] = TarjanStack[a + Depth] /\ Depth < a + Depth
    BY <1>4, <1>8 DEF Slot
  <2>2. \A a, b \in Slot' : a < b => VisitIndex[TarjanStack'[b]] < VisitIndex[TarjanStack'[a]]
    <3> SUFFICES ASSUME NEW a \in Slot', NEW b \in Slot', a < b
                 PROVE  VisitIndex[TarjanStack'[b]] < VisitIndex[TarjanStack'[a]]
      OBVIOUS
    <3>1. a + Depth < b + Depth
      BY <1>4 DEF Slot
    <3> QED BY <2>1, <3>1 DEF StackInv
  <2>3. \A a \in Slot' : TarjanStack'[a] \in Held'
    <3> SUFFICES ASSUME NEW a \in Slot' PROVE TarjanStack'[a] \in Held'
      OBVIOUS
    <3>1. VisitIndex[TarjanStack[a + Depth]] < VisitIndex[Here] /\ TarjanStack[a + Depth] \in Held
      BY <1>4, <2>1 DEF StackInv
    <3> QED BY <1>11, <2>1, <3>1
  <2>4. ASSUME NEW n \in Held' PROVE \E a \in Slot' : TarjanStack'[a] = n
    <3>1. PICK b \in Slot : TarjanStack[b] = n
      BY <1>11 DEF StackInv
    <3>2. VisitIndex[n] < VisitIndex[Here] /\ VisitIndex[n] \in Nat /\ VisitIndex[Here] \in Nat
      BY <1>1, <1>3, <1>11
    <3>3. ~(b < Depth) /\ b # Depth
      <4>1. b < Depth => VisitIndex[Here] < VisitIndex[n]
        BY <1>4, <3>1 DEF StackInv
      <4> QED BY <1>4, <3>1, <3>2, <4>1
    <3>4. b - Depth \in Slot' /\ (b - Depth) + Depth = b
      BY <1>4, <1>8, <3>3 DEF Slot
    <3> QED BY <2>1, <3>1, <3>4
  <2>5. \A n \in Held' : TarjanVisited[n] = TarjanWalkId /\ VisitIndex[n] \in 1..TarjanIndex
    BY <1>11 DEF StackInv
  <2>6. Held' = {TarjanStack'[a] : a \in Slot'}
    BY <2>3, <2>4
  <2> QED BY <1>6, <2>2, <2>5, <2>6 DEF StackInv
<1>15. CallInv'
  <2>1. \A a \in Level' : calls'[a].node \in Held' /\ Pending(a)' \subseteq Succ[calls'[a].node]
    BY <1>1, <1>12 DEF CallInv
  <2>2. \A a, b \in Level' : a < b => VisitIndex[calls'[b].node] < VisitIndex[calls'[a].node]
    <3> SUFFICES ASSUME NEW a \in Level', NEW b \in Level', a < b
                 PROVE  VisitIndex[calls'[b].node] < VisitIndex[calls'[a].node]
      OBVIOUS
    <3>1. a + 1 < b + 1 /\ a + 1 \in Level /\ b + 1 \in Level
      BY <1>1 DEF Level
    <3> QED BY <1>1, <3>1 DEF CallInv
  <2>3. \A a, b \in Level' : b = a + 1 => calls'[b].edges # <<>> /\ Head(calls'[b].edges) = calls'[a].node
    <3> SUFFICES ASSUME NEW a \in Level', NEW b \in Level', b = a + 1
                 PROVE  calls'[b].edges # <<>> /\ Head(calls'[b].edges) = calls'[a].node
      OBVIOUS
    <3>1. b + 1 = (a + 1) + 1 /\ a + 1 \in Level /\ b + 1 \in Level
      BY <1>1 DEF Level
    <3>2. calls[b + 1].edges # <<>> /\ Head(calls[b + 1].edges) = calls[a + 1].node
      BY <3>1 DEF CallInv
    <3>3. calls'[b].edges = calls[b + 1].edges /\ calls'[a].node = calls[a + 1].node
      BY <1>1
    <3> QED BY <3>2, <3>3
  <2>4. ASSUME calls' # <<>>
        PROVE  \A n \in Held' : VisitIndex[calls'[Len(calls')].node] <= VisitIndex[n]
    <3>1. Len(calls') \in Level' /\ Len(calls') + 1 = Len(calls)
      BY <1>1, <2>4, EmptySeq DEF Level
    <3>2. calls'[Len(calls')].node = calls[Len(calls)].node
      BY <1>1, <3>1
    <3> QED BY <1>6, <1>11, <3>2 DEF CallInv
  <2>5. ASSUME calls' = <<>> PROVE Held' = {}
    <3>1. Len(calls') = 0
      BY <2>5, EmptySeq
    <3>2. Len(calls) = 1
      BY <1>1, <3>1
    <3>3. \A n \in Held : VisitIndex[Here] <= VisitIndex[n]
      BY <1>1, <1>6, <3>2 DEF CallInv
    <3> QED BY <1>1, <1>3, <1>11, <3>3
  <2> QED BY <1>2, <1>6, <2>1, <2>2, <2>3, <2>4, <2>5 DEF CallInv
<1>16. RootInv'
  <2> SUFFICES ASSUME NEW n \in Held'
               PROVE  /\ Root[n] \in Held' /\ VisitIndex[Root[n]] <= VisitIndex[n]
                      /\ Root[n] \in Reach[n]
                      /\ n \notin Active' => VisitIndex[Root[n]] < VisitIndex[n]
    BY <1>2, <1>6, <1>11 DEF RootInv
  <2>1. n \in Held /\ n # Here
    BY <1>5, <1>11
  <2> QED BY <1>1, <1>11, <2>1 DEF RootInv
<1>17. ReachInv'
  <2> SUFFICES ASSUME NEW a \in Level', NEW n \in Held',
                      VisitIndex[calls'[a].node] <= VisitIndex[n]
               PROVE  n \in Reach[calls'[a].node]
    BY <1>2, <1>6 DEF ReachInv
  <2> QED BY <1>1, <1>11 DEF ReachInv
<1>18. EdgeInv'
  <2> SUFFICES ASSUME NEW n \in Held', NEW m \in Succ[n]
               PROVE  \/ /\ TarjanVisited[m] > 0
                         /\ TarjanComponents'[m] = 0 => VisitIndex[Root[n]] <= VisitIndex[m]
                      \/ \E a \in Level' : calls'[a].node = n /\ m \in Pending(a)'
    BY <1>2, <1>6, <1>11 DEF EdgeInv
  <2>1. n \in Held /\ m \in Node
    BY <1>3, <1>11, SuccessorsAreNodes
  <2>2. TarjanComponents'[m] = 0 => TarjanComponents[m] = 0
    BY <1>9, <1>10, <2>1
  <2>3. CASE \E a \in Level : calls[a].node = n /\ m \in Pending(a)
    <3>1. PICK a \in Level : calls[a].node = n /\ m \in Pending(a)
      BY <2>3
    <3>2. a - 1 \in Level' /\ (a - 1) + 1 = a
      BY <1>1, <3>1
    <3> QED BY <1>1, <3>1, <3>2
  <2> QED BY <2>1, <2>2, <2>3 DEF EdgeInv
<1>19. LowInv'
  <2> SUFFICES ASSUME NEW a \in Level', NEW n \in Held', Between(a, n)'
               PROVE  VisitIndex[Root'[calls'[a].node]] <= VisitIndex[Root'[n]]
    BY <1>2, <1>6 DEF LowInv
  <2>1. /\ a + 1 \in Level /\ a + 1 # 1 /\ calls'[a].node = calls[a + 1].node
        /\ a \in Nat \ {0} /\ n \in Held /\ VisitIndex[n] < VisitIndex[Here]
    <3>1. a \in Nat \ {0}
      BY DEF Level
    <3>2. n \in Held /\ VisitIndex[n] < VisitIndex[Here]
      BY <1>11
    <3> QED BY <1>1, <1>12, <3>1, <3>2
  <2>2. ASSUME NEW b \in Level, b < a + 1 PROVE VisitIndex[n] < VisitIndex[calls[b].node]
    <3>1. CASE b = 1
      BY <1>1, <2>1, <3>1
    <3>2. CASE b # 1
      <4>1. b - 1 \in Level' /\ (b - 1) + 1 = b /\ b - 1 < a
        BY <1>1, <2>1, <2>2, <3>2 DEF Level
      <4> QED BY <1>1, <1>6, <4>1 DEF Between
    <3> QED BY <3>1, <3>2
  <2>3. Between(a + 1, n)
    BY <1>6, <2>1, <2>2 DEF Between
  <2>4. VisitIndex[Root[calls[a + 1].node]] <= VisitIndex[Root[n]]
    BY <2>1, <2>3 DEF LowInv
  <2> QED BY <1>11, <1>12, <2>1, <2>4
<1>20. NamedInv'
  <2>1. \A n \in Popped : TarjanComponents[n] = 0 /\ TarjanVisited[n] > 0 /\ n \in Node
    BY <1>11 DEF Held
  <2>2. ASSUME NEW n \in Node, TarjanComponents'[n] > 0
        PROVE  /\ TarjanVisited[n] > 0 /\ TarjanComponents'[n] <= k
               /\ Components'[TarjanComponents'[n]] = Mutual[n]
               /\ \A m \in Succ[n] :
                    0 < TarjanComponents'[m] /\ TarjanComponents'[m] <= TarjanComponents'[n]
    <3>1. Succ[n] \subseteq Node
      BY SuccessorsAreNodes
    <3>2. \A m \in Node : TarjanComponents[m] > 0 => /\ TarjanComponents'[m] = TarjanComponents[m]
                                                     /\ TarjanComponents[m] \in 1..Len(Components)
      BY <1>7, <1>10, <2>1 DEF NamedInv, TypeInv
    <3>3. CASE n \in Popped
      <4>1. TarjanComponents'[n] = k
        BY <1>10, <3>3
      <4>2. ASSUME NEW m \in Succ[n]
            PROVE  0 < TarjanComponents'[m] /\ TarjanComponents'[m] <= k
        <5>1. m \in Node
          BY <3>1
        <5>2. CASE m \in Popped
          BY <1>9, <1>10, <5>1, <5>2
        <5>3. CASE TarjanComponents[m] > 0
          BY <1>7, <1>9, <3>2, <5>1, <5>3
        <5> QED BY <1>5, <3>3, <5>2, <5>3
      <4> QED BY <1>5, <1>7, <1>9, <2>1, <3>3, <4>1, <4>2
    <3>4. CASE n \notin Popped
      <4>1. TarjanComponents'[n] = TarjanComponents[n] /\ TarjanComponents[n] > 0
        BY <1>10, <2>2, <3>4
      <4>2. TarjanComponents[n] \in 1..Len(Components)
        BY <3>2, <4>1
      <4>3. \A m \in Succ[n] : 0 < TarjanComponents[m] /\ TarjanComponents[m] <= TarjanComponents[n]
        BY <4>1 DEF NamedInv
      <4>4. Components'[TarjanComponents[n]] = Mutual[n] /\ TarjanVisited[n] > 0
        BY <1>7, <4>1, <4>2 DEF NamedInv
      <4>5. \A m \in Succ[n] : TarjanComponents'[m] = TarjanComponents[m]
        BY <3>1, <3>2, <4>3
      <4> QED BY <1>7, <1>9, <4>1, <4>2, <4>3, <4>4, <4>5
    <3> QED BY <3>3, <3>4
  <2>3. ASSUME NEW c \in 1..k
        PROVE  Components'[c] # {} /\ Components'[c] = {n \in Node : TarjanComponents'[n] = c}
    <3>1. CASE c = k
      <4>1. \A n \in Node : TarjanComponents[n] # k
        <5>1. \A n \in Node : TarjanComponents[n] > 0 => TarjanComponents[n] <= Len(Components)
          BY DEF NamedInv
        <5>2. \A n \in Node : TarjanComponents[n] \in Nat
          BY DEF TypeInv
        <5> QED BY <1>7, <1>9, <5>1, <5>2
      <4>2. \A n \in Node : TarjanComponents'[n] = k <=> n \in Popped
        BY <1>10, <4>1
      <4> QED BY <1>5, <1>7, <2>1, <3>1, <4>2
    <3>2. CASE c # k
      <4>1. c \in 1..Len(Components)
        BY <1>7, <1>9, <3>2
      <4>2. \A n \in Node : TarjanComponents'[n] = c <=> TarjanComponents[n] = c
        BY <1>9, <1>10, <2>1, <3>2, <4>1
      <4> QED BY <1>7, <4>1, <4>2 DEF NamedInv
    <3> QED BY <3>1, <3>2
  <2> QED BY <1>2, <1>6, <1>7, <2>2, <2>3 DEF NamedInv
<1>21. WalkInv'
  BY <1>2, <1>6 DEF WalkInv, FindComponent
<1>22. EndInv'
  BY <1>6 DEF EndInv
<1> QED BY <1>2, <1>13, <1>14, <1>15, <1>16, <1>17, <1>18, <1>19, <1>20, <1>21, <1>22

---------------------------------------------------------------------------
(* The invariant holds from the constructor on.                             *)
LEMMA ConstructStep ==
  ASSUME GraphInv, Unconstructed, Construct
  PROVE  GraphInv' /\ WalkingInv'
<1> USE DEF Construct, Unconstructed
<1>1. /\ Node' = Node /\ Succ' = Succ /\ Reach' = Reach /\ Mutual' = Mutual /\ GraphInv' = GraphInv
      /\ Node = 1..Len(InputGraph) /\ Len(InputGraph) \in Nat
  BY SameGraph, SuccessorsAreNodes
<1>2. /\ calls' = <<>> /\ TarjanStack' = <<>> /\ Components' = <<>>
      /\ TarjanWalkId' = 0 /\ TarjanIndex' = 0 /\ i' = 1 /\ pc' = "Tarjan" /\ ComponentGraph' = <<>>
      /\ InputGraph' = InputGraph
      /\ Len(calls') = 0 /\ Len(TarjanStack') = 0 /\ Len(Components') = 0
  BY EmptySeq
<1>3. /\ TarjanVisited' = [n \in Node |-> 0] /\ TarjanComponents' = [n \in Node |-> 0]
      /\ Root' = [n \in Node |-> 0] /\ VisitIndex' = [n \in Node |-> 0]
  OBVIOUS
<1> HIDE DEF Construct, Unconstructed
<1>4. Held' = {} /\ Level' = {} /\ Slot' = {}
  BY <1>1, <1>2, <1>3 DEF Held, Level, Slot
<1>5. TypeInv'
  <2>1. /\ TarjanStack' \in Seq(Node) /\ Components' \in Seq(SUBSET Node)
        /\ calls' \in Seq([node : Node, edges : Seq(Node)])
    BY <1>2, EmptySeq
  <2>2. /\ TarjanVisited' \in [Node -> Nat] /\ TarjanComponents' \in [Node -> Nat]
        /\ Root' \in [Node -> Node \cup {0}] /\ VisitIndex' \in [Node -> Nat]
    BY <1>3
  <2> QED BY <1>1, <1>2, <2>1, <2>2 DEF TypeInv
<1>6. StackInv' /\ CallInv' /\ RootInv' /\ ReachInv' /\ EdgeInv' /\ LowInv'
  BY <1>2, <1>4 DEF StackInv, CallInv, RootInv, ReachInv, EdgeInv, LowInv
<1>7. NamedInv'
  BY <1>1, <1>2, <1>3 DEF NamedInv
<1>8. WalkInv'
  BY <1>1, <1>2, <1>3 DEF WalkInv
<1>9. EndInv'
  BY <1>2 DEF EndInv
<1> QED BY <1>1, <1>5, <1>6, <1>7, <1>8, <1>9 DEF WalkingInv

LEMMA InitInv ==
  ASSUME GraphInv, Unconstructed
  PROVE  Inv
  BY DEF Inv, Constructed, Unconstructed

LEMMA NextInv ==
  ASSUME Inv, [Next]_vars
  PROVE  Inv'
<1>1. ASSUME GraphInv', WalkingInv' PROVE Inv'
  BY <1>1 DEF Inv, WalkingInv, TypeInv, Constructed
<1>2. CASE UNCHANGED vars
  <2>1. GraphInv' = GraphInv /\ Constructed' = Constructed
    BY <1>2, SameGraph DEF vars, Constructed
  <2>2. ~Constructed => Unconstructed'
    BY <1>2 DEF vars, walk, found, Inv, Unconstructed
  <2>3. ASSUME Constructed PROVE WalkingInv'
    <3>1. WalkingInv
      BY <2>3 DEF Inv
    <3>2. /\ StackInv' /\ CallInv' /\ RootInv' /\ ReachInv' /\ EdgeInv' /\ LowInv' /\ NamedInv'
          /\ Node' = Node /\ Succ' = Succ
      BY <1>2, <3>1, QuietStep DEF vars
    <3>3. TypeInv' /\ WalkInv'
      BY <1>2, <3>1, <3>2 DEF vars, walk, found, WalkingInv, TypeInv, WalkInv
    <3>4. EndInv'
      <4>1. \A c : OutgoingEdges(c)' = OutgoingEdges(c)
        BY <1>2, <3>2 DEF vars, walk, found, OutgoingEdges, Successors
      <4> QED BY <1>2, <3>1, <4>1 DEF vars, walk, found, WalkingInv, EndInv
    <3> QED BY <3>2, <3>3, <3>4 DEF WalkingInv
  <2> QED BY <2>1, <2>2, <2>3 DEF Inv
<1>3. CASE Construct
  BY <1>1, <1>3, ConstructStep DEF Inv, Construct, Constructed
<1>4. ASSUME pc # "new", Next PROVE Inv'
  <2>1. GraphInv /\ WalkingInv
    BY <1>4 DEF Inv, Constructed
  <2>2. CASE StartWalk
    BY <1>1, <2>1, <2>2, StartWalkStep
  <2>3. CASE SkipNode
    BY <1>1, <2>1, <2>3, SkipNodeStep
  <2>4. CASE EndTarjan
    BY <1>1, <2>1, <2>4, EndTarjanStep
  <2>5. CASE IgnoreEdge
    BY <1>1, <2>1, <2>5, IgnoreEdgeStep
  <2>6. CASE VisitDestination
    BY <1>1, <2>1, <2>6, VisitDestinationStep
  <2>7. CASE UpdateRoot
    BY <1>1, <2>1, <2>7, UpdateRootStep
  <2>8. CASE ReturnUnderRoot
    BY <1>1, <2>1, <2>8, ReturnUnderRootStep
  <2>9. CASE FindComponent
    BY <1>1, <2>1, <2>9, FindComponentStep
  <2>10. CASE TransferEdges
    BY <1>1, <2>1, <2>10, TransferEdgesStep
  <2> QED BY <1>3, <1>4, <2>2, <2>3, <2>4, <2>5, <2>6, <2>7, <2>8, <2>9, <2>10 DEF Next
<1>5. CASE pc = "new" /\ Next
  BY <1>3, <1>5 DEF Next, StartWalk, SkipNode, EndTarjan, IgnoreEdge, VisitDestination, UpdateRoot,
     ReturnUnderRoot, FindComponent, TransferEdges, FollowsEdge, EdgesFollowed
<1> QED BY <1>2, <1>4, <1>5

LEMMA Invariance == Spec => []Inv
<1>1. Init => Inv
  <2> SUFFICES ASSUME Init PROVE GraphInv
    BY InitInv DEF Init
  <2> QED BY GraphsAssumption DEF Init, GraphInv
<1>2. Inv /\ [Next]_vars => Inv'
  BY NextInv
<1> QED BY <1>1, <1>2, PTL DEF Spec

---------------------------------------------------------------------------
(* What the invariant says of the results.                                  *)
LEMMA ComponentFacts ==
  ASSUME GraphInv, WalkingInv
  PROVE  /\ Len(Components) \in Nat
         /\ \A c \in 1..Len(Components) :
              /\ Components[c] # {} /\ Components[c] \subseteq Node
              /\ \A n \in Node : n \in Components[c] <=> TarjanComponents[n] = c
         /\ \A n \in Node : TarjanComponents[n] # 0 =>
              /\ TarjanComponents[n] \in 1..Len(Components)
              /\ Components[TarjanComponents[n]] = Mutual[n]
              /\ \A m \in Succ[n] :
                   m \in Node /\ TarjanComponents[m] \in 1..TarjanComponents[n]
<1> USE DEF WalkingInv
<1>1. Len(Components) \in Nat /\ \A n \in Node : TarjanComponents[n] \in Nat
  BY LenProperties DEF TypeInv
<1>2. \A n \in Node : \A m \in Succ[n] : m \in Node
  BY SuccessorsAreNodes
<1>3. ASSUME NEW n \in Node, TarjanComponents[n] # 0
      PROVE  /\ TarjanComponents[n] \in 1..Len(Components)
             /\ Components[TarjanComponents[n]] = Mutual[n]
             /\ \A m \in Succ[n] : m \in Node /\ TarjanComponents[m] \in 1..TarjanComponents[n]
  <2>1. TarjanComponents[n] > 0
    BY <1>1, <1>3
  <2>2. \A m \in Succ[n] : 0 < TarjanComponents[m] /\ TarjanComponents[m] <= TarjanComponents[n]
    BY <2>1 DEF NamedInv
  <2> QED BY <1>1, <1>2, <2>1, <2>2 DEF NamedInv
<1>4. \A c \in 1..Len(Components) :
        Components[c] # {} /\ Components[c] = {n \in Node : TarjanComponents[n] = c}
  BY DEF NamedInv
<1> QED BY <1>1, <1>3, <1>4

LEMMA OutgoingFacts ==
  ASSUME GraphInv, WalkingInv, NEW c \in 1..Len(Components)
  PROVE  /\ OutgoingEdges(c) \subseteq 1..(c - 1)
         /\ \A d : d \in OutgoingEdges(c) <=>
              d # c /\ \E n \in Components[c] : \E m \in Succ[n] : TarjanComponents[m] = d
<1>1. /\ Len(Components) \in Nat
      /\ \A n \in Node : n \in Components[c] <=> TarjanComponents[n] = c
      /\ Components[c] \subseteq Node
      /\ \A n \in Node : TarjanComponents[n] # 0 =>
           \A m \in Succ[n] : m \in Node /\ TarjanComponents[m] \in 1..TarjanComponents[n]
  BY ComponentFacts
<1>2. \A n \in Node : Successors(n) = Succ[n]
  BY DEF Succ
<1>3. \A d : d \in OutgoingEdges(c) <=>
        d # c /\ \E n \in Components[c] : \E m \in Succ[n] : TarjanComponents[m] = d
  BY <1>1, <1>2 DEF OutgoingEdges
<1>4. ASSUME NEW d \in OutgoingEdges(c) PROVE d \in 1..(c - 1)
  <2>1. PICK n \in Components[c] : \E m \in Succ[n] : TarjanComponents[m] = d
    BY <1>3
  <2>2. d # c /\ d \in 1..c
    BY <1>1, <1>3, <2>1
  <2> QED BY <1>1, <2>2
<1> QED BY <1>3, <1>4

(* The values of the variables, for every graph: components are sets of     *)
(* visited nodes, indices and roots are those of nodes, calls have edges to *)
(* nodes.                                                                   *)
THEOREM TypeCorrect == Spec => []TypeOK
<1>1. ASSUME Inv, Constructed PROVE TypeOK
  <2>1. GraphInv /\ WalkingInv /\ Node = 1..Len(InputGraph) /\ Len(InputGraph) \in Nat
    BY <1>1, SuccessorsAreNodes DEF Inv
  <2>2. /\ TarjanVisited \in [Node -> 0..TarjanWalkId]
        /\ TarjanComponents \in [Node -> 0..Len(Components)]
        /\ Root \in [Node -> Node \cup {0}]
        /\ VisitIndex \in [Node -> 0..Len(InputGraph)]
    <3>1. \A n \in Node : TarjanVisited[n] \in 0..TarjanWalkId /\ VisitIndex[n] \in 0..Len(InputGraph)
      <4>1. /\ TarjanWalkId \in Nat
            /\ \A n \in Node : TarjanVisited[n] \in Nat /\ VisitIndex[n] \in Nat
        BY <2>1 DEF WalkingInv, TypeInv
      <4>2. \A n \in Node : TarjanVisited[n] <= TarjanWalkId /\ VisitIndex[n] <= Len(InputGraph)
        BY <2>1 DEF WalkingInv, WalkInv
      <4> QED BY <2>1, <4>1, <4>2
    <3>2. \A n \in Node : TarjanComponents[n] \in 0..Len(Components)
      <4>1. /\ Len(Components) \in Nat
            /\ \A n \in Node : TarjanComponents[n] # 0 => TarjanComponents[n] \in 1..Len(Components)
        BY <2>1, ComponentFacts
      <4> QED BY <4>1
    <3> QED BY <2>1, <3>1, <3>2 DEF WalkingInv, TypeInv
  <2>3. TarjanWalkId \in 0..i /\ TarjanIndex \in 0..Len(InputGraph)
    BY <2>1 DEF WalkingInv, TypeInv, WalkInv
  <2>4. Components \in Seq({C \in SUBSET Node : \A n \in C : TarjanVisited[n] > 0})
    <3> DEFINE S == {C \in SUBSET Node : \A n \in C : TarjanVisited[n] > 0}
    <3>1. \A c \in 1..Len(Components) : Components[c] \in S
      <4> SUFFICES ASSUME NEW c \in 1..Len(Components) PROVE Components[c] \in S
        OBVIOUS
      <4>1. /\ Len(Components) \in Nat /\ Components[c] \subseteq Node
            /\ \A n \in Node : n \in Components[c] => TarjanComponents[n] = c
        BY <2>1, ComponentFacts
      <4>2. ASSUME NEW n \in Components[c] PROVE TarjanVisited[n] > 0
        <5>1. n \in Node /\ TarjanComponents[n] > 0
          BY <4>1
        <5> QED BY <2>1, <5>1 DEF WalkingInv, NamedInv
      <4> QED BY <4>1, <4>2
    <3>2. Components \in Seq(SUBSET Node)
      BY <2>1 DEF WalkingInv, TypeInv
    <3> HIDE DEF S
    <3>3. Components \in Seq(S)
      BY <3>1, <3>2, SeqDef, LenProperties
    <3> QED BY <3>3 DEF S
  <2>5. ComponentGraph \in Seq(SUBSET (1..Len(Components)))
    <3>1. CASE pc # "done"
      BY <2>1, <3>1 DEF WalkingInv, EndInv
    <3>2. CASE pc = "done"
      <4>1. \A c \in 1..Len(Components) : OutgoingEdges(c) \in SUBSET (1..Len(Components))
        BY <2>1, OutgoingFacts, ComponentFacts
      <4>2. ComponentGraph = [c \in 1..Len(Components) |-> OutgoingEdges(c)]
        BY <2>1, <3>2 DEF WalkingInv, EndInv
      <4>3. Len(Components) \in Nat
        BY <2>1, ComponentFacts
      <4> QED BY <4>1, <4>2, <4>3, SeqDef
    <3> QED BY <3>1, <3>2
  <2> QED BY <1>1, <2>1, <2>2, <2>3, <2>4, <2>5
          DEF TypeOK, GraphInv, WalkingInv, TypeInv, Constructed
<1>2. ASSUME Inv, ~Constructed PROVE TypeOK
  <2>1. GraphInv /\ Unconstructed /\ Len(InputGraph) \in Nat
    BY <1>2, SuccessorsAreNodes DEF Inv
  <2> QED BY <2>1 DEF TypeOK, GraphInv, Unconstructed
<1> QED BY <1>1, <1>2, Invariance, PTL

(* An edge of the component graph leads to a component that was found       *)
(* earlier, is there for an edge of the graph, and none of those is missing.*)
LEMMA TransferredInv ==
  ASSUME Inv
  PROVE  EdgesTransferred
<1> SUFFICES ASSUME pc = "done"
             PROVE  \A c \in 1..Len(Components) :
                      /\ \A d \in ComponentGraph[c] : d < c
                      /\ \A n \in Components[c], d \in 1..Len(Components) :
                           Successors(n) \cap Components[d] # {} => d = c \/ d \in ComponentGraph[c]
                      /\ \A d \in ComponentGraph[c] :
                           \E n \in Components[c] : Successors(n) \cap Components[d] # {}
  BY DEF EdgesTransferred
<1>1. GraphInv /\ WalkingInv
  BY DEF Inv, Constructed
<1> TAKE c \in 1..Len(Components)
<1>2. ComponentGraph[c] = OutgoingEdges(c)
  BY <1>1 DEF WalkingInv, EndInv
<1>3. /\ Len(Components) \in Nat
      /\ \A d \in 1..Len(Components) :
           /\ Components[d] \subseteq Node
           /\ \A n \in Node : n \in Components[d] <=> TarjanComponents[n] = d
  BY <1>1, ComponentFacts
<1>4. /\ OutgoingEdges(c) \subseteq 1..(c - 1)
      /\ \A d : d \in OutgoingEdges(c) <=>
           d # c /\ \E n \in Components[c] : \E m \in Succ[n] : TarjanComponents[m] = d
  BY <1>1, OutgoingFacts
<1>5. \A n \in Components[c] : Successors(n) = Succ[n] /\ Succ[n] \subseteq Node
  BY <1>1, <1>3, SuccessorsAreNodes
<1>6. \A d \in ComponentGraph[c] : d < c /\ d \in 1..Len(Components)
  BY <1>2, <1>3, <1>4
<1>7. ASSUME NEW n \in Components[c], NEW d \in 1..Len(Components),
             Successors(n) \cap Components[d] # {}
      PROVE  d = c \/ d \in ComponentGraph[c]
  <2>1. PICK m \in Succ[n] : m \in Components[d]
    BY <1>5, <1>7
  <2>2. TarjanComponents[m] = d
    BY <1>3, <2>1
  <2> QED BY <1>2, <1>4, <2>1, <2>2
<1>8. ASSUME NEW d \in ComponentGraph[c]
      PROVE  \E n \in Components[c] : Successors(n) \cap Components[d] # {}
  <2>1. PICK n \in Components[c] : \E m \in Succ[n] : TarjanComponents[m] = d
    BY <1>2, <1>4
  <2>2. PICK m \in Succ[n] : TarjanComponents[m] = d
    BY <2>1
  <2>3. m \in Components[d]
    BY <1>3, <1>5, <1>6, <2>2
  <2> QED BY <1>5, <2>2, <2>3
<1> QED BY <1>6, <1>7, <1>8

(* The property of the class comment that cmComputeLinkDepends.cxx:722      *)
(* relies on, for every graph.                                              *)
THEOREM ComponentEdges == Spec => []EdgesTransferred
  BY Invariance, TransferredInv, PTL

(* Each component found is a whole strongly connected component of the      *)
(* graph, named when all its edges lead to components that have names.      *)
LEMMA FindComponentNames ==
  ASSUME Inv, FindComponent
  PROVE  Condense!Next
<1>1. GraphInv /\ WalkingInv
  BY DEF Inv, Constructed, FindComponent, EdgesFollowed
<1>2. /\ Here \in Popped /\ Popped = Mutual[Here]
      /\ \A n \in Popped : \A m \in Succ[n] : m \in Popped \/ TarjanComponents[m] > 0
  BY <1>1, PoppedIsComponent DEF FindComponent
<1>3. Here \in Held /\ Popped \subseteq Held /\ Held \subseteq Node
  BY <1>1, PoppedFacts, HeldFacts DEF FindComponent
<1>4. Condense!Nodes = Node /\ Condense!Component(Here) = Popped
  BY <1>1, <1>2, <1>3, MutualIsComponent
<1>5. \A n : n \in Condense!Named <=> n \in Node /\ TarjanComponents[n] # 0
  <2>1. /\ \A c \in 1..Len(Components) :
             /\ Components[c] \subseteq Node
             /\ \A n \in Node : n \in Components[c] <=> TarjanComponents[n] = c
        /\ \A n \in Node : TarjanComponents[n] # 0 => TarjanComponents[n] \in 1..Len(Components)
        /\ Len(Components) \in Nat
    BY <1>1, ComponentFacts
  <2>2. \A n : n \in Condense!Named <=> \E c \in 1..Len(Components) : n \in Components[c]
    BY DEF Condense!Named
  <2> QED BY <2>1, <2>2
<1>6. Here \notin Condense!Named
  BY <1>3, <1>5 DEF Held
<1>7. \A m \in Popped : Successors(m) \subseteq Condense!Named \cup Popped
  <2> SUFFICES ASSUME NEW m \in Popped, NEW x \in Successors(m)
               PROVE  x \in Condense!Named \/ x \in Popped
    OBVIOUS
  <2>1. x \in Succ[m] /\ x \in Node
    BY <1>1, <1>3, SuccessorsAreNodes
  <2> QED BY <1>2, <1>5, <2>1
<1>8. [n \in Node |-> Successors(n)]' = [n \in Node |-> Successors(n)]
  BY DEF FindComponent, Node, Successors
<1>9. Components' = Append(Components, Popped)
  BY DEF FindComponent
<1>10. Condense!Name(Here)
  BY <1>3, <1>4, <1>6, <1>7, <1>8, <1>9 DEF Condense!Name
<1> QED BY <1>3, <1>4, <1>10 DEF Condense!Next

LEMMA NextCondenses ==
  ASSUME Inv, [Next]_vars
  PROVE  [Condense!Next]_(Condense!vars)
<1>1. CASE FindComponent
  BY <1>1, FindComponentNames
<1>2. CASE ~FindComponent
  <2>1. InputGraph' = InputGraph /\ Components' = Components
    BY <1>2 DEF Next, vars, walk, found, Construct, StartWalk, EnterVisit, SkipNode, EndTarjan,
       IgnoreEdge, VisitDestination, UpdateRoot, ReturnUnderRoot, TransferEdges
  <2>2. [n \in Node |-> Successors(n)]' = [n \in Node |-> Successors(n)]
    BY <2>1 DEF Node, Successors
  <2> QED BY <2>1, <2>2 DEF Condense!vars
<1> QED BY <1>1, <1>2

(* "the components are identified in a topologically sorted order"          *)
(* (cmComputeComponentGraph.h): Tarjan's algorithm implements the           *)
(* condensation of the graph, for every graph.                              *)
THEOREM Condenses == Spec => CondensationSpec
<1>1. Init => Condense!Init
  BY DEF Init, Unconstructed, Condense!Init
<1>2. Inv /\ [Next]_vars => [Condense!Next]_(Condense!vars)
  BY NextCondenses
<1> QED BY <1>1, <1>2, Invariance, PTL DEF Spec, CondensationSpec, Condense!Spec

---------------------------------------------------------------------------
(* If the edges of every node lead to itself and to earlier nodes, every    *)
(* node is a component, and the components are found in the order of the    *)
(* nodes: when a node is visited, all the nodes before it have been named.  *)
Backward == \A n \in Node : Succ[n] \subseteq 1..n

KeptOrder ==
  /\ \A n \in Node : TarjanVisited[n] > 0 <=> n < i
  /\ \A n \in Node : TarjanComponents[n] \in {0, n}
  /\ Held \subseteq {i - 1}
  /\ calls = <<>> => Len(Components) = i - 1
  /\ calls # <<>> => Len(calls) = 1 /\ Here = i - 1 /\ Len(Components) = i - 2

OrderInv == Constructed /\ Backward => KeptOrder

LEMMA SameOrder ==
  ASSUME KeptOrder, Node' = Node, Here' = Here, Len(calls') = Len(calls), calls' = <<>> <=> calls = <<>>,
         UNCHANGED <<TarjanVisited, TarjanComponents, Components, i>>
  PROVE  KeptOrder'
<1>1. Held' = Held
  BY DEF Held
<1> QED BY <1>1 DEF KeptOrder

LEMMA OrderStep ==
  ASSUME GraphInv, WalkingInv, Backward, KeptOrder, Next
  PROVE  KeptOrder'
<1> USE DEF WalkingInv
<1>1. /\ Node = 1..Len(InputGraph) /\ Len(InputGraph) \in Nat /\ i \in Nat /\ i >= 1
      /\ Held \subseteq Node /\ Len(Components) \in Nat
      /\ \A n \in Node : n \in Nat /\ TarjanVisited[n] \in Nat /\ TarjanComponents[n] \in Nat
  BY SuccessorsAreNodes, LenProperties DEF TypeInv, Held
<1>2. Node' = Node
  BY DEF Next, StartWalk, EnterVisit, SkipNode, EndTarjan, IgnoreEdge, VisitDestination, UpdateRoot,
     ReturnUnderRoot, FindComponent, TransferEdges, Node, Construct
<1>3. CASE StartWalk
  <2>1. /\ calls = <<>> /\ i \in Node /\ EnterVisit(i, TarjanWalkId + 1, 1) /\ TarjanVisited[i] = 0
        /\ i' = i + 1
    BY <1>1, <1>3 DEF StartWalk
  <2>2. /\ Components' = Components /\ TarjanComponents' = TarjanComponents
        /\ \A n \in Node : TarjanVisited'[n] = IF n = i THEN TarjanWalkId + 1 ELSE TarjanVisited[n]
    BY <2>1, EnterFacts
  <2>3. calls' # <<>> /\ Len(calls') = Len(calls) + 1 /\ calls'[1].node = i
        /\ calls' \in Seq([node : Node, edges : Seq(Node)])
    BY <2>1, EnterCalls
  <2>4. Len(calls') = 1 /\ Here' = i
    <3>1. Len(calls') = 1
      BY <2>1, <2>3
    <3>2. Head(calls') = calls'[1]
      BY <2>3
    <3> QED BY <2>3, <3>1, <3>2 DEF Here, Call
  <2>5. Held = {} /\ TarjanWalkId \in Nat
    BY <2>1 DEF CallInv, TypeInv
  <2>6. Held' \subseteq {i}
    BY <1>2, <2>2, <2>5 DEF Held
  <2>7. \A n \in Node : TarjanVisited'[n] > 0 <=> n < i'
    BY <1>1, <2>1, <2>2, <2>5 DEF KeptOrder
  <2>8. Len(Components') = i' - 2 /\ i' - 1 = i
    BY <1>1, <2>1, <2>2 DEF KeptOrder
  <2> QED BY <1>2, <2>2, <2>3, <2>4, <2>6, <2>7, <2>8 DEF KeptOrder
<1>4. ~SkipNode
  <2> SUFFICES ASSUME SkipNode PROVE FALSE
    OBVIOUS
  <2>1. i \in Node /\ TarjanVisited[i] > 0
    BY <1>1 DEF SkipNode
  <2> QED BY <1>1, <2>1 DEF KeptOrder
<1>5. EndTarjan \/ TransferEdges => KeptOrder'
  BY <1>2, SameOrder DEF EndTarjan, TransferEdges, walk, found, Here, Call
<1>6. IgnoreEdge \/ UpdateRoot => KeptOrder'
  <2> SUFFICES ASSUME IgnoreEdge \/ UpdateRoot PROVE KeptOrder'
    OBVIOUS
  <2>1. FollowsEdge /\ NextEdge /\ UNCHANGED <<TarjanVisited, TarjanComponents, Components, i>>
    BY DEF IgnoreEdge, UpdateRoot, walk, found
  <2>2. /\ calls' \in Seq([node : Node, edges : Seq(Node)]) /\ calls' # <<>>
        /\ Len(calls') = Len(calls) /\ calls # <<>>
        /\ \A a \in Level : calls'[a].node = calls[a].node
    BY <2>1, FollowedCalls DEF FollowsEdge
  <2>3. Here' = Here
    <3>1. 1 \in Level /\ Here = calls[1].node
      BY <2>2, InnermostCall
    <3>2. Head(calls') = calls'[1]
      BY <2>2
    <3> QED BY <2>2, <3>1, <3>2 DEF Here, Call
  <2> QED BY <1>2, <2>1, <2>2, <2>3, SameOrder
<1>7. ~VisitDestination
  <2> SUFFICES ASSUME VisitDestination PROVE FALSE
    OBVIOUS
  <2>1. FollowsEdge /\ TarjanVisited[There] = 0 /\ calls # <<>>
    BY DEF VisitDestination, FollowsEdge
  <2>2. There \in Succ[Here] /\ There \in Node /\ Here \in Held
    BY <2>1, NextDestination
  <2>3. There \in 1..Here /\ Here = i - 1
    BY <1>1, <2>1, <2>2 DEF Backward, KeptOrder
  <2> QED BY <1>1, <2>1, <2>2, <2>3 DEF KeptOrder
<1>8. EdgesFollowed => Here \in Held /\ Held = {Here} /\ Here = i - 1 /\ calls # <<>>
  <2>1. EdgesFollowed => Here \in Held /\ calls # <<>>
    BY PoppedFacts DEF EdgesFollowed
  <2> QED BY <2>1 DEF KeptOrder
<1>9. ~ReturnUnderRoot
  <2> SUFFICES ASSUME ReturnUnderRoot PROVE FALSE
    OBVIOUS
  <2>1. Held = {Here} /\ Root[Here] # Here
    BY <1>8 DEF ReturnUnderRoot
  <2> QED BY <2>1 DEF RootInv
<1>10. FindComponent => KeptOrder'
  <2> SUFFICES ASSUME FindComponent PROVE KeptOrder'
    OBVIOUS
  <2>1. /\ EdgesFollowed /\ Components' = Append(Components, Popped) /\ calls' = Tail(calls)
        /\ TarjanComponents' = [n \in Node |-> IF n \in Popped THEN Len(Components) + 1 ELSE TarjanComponents[n]]
        /\ TarjanVisited' = TarjanVisited /\ i' = i
    BY DEF FindComponent, walk
  <2>2. Held = {Here} /\ Here = i - 1 /\ Here \in Node
    BY <1>1, <1>8, <2>1
  <2>3. Popped = {Here}
    <3>1. Here \in Popped
      BY <2>1, PoppedIsComponent DEF FindComponent
    <3>2. Popped \subseteq Held
      BY <2>1, PoppedFacts
    <3> QED BY <2>2, <3>1, <3>2
  <2>4. Len(Components) = i - 2 /\ Len(calls) = 1
    BY <1>8, <2>1 DEF KeptOrder
  <2>5. \A n \in Node : TarjanComponents'[n] = IF n = Here THEN Here ELSE TarjanComponents[n]
    BY <1>1, <2>1, <2>2, <2>3, <2>4
  <2>6. \A n \in Node : TarjanComponents'[n] \in {0, n}
    BY <2>5 DEF KeptOrder
  <2>7. Held' = {}
    <3>1. \A n \in Node : TarjanVisited[n] > 0 /\ TarjanComponents[n] = 0 => n = Here
      BY <2>2 DEF Held
    <3>2. Here # 0
      BY <1>1, <2>2
    <3> QED BY <1>2, <2>1, <2>5, <3>1, <3>2 DEF Held
  <2>8. calls' = <<>>
    <3>1. calls \in Seq([node : Node, edges : Seq(Node)]) /\ calls # <<>>
      BY <1>8, <2>1 DEF TypeInv
    <3>2. Tail(calls) \in Seq([node : Node, edges : Seq(Node)]) /\ Len(Tail(calls)) = 0
      BY <2>4, <3>1, PoppedFront
    <3> QED BY <2>1, <3>2, EmptySeq
  <2>9. Len(Components') = i - 1
    <3>1. Components \in Seq(SUBSET Node) /\ Popped \in SUBSET Node
      BY <2>2, <2>3 DEF TypeInv
    <3>2. Len(Components') = Len(Components) + 1
      BY <2>1, <3>1, AppendedBack
    <3> QED BY <1>1, <2>4, <3>2
  <2> QED BY <1>2, <2>1, <2>6, <2>7, <2>8, <2>9 DEF KeptOrder
<1>11. ~Construct
  BY DEF Construct, TypeInv
<1> QED BY <1>3, <1>4, <1>5, <1>6, <1>7, <1>9, <1>10, <1>11 DEF Next

LEMMA OrderConstructed ==
  ASSUME GraphInv, Unconstructed, Construct
  PROVE  KeptOrder'
<1> USE DEF Construct, Unconstructed
<1>1. Node = 1..Len(InputGraph) /\ Len(InputGraph) \in Nat /\ Node' = Node
  BY SameGraph, SuccessorsAreNodes
<1>2. /\ calls' = <<>> /\ Components' = <<>> /\ i' = 1 /\ Len(Components') = 0
      /\ TarjanVisited' = [n \in Node |-> 0] /\ TarjanComponents' = [n \in Node |-> 0]
  BY EmptySeq
<1>3. Held' = {}
  BY <1>1, <1>2 DEF Held
<1>4. \A n \in Node : TarjanVisited'[n] > 0 <=> n < i'
  BY <1>1, <1>2
<1> QED BY <1>1, <1>2, <1>3, <1>4 DEF KeptOrder

LEMMA NextOrder ==
  ASSUME Inv, OrderInv, [Next]_vars
  PROVE  OrderInv'
<1>1. /\ Node' = Node /\ Succ' = Succ
  <2>1. InputGraph' = InputGraph
    BY DEF Next, vars, walk, found, Construct, StartWalk, EnterVisit, SkipNode, EndTarjan,
       IgnoreEdge, VisitDestination, UpdateRoot, ReturnUnderRoot, FindComponent, TransferEdges
  <2> QED BY <2>1, SameGraph
<1>2. Backward' = Backward
  BY <1>1 DEF Backward
<1>3. CASE UNCHANGED vars
  <2>1. Constructed' = Constructed /\ Here' = Here
    BY <1>3 DEF vars, Constructed, Here, Call
  <2>2. KeptOrder => KeptOrder'
    BY <1>1, <1>3, <2>1, SameOrder DEF vars, walk, found
  <2> QED BY <1>2, <2>1, <2>2 DEF OrderInv
<1>4. CASE Next /\ Constructed
  BY <1>2, <1>4, OrderStep DEF OrderInv, Inv
<1>5. CASE Next /\ ~Constructed
  <2>1. Construct
    BY <1>5 DEF Constructed, Next, StartWalk, SkipNode, EndTarjan, IgnoreEdge, VisitDestination,
       UpdateRoot, ReturnUnderRoot, FindComponent, TransferEdges, FollowsEdge, EdgesFollowed
  <2> QED BY <1>5, <2>1, OrderConstructed DEF OrderInv, Inv
<1> QED BY <1>3, <1>4, <1>5

LEMMA ComponentsInOrder ==
  ASSUME Inv, OrderInv, Backward, pc = "done"
  PROVE  Len(Components) = Len(InputGraph) /\ \A n \in Node : Components[n] = {n}
<1>1. GraphInv /\ WalkingInv /\ KeptOrder
  BY DEF Inv, OrderInv, Constructed
<1>2. calls = <<>> /\ i > Len(InputGraph) /\ Held = {} /\ i \in 1..(Len(InputGraph) + 1)
  BY <1>1 DEF WalkingInv, EndInv, CallInv, TypeInv
<1>3. Node = 1..Len(InputGraph) /\ Len(InputGraph) \in Nat
  BY <1>1, SuccessorsAreNodes
<1>4. i = Len(InputGraph) + 1
  BY <1>2, <1>3
<1>5. Len(Components) = Len(InputGraph)
  BY <1>1, <1>2, <1>3, <1>4 DEF KeptOrder
<1>6. \A n \in Node : TarjanComponents[n] = n
  <2> SUFFICES ASSUME NEW n \in Node PROVE TarjanComponents[n] # 0
    BY <1>1 DEF KeptOrder
  <2>1. TarjanVisited[n] > 0
    BY <1>1, <1>3, <1>4 DEF KeptOrder
  <2> QED BY <1>2, <2>1 DEF Held
<1>7. \A n \in Node : Components[n] = {m \in Node : TarjanComponents[m] = n}
  BY <1>1, <1>3, <1>5 DEF WalkingInv, NamedInv
<1> QED BY <1>5, <1>6, <1>7
=============================================================================
