------------------------ MODULE TargetDependsProofs ------------------------
(* Proofs about TargetDepends, for every number of targets and every        *)
(* project.  What is known of the components of the collected graph is      *)
(* taken from the proofs about ComponentGraph.                              *)
EXTENDS TargetDepends, SequenceTheorems, FiniteSetTheorems, TLAPS

CGP == INSTANCE ComponentGraphProofs WITH InputGraph <- InitialGraph, Graphs <- {}

---------------------------------------------------------------------------
(* The inductive invariant.                                                 *)

\* What t depends on by the names of S, of which its own stands for nothing.
DependsOn(t, S) == UNION {FindTarget(t, name) : name \in S \ {project.name[t]}}

TypeInv ==
  /\ project \in Projects
  /\ InitialGraph \in [Node -> Seq(Node)]
  /\ target \in 0..(N+1)
  /\ emitted \subseteq Names /\ names \in Seq(Names)
  /\ phase \in {"CollectDepends", "Components", "Final", "failed", "read", "done", "crashed"}

(* What is in the initial graph are the targets the names emitted so far    *)
(* stand for.                                                               *)
CollectInv ==
  /\ ccg!Unconstructed
  /\ target \in 0..N
  /\ \A t \in Node : /\ t < target => Range(InitialGraph[t]) = Wanted(t)
                     /\ t > target => InitialGraph[t] = <<>>
  /\ target = 0 => names = <<>>
  /\ target # 0 =>
       /\ emitted \cup Range(names) = Range(ListedNames(target)) \cup {project.name[target]}
       /\ project.name[target] \in emitted
       /\ Range(InitialGraph[target]) = DependsOn(target, emitted)

(* After that it is as the targets want it, and has its components computed.*)
Collected ==
  /\ \A t \in Node : Range(InitialGraph[t]) = Wanted(t)
  /\ CGP!Inv

ReadInv ==
  /\ FinalGraph = [t \in Node |-> FinalDepends(t)]
  /\ target \in 1..(N+1)
  /\ TargetDependencies \in Seq(SUBSET Node) /\ Len(TargetDependencies) = target - 1
  /\ \A t \in Node : t < target => TargetDependencies[t] = FinalGraph[t]

SomeBadComponent == \E c \in 1..Len(Components) : BadComponent(c)

IInv ==
  /\ TypeInv
  /\ phase = "CollectDepends" => CollectInv
  /\ phase # "CollectDepends" => Collected
  /\ phase \notin {"CollectDepends", "Components"} => pc = "done"
  /\ phase \in {"failed", "crashed"} => SomeBadComponent
  /\ phase \in {"Final", "read", "done"} => ~SomeBadComponent
  /\ phase \notin {"read", "done"} => FinalGraph = <<>> /\ TargetDependencies = <<>>
  /\ phase \in {"read", "done"} => ReadInv
  /\ phase = "done" => target = N + 1

---------------------------------------------------------------------------
(* The collected graph.                                                     *)
LEMMA ProjectFacts ==
  ASSUME project \in Projects, NEW t \in Node
  PROVE  /\ project.name[t] \in Names
         /\ ListedNames(t) \in Seq(Names)
         /\ Wanted(t) = DependsOn(t, Range(ListedNames(t)))
         /\ \A name : /\ FindTarget(t, name) \subseteq Node
                      /\ \A u, v \in FindTarget(t, name) : u = v
<1>1. project.name[t] \in Names
  BY ProjectsAssumption
<1>2. project.links[t] \in Seq(Names) /\ project.utilities[t] \in Seq(Names)
  BY ProjectsAssumption
<1>3. /\ ListedNames(t) \in Seq(Names)
      /\ Range(ListedNames(t)) = Range(project.links[t]) \cup Range(project.utilities[t])
  BY <1>2, ConcatProperties, RangeConcatenation DEF ListedNames
<1>4. Wanted(t) = DependsOn(t, Range(ListedNames(t)))
  BY <1>3 DEF Wanted, DependsOn
<1>5. ASSUME NEW name
      PROVE  FindTarget(t, name) \subseteq Node /\ \A u, v \in FindTarget(t, name) : u = v
  <2> DEFINE local == {u \in Node : project.name[u] = name /\ project.directory[u] = project.directory[t]}
  <2>1. \A u, v \in local : u = v
    BY ProjectsAssumption
  <2>2. name \in DOMAIN project.total => project.total[name] \in Node
    BY ProjectsAssumption
  <2>3. FindTarget(t, name) = IF local # {} THEN local
          ELSE IF name \in DOMAIN project.total THEN {project.total[name]} ELSE {}
    BY DEF FindTarget
  <2>4. local \subseteq Node
    OBVIOUS
  <2> HIDE DEF local
  <2> QED BY <2>1, <2>2, <2>3, <2>4
<1> QED BY <1>1, <1>3, <1>4, <1>5

LEMMA OwnNameIsNone ==
  ASSUME NEW t, NEW S
  PROVE  DependsOn(t, S \cup {project.name[t]}) = DependsOn(t, S)
  BY DEF DependsOn

LEMMA CollectTargetDependsStep ==
  ASSUME TypeInv, CollectInv, CollectTargetDepends
  PROVE  TypeInv' /\ CollectInv'
<1> USE DEF CollectTargetDepends, ccgVars
<1> DEFINE t == target + 1
<1>1. N \in Nat /\ target \in 0..N /\ t \in Node /\ t # 0 /\ t \in 0..N
  BY NumberAssumption DEF CollectInv, Node
<1>2. /\ project.name[t] \in Names /\ ListedNames(t) \in Seq(Names)
      /\ project' = project /\ InitialGraph' = InitialGraph /\ target' = t
      /\ emitted' = {project.name[t]} /\ names' = ListedNames(t) /\ phase' = phase
  BY <1>1, ProjectFacts DEF TypeInv
<1>3. TypeInv'
  BY <1>1, <1>2 DEF TypeInv
<1>4. \A x : Wanted(x)' = Wanted(x) /\ ListedNames(x)' = ListedNames(x)
             /\ \A S : DependsOn(x, S)' = DependsOn(x, S)
  BY DEF Wanted, ListedNames, DependsOn, FindTarget
<1>5. ccg!Unconstructed'
  BY DEF CollectInv, ccg!Unconstructed
<1>6. target # 0 => target \in Node /\ Range(InitialGraph[target]) = Wanted(target)
  <2> SUFFICES ASSUME target # 0
               PROVE  target \in Node /\ Range(InitialGraph[target]) = Wanted(target)
    OBVIOUS
  <2>1. target \in Node
    BY <1>1 DEF Node
  <2>2. Range(names) = {}
    BY DEF Range
  <2>3. emitted = Range(ListedNames(target)) \cup {project.name[target]}
    BY <2>2 DEF CollectInv
  <2>4. Range(InitialGraph[target]) = DependsOn(target, Range(ListedNames(target)))
    BY <2>3, OwnNameIsNone DEF CollectInv
  <2> QED BY <2>1, <2>4, ProjectFacts DEF TypeInv
<1>7. \A x \in Node : /\ x < t => Range(InitialGraph[x]) = Wanted(x)
                      /\ x > t => InitialGraph[x] = <<>>
  <2> SUFFICES ASSUME NEW x \in Node
               PROVE  /\ x < t => Range(InitialGraph[x]) = Wanted(x)
                      /\ x > t => InitialGraph[x] = <<>>
    OBVIOUS
  <2>1. x \in Nat \ {0} /\ (x < t => x < target \/ (x = target /\ target # 0)) /\ (x > t => x > target)
    BY <1>1 DEF Node
  <2> QED BY <1>6, <2>1 DEF CollectInv
<1>8. Range(InitialGraph[t]) = DependsOn(t, {project.name[t]})
  <2>1. InitialGraph[t] = <<>>
    BY <1>1 DEF CollectInv
  <2>2. Range(<<>>) = {}
    BY DEF Range
  <2> QED BY <2>1, <2>2 DEF DependsOn
<1>9. emitted' \cup Range(names') = Range(ListedNames(t)) \cup {project.name[t]}
  BY <1>2
<1> HIDE DEF CollectTargetDepends, ccgVars, t
<1>10. CollectInv'
  BY <1>1, <1>2, <1>4, <1>5, <1>7, <1>8, <1>9 DEF CollectInv
<1> QED BY <1>3, <1>10

LEMMA NextNameFacts ==
  ASSUME TypeInv, CollectInv, NextName
  PROVE  /\ target \in Node /\ target # 0 /\ N \in Nat
         /\ names' \in Seq(Names) /\ Head(names) \in Names
         /\ emitted' = emitted \cup {Head(names)}
         /\ emitted' \cup Range(names') = emitted \cup Range(names)
         /\ UNCHANGED <<project, target, phase>>
         /\ ccg!Unconstructed'
         /\ \A x : Wanted(x)' = Wanted(x) /\ ListedNames(x)' = ListedNames(x)
                   /\ \A S : DependsOn(x, S)' = DependsOn(x, S)
<1> USE DEF NextName, ccgVars
<1>1. names \in Seq(Names) /\ names # <<>> /\ names' = Tail(names)
  BY DEF TypeInv
<1>2. /\ names' \in Seq(Names) /\ Len(names) \in Nat \ {0} /\ Len(names') = Len(names) - 1
      /\ Head(names) = names[1] /\ names[1] \in Names
      /\ \A a \in 1..Len(names') : a + 1 \in 1..Len(names) /\ names'[a] = names[a + 1]
  BY <1>1, CGP!PoppedFront
<1>3. Range(names) = {names[a] : a \in 1..Len(names)} /\ Range(names') = {names'[a] : a \in 1..Len(names')}
  BY <1>1, <1>2, RangeEquality
<1>4. Range(names) = {Head(names)} \cup Range(names')
  <2>1. ASSUME NEW a \in 1..Len(names), a # 1 PROVE names[a] \in Range(names')
    <3>1. a - 1 \in 1..Len(names') /\ (a - 1) + 1 = a
      BY <1>2, <2>1
    <3> QED BY <1>2, <1>3, <3>1
  <2>2. 1 \in 1..Len(names)
    BY <1>2
  <2> QED BY <1>2, <1>3, <2>1, <2>2
<1>5. target \in Node /\ target # 0 /\ N \in Nat
  BY <1>1, NumberAssumption DEF CollectInv, Node
<1>6. ccg!Unconstructed'
  BY DEF CollectInv, ccg!Unconstructed
<1>7. \A x : Wanted(x)' = Wanted(x) /\ ListedNames(x)' = ListedNames(x)
             /\ \A S : DependsOn(x, S)' = DependsOn(x, S)
  BY DEF Wanted, ListedNames, DependsOn, FindTarget
<1> QED BY <1>2, <1>4, <1>5, <1>6, <1>7

LEMMA AddTargetDependStep ==
  ASSUME TypeInv, CollectInv, AddTargetDepend
  PROVE  TypeInv' /\ CollectInv'
<1> DEFINE name == Head(names)
<1>1. NextName /\ name \notin emitted
  BY DEF AddTargetDepend
<1>2. PICK d \in FindTarget(target, name) :
        InitialGraph' = [InitialGraph EXCEPT ![target] = Append(@, d)]
  BY DEF AddTargetDepend
<1>3. /\ target \in Node /\ target # 0 /\ N \in Nat
      /\ names' \in Seq(Names) /\ name \in Names
      /\ emitted' = emitted \cup {name}
      /\ emitted' \cup Range(names') = emitted \cup Range(names)
      /\ UNCHANGED <<project, target, phase>>
      /\ ccg!Unconstructed'
      /\ \A x : Wanted(x)' = Wanted(x) /\ ListedNames(x)' = ListedNames(x)
                /\ \A S : DependsOn(x, S)' = DependsOn(x, S)
  BY <1>1, NextNameFacts
<1> HIDE DEF name
<1>4. d \in Node /\ FindTarget(target, name) = {d}
  BY <1>2, <1>3, ProjectFacts DEF TypeInv
<1>5. InitialGraph[target] \in Seq(Node) /\ InitialGraph'[target] = Append(InitialGraph[target], d)
      /\ \A x \in Node : x # target => InitialGraph'[x] = InitialGraph[x]
  BY <1>2, <1>3 DEF TypeInv
<1>6. /\ Append(InitialGraph[target], d) \in Seq(Node)
      /\ Range(Append(InitialGraph[target], d)) = Range(InitialGraph[target]) \cup {d}
  <2> DEFINE s == InitialGraph[target]
             u == Append(s, d)
  <2>1. s \in Seq(Node) /\ u = Append(s, d)
    BY <1>5
  <2> HIDE DEF s, u
  <2>2. /\ u \in Seq(Node) /\ Len(s) \in Nat /\ Len(u) = Len(s) + 1
        /\ u[Len(u)] = d /\ \A a \in 1..Len(s) : u[a] = s[a]
    BY <1>4, <2>1, CGP!AppendedBack
  <2>3. Range(s) = {s[a] : a \in 1..Len(s)} /\ Range(u) = {u[a] : a \in 1..Len(u)}
    <3>1. \A q \in Seq(Node) : Range(q) = {q[a] : a \in 1..Len(q)}
      BY RangeEquality
    <3> QED BY <2>1, <2>2, <3>1
  <2>4. \A a \in 1..Len(u) : a \in 1..Len(s) \/ a = Len(u)
    BY <2>2
  <2>5. \A a \in 1..Len(s) : a \in 1..Len(u)
    BY <2>2
  <2>6. Len(u) \in 1..Len(u)
    BY <2>2
  <2>7. Range(u) = Range(s) \cup {d}
    BY <2>2, <2>3, <2>4, <2>5, <2>6
  <2> QED BY <2>2, <2>7 DEF s, u
<1>7. TypeInv'
  <2>1. InitialGraph' \in [Node -> Seq(Node)]
    BY <1>2, <1>3, <1>6 DEF TypeInv
  <2> QED BY <1>3, <2>1 DEF TypeInv
<1>8. Range(InitialGraph'[target]) = DependsOn(target, emitted')
  <2>1. name # project.name[target] /\ Range(InitialGraph[target]) = DependsOn(target, emitted)
    BY <1>1, <1>3 DEF CollectInv, name
  <2>2. DependsOn(target, emitted \cup {name}) = DependsOn(target, emitted) \cup FindTarget(target, name)
    BY <2>1 DEF DependsOn
  <2> QED BY <1>3, <1>4, <1>5, <1>6, <2>1, <2>2
<1>9. CollectInv'
  <2>1. \A x \in Node : /\ x < target => Range(InitialGraph'[x]) = Wanted(x)
                        /\ x > target => InitialGraph'[x] = <<>>
    <3>1. \A x \in Node : x \in Nat /\ (x < target \/ x > target => x # target)
      BY <1>3 DEF Node
    <3> QED BY <1>5, <3>1 DEF CollectInv
  <2> QED BY <1>3, <1>8, <2>1 DEF CollectInv
<1> QED BY <1>7, <1>9

LEMMA SkipNameStep ==
  ASSUME TypeInv, CollectInv, SkipName
  PROVE  TypeInv' /\ CollectInv'
<1> DEFINE name == Head(names)
<1>1. NextName /\ (name \in emitted \/ FindTarget(target, name) = {}) /\ InitialGraph' = InitialGraph
  BY DEF SkipName
<1>2. /\ target \in Node /\ target # 0 /\ N \in Nat
      /\ names' \in Seq(Names) /\ name \in Names
      /\ emitted' = emitted \cup {name}
      /\ emitted' \cup Range(names') = emitted \cup Range(names)
      /\ UNCHANGED <<project, target, phase>>
      /\ ccg!Unconstructed'
      /\ \A x : Wanted(x)' = Wanted(x) /\ ListedNames(x)' = ListedNames(x)
                /\ \A S : DependsOn(x, S)' = DependsOn(x, S)
  BY <1>1, NextNameFacts
<1> HIDE DEF name
<1>3. TypeInv'
  BY <1>1, <1>2 DEF TypeInv
<1>4. DependsOn(target, emitted \cup {name}) = DependsOn(target, emitted)
  <2>1. CASE name \in emitted
    <3>1. emitted \cup {name} = emitted
      BY <2>1
    <3> QED BY <3>1
  <2>2. CASE FindTarget(target, name) = {}
    BY <2>2 DEF DependsOn
  <2> QED BY <1>1, <2>1, <2>2
<1>5. CollectInv'
  BY <1>1, <1>2, <1>4 DEF CollectInv
<1> QED BY <1>3, <1>5

LEMMA DependsCollectedStep ==
  ASSUME TypeInv, CollectInv, DependsCollected
  PROVE  TypeInv' /\ Collected'
<1> USE DEF DependsCollected, ccgVars
<1>1. TypeInv'
  BY DEF TypeInv
<1>2. N \in Nat /\ Node = 1..N /\ target = N
  BY NumberAssumption DEF Node
<1>3. \A t \in Node : Range(InitialGraph[t]) = Wanted(t)
  <2> SUFFICES ASSUME NEW t \in Node PROVE Range(InitialGraph[t]) = Wanted(t)
    OBVIOUS
  <2>1. CASE t = target
    <3>1. target # 0 /\ Range(names) = {}
      BY <1>2, <2>1 DEF Range
    <3>2. emitted = Range(ListedNames(target)) \cup {project.name[target]}
      BY <3>1 DEF CollectInv
    <3>3. Range(InitialGraph[target]) = DependsOn(target, Range(ListedNames(target)))
      BY <3>1, <3>2, OwnNameIsNone DEF CollectInv
    <3> QED BY <2>1, <3>3, ProjectFacts DEF TypeInv
  <2>2. CASE t # target
    <3>1. t < target
      BY <1>2, <2>2
    <3> QED BY <3>1 DEF CollectInv
  <2> QED BY <2>1, <2>2
<1>4. \A t : Wanted(t)' = Wanted(t)
  BY DEF Wanted, FindTarget
<1>5. CGP!GraphInv
  <2>1. Len(InitialGraph) = N /\ InitialGraph \in Seq(Seq(Node))
    BY <1>2, SeqDef, LenProperties DEF TypeInv
  <2>2. InitialGraph \in Seq(Seq(Nat)) /\ InitialGraph \in [1..N -> Seq(1..N)]
    BY <1>2, SeqDef DEF TypeInv
  <2> QED BY <1>2, <2>1, <2>2 DEF CGP!GraphInv
<1>6. CGP!Unconstructed
  BY DEF CollectInv, ccg!Unconstructed, CGP!Unconstructed
<1>7. CGP!Inv
  BY <1>5, <1>6, CGP!InitInv
<1>8. UNCHANGED CGP!vars
  BY DEF CGP!vars, CGP!walk, CGP!found
<1>9. CGP!Inv'
  BY <1>7, <1>8, CGP!NextInv
<1> QED BY <1>1, <1>3, <1>4, <1>9 DEF Collected

---------------------------------------------------------------------------
(* The steps of ComponentGraph are those its proofs are about.              *)
LEMMA SameComponentGraph ==
  ASSUME ccg!Next
  PROVE  CGP!Next /\ InitialGraph' = InitialGraph
<1>1. \/ ccg!Construct \/ ccg!StartWalk \/ ccg!SkipNode \/ ccg!EndTarjan
      \/ ccg!IgnoreEdge \/ ccg!VisitDestination \/ ccg!UpdateRoot
      \/ ccg!ReturnUnderRoot \/ ccg!FindComponent \/ ccg!TransferEdges
  BY DEF ccg!Next
<1>2. ccg!Construct => CGP!Construct /\ InitialGraph' = InitialGraph
  BY DEF ccg!Construct, CGP!Construct, ccg!Node, CGP!Node
<1>3. ccg!StartWalk => CGP!StartWalk /\ InitialGraph' = InitialGraph
  BY DEF ccg!StartWalk, CGP!StartWalk, ccg!EnterVisit, CGP!EnterVisit
<1>4. ccg!SkipNode => CGP!SkipNode /\ InitialGraph' = InitialGraph
  BY DEF ccg!SkipNode, CGP!SkipNode, ccg!walk, CGP!walk, ccg!found, CGP!found
<1>5. ccg!EndTarjan => CGP!EndTarjan /\ InitialGraph' = InitialGraph
  BY DEF ccg!EndTarjan, CGP!EndTarjan, ccg!walk, CGP!walk, ccg!found, CGP!found
<1>6. ccg!Here = CGP!Here /\ ccg!There = CGP!There /\ ccg!Call = CGP!Call
  BY DEF ccg!Here, CGP!Here, ccg!There, CGP!There, ccg!Call, CGP!Call
<1>7. (ccg!FollowsEdge <=> CGP!FollowsEdge) /\ (ccg!NextEdge <=> CGP!NextEdge)
      /\ (ccg!EdgesFollowed <=> CGP!EdgesFollowed)
  BY <1>6 DEF ccg!FollowsEdge, CGP!FollowsEdge, ccg!NextEdge, CGP!NextEdge,
     ccg!EdgesFollowed, CGP!EdgesFollowed
<1>8. \A n : ccg!ByEarlierWalk(n) <=> CGP!ByEarlierWalk(n)
  BY DEF ccg!ByEarlierWalk, CGP!ByEarlierWalk
<1>9. ccg!IgnoreEdge => CGP!IgnoreEdge /\ InitialGraph' = InitialGraph
  BY <1>6, <1>7, <1>8 DEF ccg!IgnoreEdge, CGP!IgnoreEdge, ccg!walk, CGP!walk, ccg!found, CGP!found
<1>10. ccg!VisitDestination => CGP!VisitDestination /\ InitialGraph' = InitialGraph
  BY <1>6, <1>7 DEF ccg!VisitDestination, CGP!VisitDestination, ccg!EnterVisit, CGP!EnterVisit
<1>11. ccg!UpdateRoot => CGP!UpdateRoot /\ InitialGraph' = InitialGraph
  BY <1>6, <1>7, <1>8 DEF ccg!UpdateRoot, CGP!UpdateRoot, ccg!BetterRoot, CGP!BetterRoot,
     ccg!walk, CGP!walk, ccg!found, CGP!found
<1>12. ccg!ReturnUnderRoot => CGP!ReturnUnderRoot /\ InitialGraph' = InitialGraph
  BY <1>6, <1>7 DEF ccg!ReturnUnderRoot, CGP!ReturnUnderRoot, ccg!walk, CGP!walk, ccg!found, CGP!found
<1>13. ccg!Depth = CGP!Depth /\ ccg!Popped = CGP!Popped /\ ccg!Node = CGP!Node
  BY <1>6 DEF ccg!Depth, CGP!Depth, ccg!Popped, CGP!Popped, ccg!Node, CGP!Node
<1>14. ccg!FindComponent => CGP!FindComponent /\ InitialGraph' = InitialGraph
  BY <1>6, <1>7, <1>13 DEF ccg!FindComponent, CGP!FindComponent, ccg!walk, CGP!walk
<1>15. \A c : ccg!OutgoingEdges(c) = CGP!OutgoingEdges(c)
  BY <1>13 DEF ccg!OutgoingEdges, CGP!OutgoingEdges, ccg!Successors, CGP!Successors
<1>16. ccg!TransferEdges => CGP!TransferEdges /\ InitialGraph' = InitialGraph
  BY <1>15 DEF ccg!TransferEdges, CGP!TransferEdges, ccg!walk, CGP!walk, ccg!found, CGP!found
<1> QED BY <1>1, <1>2, <1>3, <1>4, <1>5, <1>9, <1>10, <1>11, <1>12, <1>14, <1>16 DEF CGP!Next

LEMMA SameResults ==
  ASSUME Collected, UNCHANGED <<project, InitialGraph, ccgVars>>
  PROVE  Collected' /\ SomeBadComponent' = SomeBadComponent
<1>1. UNCHANGED CGP!vars
  BY DEF CGP!vars, CGP!walk, CGP!found, ccgVars
<1>2. CGP!Inv'
  BY <1>1, CGP!NextInv DEF Collected
<1>3. \A t : Wanted(t)' = Wanted(t)
  BY DEF Wanted, FindTarget
<1>4. SomeBadComponent' = SomeBadComponent
  BY DEF SomeBadComponent, BadComponent, ccgVars
<1> QED BY <1>2, <1>3, <1>4 DEF Collected

LEMMA IdentifyComponentsStep ==
  ASSUME IInv, IdentifyComponents
  PROVE  IInv'
<1> USE DEF IdentifyComponents, IInv
<1>1. CGP!Next /\ InitialGraph' = InitialGraph
  BY SameComponentGraph
<1>2. CGP!Inv'
  BY <1>1, CGP!NextInv DEF Collected
<1>3. \A t : Wanted(t)' = Wanted(t)
  BY DEF Wanted, FindTarget
<1>4. Collected'
  BY <1>1, <1>2, <1>3 DEF Collected
<1>5. TypeInv'
  BY <1>1 DEF TypeInv
<1> QED BY <1>4, <1>5

---------------------------------------------------------------------------
(* The components of the collected graph, their heads and tails.            *)
LEMMA GreatestNumber ==
  ASSUME NEW T \in SUBSET Nat, T # {}, NEW b \in Nat, \A k \in T : k <= b
  PROVE  \E m \in T : \A k \in T : k <= m
<1> DEFINE D == {b - k : k \in T}
<1>1. D \in SUBSET Nat /\ D # {}
  <2>1. \A k \in T : k \in Nat /\ k <= b
    OBVIOUS
  <2>2. \A k \in T : b - k \in Nat
    BY <2>1
  <2> QED BY <2>2
<1>2. PICK d \in D : \A e \in D : d <= e
  <2> HIDE DEF D
  <2> QED BY <1>1, CGP!LeastNumber
<1>3. PICK m \in T : d = b - m
  BY <1>2
<1>4. \A k \in T : k <= m
  <2> SUFFICES ASSUME NEW k \in T PROVE k <= m
    OBVIOUS
  <2>1. b - m <= b - k
    BY <1>2, <1>3
  <2>2. b \in Nat /\ m \in Nat /\ k \in Nat
    OBVIOUS
  <2> HIDE DEF D
  <2> QED BY <2>1, <2>2
<1> QED BY <1>4

LEMMA ComponentsComputed ==
  ASSUME TypeInv, Collected, pc = "done"
  PROVE  /\ Len(Components) \in Nat /\ Node = 1..N /\ N \in Nat
         /\ \A c \in 1..Len(Components) :
              /\ Components[c] # {} /\ Components[c] \subseteq Node
              /\ ComponentGraph[c] \subseteq 1..(c - 1)
              /\ \A d : d \in ComponentGraph[c] <=>
                   d # c /\ \E n \in Components[c] : \E m \in Wanted(n) : TarjanComponents[m] = d
         /\ \A n \in Node :
              /\ TarjanComponents[n] \in 1..Len(Components)
              /\ n \in Components[TarjanComponents[n]]
              /\ Components[TarjanComponents[n]] = CGP!Mutual[n]
              /\ \A m \in Wanted(n) : m \in Node /\ TarjanComponents[m] \in 1..TarjanComponents[n]
              /\ \A c \in 1..Len(Components) : n \in Components[c] <=> TarjanComponents[n] = c
         /\ CGP!GraphInv /\ CGP!Node = Node /\ \A n \in Node : CGP!Succ[n] = Wanted(n)
<1>1. CGP!GraphInv /\ CGP!WalkingInv
  BY DEF Collected, CGP!Inv, CGP!Constructed
<1>2. Node = 1..N /\ N \in Nat /\ CGP!Node = Node
  BY NumberAssumption DEF Node, CGP!Node, TypeInv
<1>3. \A n \in Node : CGP!Succ[n] = Wanted(n)
  <2> SUFFICES ASSUME NEW n \in Node PROVE CGP!Succ[n] = Wanted(n)
    OBVIOUS
  <2>1. CGP!Succ[n] = CGP!Successors(n)
    BY <1>1, <1>2, CGP!SuccessorsAreNodes
  <2>2. InitialGraph[n] \in Seq(Node)
    BY DEF TypeInv
  <2>3. CGP!Successors(n) = Range(InitialGraph[n])
    BY <2>2, RangeEquality DEF CGP!Successors
  <2> QED BY <2>1, <2>3 DEF Collected
<1>4. /\ Len(Components) \in Nat
      /\ \A c \in 1..Len(Components) :
           /\ Components[c] # {} /\ Components[c] \subseteq Node
           /\ \A n \in Node : n \in Components[c] <=> TarjanComponents[n] = c
      /\ \A n \in Node : TarjanComponents[n] # 0 =>
           /\ TarjanComponents[n] \in 1..Len(Components)
           /\ Components[TarjanComponents[n]] = CGP!Mutual[n]
           /\ \A m \in Wanted(n) : m \in Node /\ TarjanComponents[m] \in 1..TarjanComponents[n]
  BY <1>1, <1>2, <1>3, CGP!ComponentFacts
<1>5. \A n \in Node : TarjanComponents[n] # 0
  <2> SUFFICES ASSUME NEW n \in Node, TarjanComponents[n] = 0 PROVE FALSE
    OBVIOUS
  <2>1. calls = <<>> /\ i > Len(InitialGraph) /\ CGP!Held = {}
    BY <1>1 DEF CGP!WalkingInv, CGP!EndInv, CGP!CallInv
  <2>2. Len(InitialGraph) \in Nat /\ n \in 1..Len(InitialGraph) /\ i \in Nat
    BY <1>1, <1>2, CGP!SuccessorsAreNodes DEF CGP!WalkingInv, CGP!TypeInv
  <2>3. n < i
    BY <2>1, <2>2
  <2>4. TarjanVisited[n] > 0
    BY <1>1, <1>2, <2>3 DEF CGP!WalkingInv, CGP!WalkInv
  <2> QED BY <1>2, <2>1, <2>4 DEF CGP!Held
<1>6. ASSUME NEW c \in 1..Len(Components)
      PROVE  /\ ComponentGraph[c] \subseteq 1..(c - 1)
             /\ \A d : d \in ComponentGraph[c] <=>
                  d # c /\ \E n \in Components[c] : \E m \in Wanted(n) : TarjanComponents[m] = d
  <2>1. ComponentGraph[c] = CGP!OutgoingEdges(c)
    BY <1>1 DEF CGP!WalkingInv, CGP!EndInv
  <2>2. /\ CGP!OutgoingEdges(c) \subseteq 1..(c - 1)
        /\ \A d : d \in CGP!OutgoingEdges(c) <=>
             d # c /\ \E n \in Components[c] : \E m \in CGP!Succ[n] : TarjanComponents[m] = d
    BY <1>1, CGP!OutgoingFacts
  <2>3. \A n \in Components[c] : CGP!Succ[n] = Wanted(n)
    BY <1>3, <1>4
  <2> QED BY <2>1, <2>2, <2>3
<1> QED BY <1>1, <1>2, <1>3, <1>4, <1>5, <1>6

LEMMA HeadsAndTails ==
  ASSUME TypeInv, Collected, pc = "done", NEW c \in 1..Len(Components)
  PROVE  /\ HeadOf(c) \in Components[c] /\ \A u \in Components[c] : HeadOf(c) <= u
         /\ TailOf(c) \in Components[c] /\ \A u \in Components[c] : u <= TailOf(c)
<1> DEFINE T == Components[c]
<1>1. T # {} /\ T \subseteq Node /\ Node = 1..N /\ N \in Nat
  BY ComponentsComputed
<1>2. T \in SUBSET Nat /\ \A k \in T : k <= N
  BY <1>1
<1> HIDE DEF T
<1>3. \E m \in T : \A k \in T : m <= k
  BY <1>1, <1>2, CGP!LeastNumber
<1>4. \E m \in T : \A k \in T : k <= m
  BY <1>1, <1>2, GreatestNumber
<1> QED BY <1>3, <1>4 DEF HeadOf, TailOf, T

LEMMA FinalFacts ==
  ASSUME TypeInv, Collected, pc = "done", NEW t \in Node
  PROVE  /\ t = TailOf(TarjanComponents[t]) =>
              FinalDepends(t) = {HeadOf(d) : d \in ComponentGraph[TarjanComponents[t]]}
         /\ t # TailOf(TarjanComponents[t]) =>
              \E u \in Components[TarjanComponents[t]] :
                /\ u > t /\ \A v \in Components[TarjanComponents[t]] : v > t => u <= v
                /\ FinalDepends(t) = {u}
         /\ FinalDepends(t) \subseteq Node
<1> DEFINE c == TarjanComponents[t]
           T == {u \in Components[c] : u > t}
<1>1. /\ c \in 1..Len(Components) /\ t \in Components[c] /\ Components[c] \subseteq Node
      /\ Node = 1..N /\ N \in Nat /\ ComponentGraph[c] \subseteq 1..(c - 1)
      /\ Len(Components) \in Nat
  BY ComponentsComputed
<1>2. CASE t = TailOf(c)
  <2>1. FinalDepends(t) = {HeadOf(d) : d \in ComponentGraph[c]}
    BY <1>2 DEF FinalDepends
  <2>2. \A d \in ComponentGraph[c] : HeadOf(d) \in Node
    <3> SUFFICES ASSUME NEW d \in ComponentGraph[c] PROVE HeadOf(d) \in Node
      OBVIOUS
    <3>1. d \in 1..Len(Components)
      BY <1>1
    <3> QED BY <3>1, ComponentsComputed, HeadsAndTails
  <2> QED BY <1>2, <2>1, <2>2
<1>3. CASE t # TailOf(c)
  <2>1. TailOf(c) \in Components[c] /\ t <= TailOf(c)
    BY <1>1, HeadsAndTails
  <2>2. T # {} /\ T \in SUBSET Nat
    BY <1>1, <1>3, <2>1
  <2>3. PICK u \in T : \A k \in T : u <= k
    <3> HIDE DEF T
    <3> QED BY <2>2, CGP!LeastNumber
  <2> DEFINE P(w) == w > t /\ \A v \in Components[c] : v > t => w <= v
  <2>4. u \in Components[c] /\ P(u)
    BY <2>3
  <2>5. \A w \in Components[c] : P(w) => w = u
    BY <1>1, <2>4
  <2>6. FinalDepends(t) = {CHOOSE w \in Components[c] : P(w)}
    BY <1>3 DEF FinalDepends
  <2>7. (CHOOSE w \in Components[c] : P(w)) = u
    <3> HIDE DEF P
    <3> QED BY <2>4, <2>5
  <2> QED BY <1>1, <1>3, <2>4, <2>6, <2>7
<1> QED BY <1>2, <1>3

---------------------------------------------------------------------------
(* The steps after the components have been computed.                       *)
LEMMA SameFinalDepends ==
  ASSUME UNCHANGED ccgVars
  PROVE  \A t : FinalDepends(t)' = FinalDepends(t)
  BY DEF ccgVars, FinalDepends, HeadOf, TailOf

LEMMA CheckComponentsStep ==
  ASSUME IInv, CheckComponents
  PROVE  IInv'
<1> USE DEF CheckComponents
<1>1. Collected' /\ SomeBadComponent' = SomeBadComponent
  BY SameResults DEF IInv
<1>2. phase' = IF SomeBadComponent THEN "failed" ELSE "Final"
  BY DEF SomeBadComponent
<1>3. TypeInv'
  BY <1>2 DEF IInv, TypeInv
<1>4. pc' = "done" /\ FinalGraph' = <<>> /\ TargetDependencies' = <<>>
  BY DEF ccgVars, IInv
<1> QED BY <1>1, <1>2, <1>3, <1>4 DEF IInv

LEMMA ComputeFinalDependsStep ==
  ASSUME IInv, ComputeFinalDepends
  PROVE  IInv'
<1> USE DEF ComputeFinalDepends
<1>1. Collected' /\ SomeBadComponent' = SomeBadComponent
  BY SameResults DEF IInv
<1>2. pc' = "done" /\ TargetDependencies' = <<>> /\ target' = 1 /\ phase' = "read" /\ N \in Nat
  BY NumberAssumption DEF ccgVars, IInv
<1>3. TypeInv'
  BY <1>2 DEF IInv, TypeInv
<1>4. ReadInv'
  <2>1. FinalGraph' = [t \in Node |-> FinalDepends(t)']
    BY SameFinalDepends
  <2>2. TargetDependencies' \in Seq(SUBSET Node) /\ Len(TargetDependencies') = 0
    BY <1>2, EmptySeq
  <2>3. \A t \in Node : ~(t < 1)
    BY DEF Node
  <2> QED BY <1>2, <2>1, <2>2, <2>3 DEF ReadInv
<1> QED BY <1>1, <1>2, <1>3, <1>4 DEF IInv

LEMMA GetTargetDirectDependsStep ==
  ASSUME IInv, GetTargetDirectDepends
  PROVE  IInv'
<1> USE DEF GetTargetDirectDepends
<1>1. Collected' /\ SomeBadComponent' = SomeBadComponent
  BY SameResults DEF IInv
<1>2. /\ phase = "read" /\ phase' = "read" /\ pc' = "done" /\ FinalGraph' = FinalGraph
      /\ target' = target + 1 /\ target \in Node /\ target \in 1..N /\ N \in Nat
      /\ TargetDependencies \in Seq(SUBSET Node) /\ Len(TargetDependencies) = target - 1
  BY NumberAssumption DEF ccgVars, IInv, ReadInv, Node
<1>3. TypeInv'
  BY <1>2 DEF IInv, TypeInv
<1>4. FinalGraph[target] \in SUBSET Node
  <2>1. FinalGraph[target] = FinalDepends(target)
    BY <1>2 DEF IInv, ReadInv
  <2> QED BY <1>2, <2>1, FinalFacts DEF IInv
<1>5. /\ TargetDependencies' \in Seq(SUBSET Node) /\ Len(TargetDependencies') = target
      /\ TargetDependencies'[target] = FinalGraph[target]
      /\ \A t \in 1..(target - 1) : TargetDependencies'[t] = TargetDependencies[t]
  <2> DEFINE S == SUBSET Node
             e == FinalGraph[target]
  <2>1. TargetDependencies \in Seq(S) /\ e \in S /\ TargetDependencies' = Append(TargetDependencies, e)
    BY <1>2, <1>4
  <2> HIDE DEF S, e
  <2>2. /\ TargetDependencies' \in Seq(S) /\ Len(TargetDependencies') = Len(TargetDependencies) + 1
        /\ TargetDependencies'[Len(TargetDependencies')] = e
        /\ \A t \in 1..Len(TargetDependencies) : TargetDependencies'[t] = TargetDependencies[t]
    BY <2>1, CGP!AppendedBack
  <2>3. Len(TargetDependencies') = target
    BY <1>2, <2>2
  <2> QED BY <1>2, <2>2, <2>3 DEF S, e
<1>6. ReadInv'
  <2>1. FinalGraph' = [t \in Node |-> FinalDepends(t)']
    BY <1>2, SameFinalDepends DEF IInv, ReadInv
  <2>2. ASSUME NEW t \in Node, t < target + 1 PROVE TargetDependencies'[t] = FinalGraph[t]
    <3>1. CASE t = target
      BY <1>5, <3>1
    <3>2. CASE t # target
      <4>1. t < target /\ t \in 1..(target - 1)
        BY <1>2, <2>2, <3>2 DEF Node
      <4>2. TargetDependencies[t] = FinalGraph[t]
        BY <1>2, <4>1 DEF IInv, ReadInv
      <4> QED BY <1>5, <4>1, <4>2
    <3> QED BY <3>1, <3>2
  <2>3. target + 1 \in 1..(N+1) /\ target = (target + 1) - 1
    BY <1>2
  <2>4. TargetDependencies' \in Seq(SUBSET Node) /\ Len(TargetDependencies') = (target + 1) - 1
    BY <1>5, <2>3
  <2>5. \A t \in Node : t < target + 1 => TargetDependencies'[t] = FinalGraph'[t]
    BY <1>2, <2>2
  <2> HIDE DEF GetTargetDirectDepends
  <2> QED BY <1>2, <2>1, <2>3, <2>4, <2>5 DEF ReadInv
<1> QED BY <1>1, <1>2, <1>3, <1>6 DEF IInv

LEMMA QuietInv ==
  ASSUME IInv, phase # "CollectDepends",
         UNCHANGED <<project, InitialGraph, FinalGraph, TargetDependencies, target, emitted, names, ccgVars>>,
         phase' \in {phase, "done", "crashed"},
         phase' = "done" => phase = "done" \/ (phase = "read" /\ target > N),
         phase' = "crashed" => phase \in {"failed", "crashed"}
  PROVE  IInv'
<1>1. Collected' /\ SomeBadComponent' = SomeBadComponent
  BY SameResults DEF IInv
<1>2. TypeInv'
  BY DEF IInv, TypeInv
<1>3. phase \in {"read", "done"} => ReadInv'
  BY SameFinalDepends DEF IInv, ReadInv
<1>4. phase' = "done" => target = N + 1
  BY NumberAssumption DEF IInv, ReadInv
<1>5. pc' = pc
  BY DEF ccgVars
<1> QED BY <1>1, <1>2, <1>3, <1>4, <1>5 DEF IInv

LEMMA NextInv ==
  ASSUME IInv, [Next]_vars
  PROVE  IInv'
<1>1. ASSUME phase = "CollectDepends", TypeInv', CollectInv', phase' = phase,
             UNCHANGED <<FinalGraph, TargetDependencies>>
      PROVE  IInv'
  BY <1>1 DEF IInv
<1>2. phase = "CollectDepends" => TypeInv /\ CollectInv
  BY DEF IInv
<1>3. CASE CollectTargetDepends
  BY <1>1, <1>2, <1>3, CollectTargetDependsStep DEF CollectTargetDepends
<1>4. CASE AddTargetDepend
  BY <1>1, <1>2, <1>4, AddTargetDependStep DEF AddTargetDepend, NextName
<1>5. CASE SkipName
  BY <1>1, <1>2, <1>5, SkipNameStep DEF SkipName, NextName
<1>6. CASE DependsCollected
  BY <1>2, <1>6, DependsCollectedStep DEF DependsCollected, IInv
<1>7. CASE IdentifyComponents
  BY <1>7, IdentifyComponentsStep
<1>8. CASE CheckComponents
  BY <1>8, CheckComponentsStep
<1>9. CASE ComputeFinalDepends
  BY <1>9, ComputeFinalDependsStep
<1>10. CASE GetTargetDirectDepends
  BY <1>10, GetTargetDirectDependsStep
<1>11. CASE AllRead
  BY <1>11, QuietInv DEF AllRead
<1>12. CASE ReadAfterFailure
  BY <1>12, QuietInv DEF ReadAfterFailure
<1>13. CASE UNCHANGED vars
  <2>1. CASE phase # "CollectDepends"
    <3>1. /\ UNCHANGED <<project, InitialGraph, FinalGraph, TargetDependencies, target, emitted, names, ccgVars>>
          /\ phase' = phase
      BY <1>13 DEF vars
    <3> QED BY <2>1, <3>1, QuietInv DEF IInv
  <2>2. CASE phase = "CollectDepends"
    <3>1. TypeInv'
      BY <1>2, <1>13, <2>2 DEF vars, TypeInv
    <3>2. CollectInv'
      <4>1. \A t : Wanted(t)' = Wanted(t) /\ ListedNames(t)' = ListedNames(t)
                   /\ \A S : DependsOn(t, S)' = DependsOn(t, S)
        BY <1>13 DEF vars, Wanted, ListedNames, DependsOn, FindTarget
      <4>2. ccg!Unconstructed'
        BY <1>2, <1>13, <2>2 DEF vars, ccgVars, CollectInv, ccg!Unconstructed
      <4> QED BY <1>2, <1>13, <2>2, <4>1, <4>2 DEF vars, CollectInv
    <3> QED BY <1>1, <1>13, <2>2, <3>1, <3>2 DEF vars
  <2> QED BY <2>1, <2>2
<1> QED BY <1>3, <1>4, <1>5, <1>6, <1>7, <1>8, <1>9, <1>10, <1>11, <1>12, <1>13 DEF Next

LEMMA Invariance == Spec => []IInv
<1>1. Init => IInv
  <2> SUFFICES ASSUME Init PROVE IInv
    OBVIOUS
  <2>1. TypeInv
    BY NumberAssumption, EmptySeq DEF Init, TypeInv
  <2>2. CollectInv
    <3>1. \A t \in Node : t > 0 /\ InitialGraph[t] = <<>>
      BY DEF Init, Node
    <3> QED BY <3>1, NumberAssumption DEF Init, CollectInv, Node
  <2> QED BY <2>1, <2>2 DEF Init, IInv
<1>2. IInv /\ [Next]_vars => IInv'
  BY NextInv
<1> QED BY <1>1, <1>2, PTL DEF Spec

---------------------------------------------------------------------------
(* What is reached in the two graphs.                                       *)
LEMMA InitialFacts ==
  ASSUME TypeInv, Collected, pc = "done", NEW t \in Node
  PROVE  /\ t \in Initial!Reachable(t) /\ Initial!Reachable(t) \subseteq Node
         /\ \A m \in Initial!Reachable(t) : /\ Wanted(m) \subseteq Initial!Reachable(t)
                                            /\ Initial!Reachable(m) \subseteq Initial!Reachable(t)
         /\ Initial!Component(t) = Components[TarjanComponents[t]]
         /\ \A u \in Components[TarjanComponents[t]] : u \in Initial!Reachable(t)
<1>1. /\ CGP!GraphInv /\ CGP!Node = Node /\ \A n \in Node : CGP!Succ[n] = Wanted(n)
      /\ Components[TarjanComponents[t]] = CGP!Mutual[t]
  BY ComponentsComputed
<1>2. Initial!Nodes = Node /\ \A n \in Node : [x \in Node |-> Range(InitialGraph[x])][n] = Wanted(n)
  BY DEF Initial!Nodes, Collected
<1>3. ASSUME NEW n \in Node PROVE Initial!Reachable(n) = CGP!Reach[n]
  <2>1. \A S \in SUBSET Node : (n \in S /\ Initial!Closed(S)) <=> CGP!Leads(n, S)
    BY <1>1, <1>2 DEF Initial!Closed, CGP!Leads
  <2> QED BY <1>1, <1>2, <2>1 DEF Initial!Reachable, CGP!Reach
<1>4. /\ t \in CGP!Reach[t] /\ CGP!Reach[t] \subseteq Node
      /\ \A m \in CGP!Reach[t] : CGP!Succ[m] \subseteq CGP!Reach[t] /\ CGP!Reach[m] \subseteq CGP!Reach[t]
  BY <1>1, CGP!ReachFacts
<1>5. Initial!Component(t) = CGP!Mutual[t]
  BY <1>1, <1>3, <1>4 DEF Initial!Component, CGP!Mutual
<1>6. \A u \in CGP!Mutual[t] : u \in CGP!Reach[t]
  BY <1>1 DEF CGP!Mutual
<1> QED BY <1>1, <1>3, <1>4, <1>5, <1>6

LEMMA FinalReachFacts ==
  ASSUME TypeInv, Collected, pc = "done", ReadInv, NEW t \in Node
  PROVE  /\ t \in Final!Reachable(t) /\ Final!Reachable(t) \subseteq Node
         /\ \A m \in Final!Reachable(t) : /\ FinalDepends(m) \subseteq Final!Reachable(t)
                                          /\ Final!Reachable(m) \subseteq Final!Reachable(t)
         /\ \A T \in SUBSET Node : t \in T /\ (\A k \in T : FinalDepends(k) \subseteq T)
                                     => Final!Reachable(t) \subseteq T
         /\ Final!Nodes = Node /\ FinalGraph[t] = FinalDepends(t)
<1> DEFINE R == [n \in Node |-> Final!Reachable(n)]
<1>1. FinalGraph \in [Node -> SUBSET Node] /\ \A n \in Node : FinalGraph[n] = FinalDepends(n)
  BY FinalFacts DEF ReadInv
<1>2. Final!Nodes = Node
  BY <1>1 DEF Final!Nodes
<1>3. R = [n \in Node |-> {m \in Node : \A T \in SUBSET Node :
                                          n \in T /\ (\A k \in T : FinalGraph[k] \subseteq T) => m \in T}]
  BY <1>2 DEF Final!Reachable, Final!Closed
<1> HIDE DEF R
<1>4. \A n \in Node :
           /\ n \in R[n] /\ R[n] \subseteq Node
           /\ \A m \in R[n] : FinalGraph[m] \subseteq R[n] /\ R[m] \subseteq R[n]
           /\ \A T \in SUBSET Node : n \in T /\ (\A k \in T : FinalGraph[k] \subseteq T) => R[n] \subseteq T
  BY <1>1, <1>3, CGP!ReachableFacts
<1>5. \A n \in Node : R[n] = Final!Reachable(n)
  BY DEF R
<1>6. \A m \in Final!Reachable(t) : /\ FinalDepends(m) \subseteq Final!Reachable(t)
                                    /\ Final!Reachable(m) \subseteq Final!Reachable(t)
  BY <1>1, <1>4, <1>5
<1>7. ASSUME NEW T \in SUBSET Node, t \in T, \A k \in T : FinalDepends(k) \subseteq T
      PROVE  Final!Reachable(t) \subseteq T
  <2>1. \A k \in T : FinalGraph[k] \subseteq T
    BY <1>1, <1>7
  <2> QED BY <1>4, <1>5, <1>7, <2>1
<1> QED BY <1>1, <1>2, <1>4, <1>5, <1>6, <1>7

---------------------------------------------------------------------------
(* The cycles that are errors.                                              *)
LEMMA MoreThanOne ==
  ASSUME NEW S \in SUBSET Node, NEW t \in S
  PROVE  Cardinality(S) >= 2 <=> S # {t}
<1>1. Node = 1..N /\ N \in Nat
  BY NumberAssumption DEF Node
<1>2. IsFiniteSet(Node)
  BY <1>1, FS_Interval
<1>3. IsFiniteSet(S) /\ Cardinality(S) \in Nat
  BY <1>2, FS_Subset, FS_CardinalityType
<1>4. Cardinality(S) # 0
  BY <1>3, FS_EmptySet
<1>5. Cardinality(S) = 1 <=> \E x : S = {x}
  BY <1>3, FS_Singleton
<1>6. Cardinality(S) = 1 <=> S = {t}
  BY <1>5
<1> QED BY <1>3, <1>4, <1>6

LEMMA BadCycle ==
  ASSUME TypeInv, Collected, pc = "done"
  PROVE  SomeBadComponent <=> \E t \in Node : Initial!Component(t) # {t} /\ ~project.static[t]
<1>1. ASSUME NEW t \in Node, Initial!Component(t) # {t}, ~project.static[t]
      PROVE  SomeBadComponent
  <2> DEFINE c == TarjanComponents[t]
  <2>1. c \in 1..Len(Components) /\ t \in Components[c] /\ Components[c] \subseteq Node
    BY ComponentsComputed
  <2>2. Components[c] # {t}
    BY <1>1, InitialFacts
  <2>3. Cardinality(Components[c]) >= 2
    BY <2>1, <2>2, MoreThanOne
  <2> QED BY <1>1, <2>1, <2>3 DEF SomeBadComponent, BadComponent
<1>2. ASSUME SomeBadComponent
      PROVE  \E t \in Node : Initial!Component(t) # {t} /\ ~project.static[t]
  <2>1. PICK c \in 1..Len(Components) : BadComponent(c)
    BY <1>2 DEF SomeBadComponent
  <2>2. PICK t \in Components[c] : ~project.static[t]
    BY <2>1 DEF BadComponent
  <2>3. t \in Node /\ TarjanComponents[t] = c /\ Components[c] \subseteq Node
    BY ComponentsComputed
  <2>4. Components[c] # {t}
    BY <2>1, <2>3, MoreThanOne DEF BadComponent
  <2>5. Initial!Component(t) # {t}
    BY <2>3, <2>4, InitialFacts
  <2> QED BY <2>2, <2>3, <2>5
<1> QED BY <1>1, <1>2

(* Compute() fails for a cycle through a target that is not a static        *)
(* library, and for nothing else.                                           *)
THEOREM BadCyclesFail == Spec => []FailsOnBadCycle
<1>1. IInv => FailsOnBadCycle
  <2> SUFFICES ASSUME IInv, phase \notin {"CollectDepends", "Components"}
               PROVE  phase \in {"failed", "crashed"}
                        <=> \E t \in Node : Initial!Component(t) # {t} /\ ~project.static[t]
    BY DEF FailsOnBadCycle
  <2>1. SomeBadComponent <=> \E t \in Node : Initial!Component(t) # {t} /\ ~project.static[t]
    BY BadCycle DEF IInv
  <2>2. phase \in {"Final", "failed", "read", "done", "crashed"}
    BY DEF IInv, TypeInv
  <2> QED BY <2>1, <2>2 DEF IInv
<1> QED BY <1>1, Invariance, PTL

---------------------------------------------------------------------------
(* What breaking the cycles keeps, and what it does not add.                *)
LEMMA FinalEdge ==
  ASSUME TypeInv, Collected, pc = "done", NEW t \in Node, NEW m \in FinalDepends(t)
  PROVE  m \in Initial!Reachable(t)
<1> DEFINE c == TarjanComponents[t]
<1>1. /\ c \in 1..Len(Components) /\ t \in Components[c] /\ Components[c] \subseteq Node
      /\ ComponentGraph[c] \subseteq 1..(c - 1) /\ Len(Components) \in Nat
      /\ \A u \in Components[c] : u \in Initial!Reachable(t)
  BY ComponentsComputed, InitialFacts
<1>2. CASE t = TailOf(c)
  <2>1. PICK d \in ComponentGraph[c] : m = HeadOf(d)
    BY <1>2, FinalFacts
  <2>2. d \in 1..Len(Components)
    BY <1>1
  <2>3. PICK n \in Components[c] : \E w \in Wanted(n) : TarjanComponents[w] = d
    BY <1>1, ComponentsComputed
  <2>4. PICK w \in Wanted(n) : TarjanComponents[w] = d
    BY <2>3
  <2>5. w \in Initial!Reachable(t) /\ w \in Node
    BY <1>1, InitialFacts
  <2>6. m \in Components[d]
    BY <2>1, <2>2, HeadsAndTails
  <2>7. m \in Initial!Reachable(w)
    BY <2>4, <2>5, <2>6, InitialFacts
  <2> QED BY <2>5, <2>7, InitialFacts
<1>3. CASE t # TailOf(c)
  <2>1. m \in Components[c]
    BY <1>3, FinalFacts
  <2> QED BY <1>1, <2>1
<1> QED BY <1>2, <1>3

(* Breaking cycles makes no target wait for one it did not depend on.       *)
THEOREM NothingAdded == Spec => []NoNewDepends
<1>1. IInv => NoNewDepends
  <2> SUFFICES ASSUME IInv, FinalComputed, NEW t \in Node
               PROVE  Final!Reachable(t) \subseteq Initial!Reachable(t)
    BY DEF NoNewDepends
  <2>1. TypeInv /\ Collected /\ pc = "done" /\ ReadInv
    BY DEF IInv, FinalComputed
  <2> DEFINE T == Initial!Reachable(t)
  <2>2. t \in T /\ T \in SUBSET Node /\ \A k \in T : Initial!Reachable(k) \subseteq T
    BY <2>1, InitialFacts
  <2>3. \A k \in T : FinalDepends(k) \subseteq T
    <3> SUFFICES ASSUME NEW k \in T, NEW m \in FinalDepends(k) PROVE m \in T
      OBVIOUS
    <3>1. k \in Node
      BY <2>2
    <3>2. m \in Initial!Reachable(k)
      BY <2>1, <3>1, FinalEdge
    <3> QED BY <2>2, <3>2
  <2> HIDE DEF T
  <2>4. Final!Reachable(t) \subseteq T
    BY <2>1, <2>2, <2>3, FinalReachFacts
  <2> QED BY <2>4 DEF T
<1> QED BY <1>1, Invariance, PTL

(* Along the final graph the component does not go up, nor the number       *)
(* within a component down.                                                 *)
LEMMA FinalGoesDown ==
  ASSUME TypeInv, Collected, pc = "done", ReadInv, NEW t \in Node, NEW m \in Final!Reachable(t)
  PROVE  \/ TarjanComponents[m] < TarjanComponents[t]
         \/ TarjanComponents[m] = TarjanComponents[t] /\ m >= t
<1> DEFINE T == {u \in Node : \/ TarjanComponents[u] < TarjanComponents[t]
                              \/ TarjanComponents[u] = TarjanComponents[t] /\ u >= t}
<1>1. /\ Node \subseteq Nat /\ \A u \in Node : TarjanComponents[u] \in Nat
      /\ Len(Components) \in Nat
  BY ComponentsComputed
<1>2. t \in T /\ T \in SUBSET Node
  BY <1>1
<1>3. ASSUME NEW k \in T, NEW x \in FinalDepends(k) PROVE x \in T
  <2>1. k \in Node /\ x \in Node
    BY FinalFacts
  <2>2. \/ TarjanComponents[x] < TarjanComponents[k]
        \/ TarjanComponents[x] = TarjanComponents[k] /\ x > k
    <3> DEFINE c == TarjanComponents[k]
    <3>1. c \in 1..Len(Components) /\ ComponentGraph[c] \subseteq 1..(c - 1)
      BY <2>1, ComponentsComputed
    <3>2. CASE k = TailOf(c)
      <4>1. PICK d \in ComponentGraph[c] : x = HeadOf(d)
        BY <2>1, <3>2, FinalFacts
      <4>2. d \in 1..Len(Components) /\ d < c
        BY <1>1, <3>1
      <4>3. x \in Components[d]
        BY <4>1, <4>2, HeadsAndTails
      <4>4. TarjanComponents[x] = d
        BY <2>1, <4>2, <4>3, ComponentsComputed
      <4> QED BY <4>2, <4>4
    <3>3. CASE k # TailOf(c)
      <4>1. x \in Components[c] /\ x > k
        BY <2>1, <3>3, FinalFacts
      <4>2. TarjanComponents[x] = c
        BY <2>1, <3>1, <4>1, ComponentsComputed
      <4> QED BY <4>1, <4>2
    <3> QED BY <3>2, <3>3
  <2> QED BY <1>1, <2>1, <2>2
<1>4. \A k \in T : FinalDepends(k) \subseteq T
  BY <1>3
<1> HIDE DEF T
<1>5. Final!Reachable(t) \subseteq T
  BY <1>2, <1>4, FinalReachFacts
<1> QED BY <1>5 DEF T

LEMMA FinalAcyclic ==
  ASSUME TypeInv, Collected, pc = "done", ReadInv
  PROVE  Final!Acyclic
<1>1. /\ Node \subseteq Nat /\ \A u \in Node : TarjanComponents[u] \in Nat
      /\ Len(Components) \in Nat
  BY ComponentsComputed
<1>2. ASSUME NEW t \in Node PROVE t \notin FinalGraph[t] /\ Final!Component(t) = {t}
  <2>1. /\ t \in Final!Reachable(t) /\ Final!Reachable(t) \subseteq Node
        /\ FinalGraph[t] = FinalDepends(t)
    BY FinalReachFacts
  <2>2. \A m \in Final!Reachable(t) : t \in Final!Reachable(m) => m = t
    <3> SUFFICES ASSUME NEW m \in Final!Reachable(t), t \in Final!Reachable(m) PROVE m = t
      OBVIOUS
    <3>1. m \in Node
      BY <2>1
    <3>2. /\ \/ TarjanComponents[m] < TarjanComponents[t]
             \/ TarjanComponents[m] = TarjanComponents[t] /\ m >= t
          /\ \/ TarjanComponents[t] < TarjanComponents[m]
             \/ TarjanComponents[t] = TarjanComponents[m] /\ t >= m
      BY <3>1, FinalGoesDown
    <3> QED BY <1>1, <3>1, <3>2
  <2>3. Final!Component(t) = {t}
    BY <2>1, <2>2 DEF Final!Component
  <2>4. t \notin FinalDepends(t)
    <3> DEFINE c == TarjanComponents[t]
    <3>1. /\ c \in 1..Len(Components) /\ ComponentGraph[c] \subseteq 1..(c - 1)
      BY ComponentsComputed
    <3>2. CASE t = TailOf(c)
      <4> SUFFICES ASSUME NEW d \in ComponentGraph[c], t = HeadOf(d) PROVE FALSE
        BY <3>2, FinalFacts
      <4>1. d \in 1..Len(Components) /\ d # c
        BY <1>1, <3>1
      <4>2. t \in Components[d]
        BY <4>1, HeadsAndTails
      <4> QED BY <4>1, <4>2, ComponentsComputed
    <3>3. CASE t # TailOf(c)
      <4>1. PICK u \in Components[c] : u > t /\ FinalDepends(t) = {u}
        BY <3>3, FinalFacts
      <4>2. u \in Node
        BY <3>1, ComponentsComputed
      <4> QED BY <1>1, <4>1, <4>2
    <3> QED BY <3>2, <3>3
  <2> QED BY <2>1, <2>3, <2>4
<1>3. Final!Nodes = Node
  <2>1. FinalGraph = [t \in Node |-> FinalDepends(t)]
    BY DEF ReadInv
  <2> QED BY <2>1 DEF Final!Nodes
<1> QED BY <1>2, <1>3 DEF Final!Acyclic

(* Within a component everything from t on is reached from t.               *)
LEMMA FollowersReached ==
  ASSUME TypeInv, Collected, pc = "done", ReadInv, NEW t \in Node,
         NEW v \in Components[TarjanComponents[t]], t <= v
  PROVE  v \in Final!Reachable(t)
<1> DEFINE c == TarjanComponents[t]
           R == Final!Reachable(t)
           W == {u \in Components[c] : u \in R /\ u <= v}
<1>1. /\ c \in 1..Len(Components) /\ t \in Components[c] /\ Components[c] \subseteq Node
      /\ Node \subseteq Nat
  BY ComponentsComputed
<1>2. t \in R
  BY FinalReachFacts
<1>3. W # {} /\ W \in SUBSET Nat /\ v \in Nat /\ \A k \in W : k <= v
  BY <1>1, <1>2
<1>4. PICK w \in W : \A k \in W : k <= w
  <2> HIDE DEF W
  <2> QED BY <1>3, GreatestNumber
<1>5. w \in Components[c] /\ w \in R /\ w <= v /\ w \in Node /\ w \in Nat
  BY <1>1, <1>4
<1>6. TarjanComponents[w] = c
  BY <1>1, <1>5, ComponentsComputed
<1>7. CASE w = v
  BY <1>5, <1>7
<1>8. CASE w # v
  <2>1. w # TailOf(c)
    <3>1. v <= TailOf(c) /\ TailOf(c) \in Node
      BY <1>1, HeadsAndTails
    <3> QED BY <1>1, <1>3, <1>5, <1>8, <3>1
  <2>2. PICK u \in Components[c] : /\ u > w /\ \A x \in Components[c] : x > w => u <= x
                                   /\ FinalDepends(w) = {u}
    BY <1>5, <1>6, <2>1, FinalFacts
  <2>3. u \in R
    BY <1>5, <2>2, FinalReachFacts
  <2>4. u <= v
    BY <1>3, <1>5, <1>8, <2>2
  <2>5. u \in W
    BY <2>2, <2>3, <2>4
  <2>6. u <= w
    BY <1>4, <2>5
  <2>7. u \in Nat
    BY <1>1, <2>2
  <2> QED BY <1>5, <2>2, <2>6, <2>7
<1> QED BY <1>7, <1>8

(* A component that t's depends on is reached from t, all of it.            *)
LEMMA LowerReached ==
  ASSUME TypeInv, Collected, pc = "done", ReadInv, NEW t \in Node,
         NEW d \in ComponentGraph[TarjanComponents[t]], NEW v \in Components[d]
  PROVE  v \in Final!Reachable(t)
<1> DEFINE c == TarjanComponents[t]
           tail == TailOf(c)
           head == HeadOf(d)
<1>1. /\ c \in 1..Len(Components) /\ t \in Components[c] /\ Components[c] \subseteq Node
      /\ ComponentGraph[c] \subseteq 1..(c - 1) /\ Len(Components) \in Nat
  BY ComponentsComputed
<1>2. d \in 1..Len(Components)
  BY <1>1
<1>3. tail \in Components[c] /\ t <= tail /\ tail \in Node
  BY <1>1, HeadsAndTails
<1>4. TarjanComponents[tail] = c
  BY <1>1, <1>3, ComponentsComputed
<1>5. tail \in Final!Reachable(t)
  BY <1>3, FollowersReached
<1>6. head \in FinalDepends(tail)
  BY <1>3, <1>4, FinalFacts
<1>7. head \in Final!Reachable(t)
  BY <1>5, <1>6, FinalReachFacts
<1>8. head \in Components[d] /\ head <= v /\ head \in Node
  BY <1>2, HeadsAndTails, ComponentsComputed
<1>9. TarjanComponents[head] = d
  BY <1>2, <1>8, ComponentsComputed
<1>10. v \in Final!Reachable(head)
  BY <1>8, <1>9, FollowersReached
<1> QED BY <1>7, <1>10, FinalReachFacts

(* No cycles are left, and a target is built after all it wants, but for    *)
(* the cycles of static libraries.                                          *)
THEOREM BuildOrderIsSafe == Spec => []SafeBuildOrder
<1>1. IInv => SafeBuildOrder
  <2> SUFFICES ASSUME IInv, FinalComputed
               PROVE  /\ Final!Acyclic
                      /\ \A t \in Node : \A u \in Wanted(t) :
                           \/ u \in Final!Reachable(t)
                           \/ t \in Final!Reachable(u) /\ t \in Initial!Reachable(u)
    BY DEF SafeBuildOrder
  <2>1. TypeInv /\ Collected /\ pc = "done" /\ ReadInv
    BY DEF IInv, FinalComputed
  <2>2. ASSUME NEW t \in Node, NEW u \in Wanted(t)
        PROVE  \/ u \in Final!Reachable(t)
               \/ t \in Final!Reachable(u) /\ t \in Initial!Reachable(u)
    <3> DEFINE c == TarjanComponents[t]
               d == TarjanComponents[u]
    <3>1. /\ c \in 1..Len(Components) /\ t \in Components[c] /\ u \in Node
          /\ d \in 1..Len(Components) /\ u \in Components[d] /\ Node \subseteq Nat
      BY <2>1, ComponentsComputed
    <3>2. CASE d = c /\ t <= u
      BY <2>1, <3>1, <3>2, FollowersReached
    <3>3. CASE d = c /\ u <= t
      <4>1. t \in Final!Reachable(u)
        BY <2>1, <3>1, <3>3, FollowersReached
      <4>2. t \in Initial!Reachable(u)
        BY <2>1, <3>1, <3>3, InitialFacts
      <4> QED BY <4>1, <4>2
    <3>4. CASE d # c
      <4>1. d \in ComponentGraph[c]
        BY <2>1, <3>1, <3>4, ComponentsComputed
      <4> QED BY <2>1, <3>1, <4>1, LowerReached
    <3>5. t <= u \/ u <= t
      BY <3>1
    <3> QED BY <3>2, <3>3, <3>4, <3>5
  <2> QED BY <2>1, <2>2, FinalAcyclic
<1> QED BY <1>1, Invariance, PTL

(* Without a cycle the generator gets what was collected.                   *)
THEOREM AcyclicReproduced == Spec => []ReproducesAcyclic
<1>1. IInv => ReproducesAcyclic
  <2> SUFFICES ASSUME IInv, phase = "done", Initial!Acyclic, NEW t \in Node
               PROVE  TargetDependencies[t] = Wanted(t)
    BY DEF ReproducesAcyclic
  <2>1. TypeInv /\ Collected /\ pc = "done" /\ ReadInv /\ target = N + 1
    BY DEF IInv
  <2>2. /\ Node = 1..N /\ N \in Nat
        /\ \A n \in Node : /\ TarjanComponents[n] \in 1..Len(Components)
                           /\ \A m \in Wanted(n) : m \in Node
    BY <2>1, ComponentsComputed
  <2>3. t < target /\ TargetDependencies[t] = FinalDepends(t)
    <3>1. t < target
      BY <2>1, <2>2
    <3>2. FinalGraph[t] = FinalDepends(t)
      BY <2>1, FinalReachFacts
    <3> QED BY <2>1, <3>1, <3>2 DEF ReadInv
  <2>4. ASSUME NEW n \in Node
        PROVE  /\ Components[TarjanComponents[n]] = {n}
               /\ TailOf(TarjanComponents[n]) = n /\ HeadOf(TarjanComponents[n]) = n
               /\ n \notin Wanted(n)
    <3>1. Initial!Nodes = Node /\ [x \in Node |-> Range(InitialGraph[x])][n] = Wanted(n)
      BY <2>1 DEF Initial!Nodes, Collected
    <3>2. Initial!Component(n) = {n} /\ n \notin Wanted(n)
      BY <3>1 DEF Initial!Acyclic
    <3>3. Components[TarjanComponents[n]] = {n}
      BY <2>1, <3>2, InitialFacts
    <3>4. TailOf(TarjanComponents[n]) \in {n} /\ HeadOf(TarjanComponents[n]) \in {n}
      BY <2>1, <2>2, <3>3, HeadsAndTails
    <3> QED BY <3>2, <3>3, <3>4
  <2> DEFINE c == TarjanComponents[t]
  <2>5. FinalDepends(t) = {HeadOf(d) : d \in ComponentGraph[c]}
    BY <2>1, <2>4, FinalFacts
  <2>6. \A d : d \in ComponentGraph[c] <=> \E m \in Wanted(t) : TarjanComponents[m] = d
    <3>1. \A d : d \in ComponentGraph[c] <=>
                   d # c /\ \E n \in Components[c] : \E m \in Wanted(n) : TarjanComponents[m] = d
      BY <2>1, <2>2, ComponentsComputed
    <3>2. \A m \in Wanted(t) : TarjanComponents[m] # c
      <4> SUFFICES ASSUME NEW m \in Wanted(t), TarjanComponents[m] = c PROVE FALSE
        OBVIOUS
      <4>1. m \in Node /\ Components[c] = {m} /\ Components[c] = {t}
        BY <2>2, <2>4
      <4>2. m = t
        BY <4>1
      <4> QED BY <2>4, <4>2
    <3> QED BY <2>4, <3>1, <3>2
  <2>7. \A m \in Wanted(t) : HeadOf(TarjanComponents[m]) = m
    BY <2>2, <2>4
  <2>8. {HeadOf(d) : d \in ComponentGraph[c]} = Wanted(t)
    <3>1. ASSUME NEW x \in {HeadOf(d) : d \in ComponentGraph[c]} PROVE x \in Wanted(t)
      <4>1. PICK d \in ComponentGraph[c] : x = HeadOf(d)
        OBVIOUS
      <4>2. PICK m \in Wanted(t) : TarjanComponents[m] = d
        BY <2>6
      <4> QED BY <2>7, <4>1, <4>2
    <3>2. ASSUME NEW m \in Wanted(t) PROVE m \in {HeadOf(d) : d \in ComponentGraph[c]}
      <4>1. TarjanComponents[m] \in ComponentGraph[c] /\ HeadOf(TarjanComponents[m]) = m
        BY <2>6, <2>7
      <4> QED BY <4>1
    <3> QED BY <3>1, <3>2
  <2> QED BY <2>3, <2>5, <2>8
<1> QED BY <1>1, Invariance, PTL

(* What the variables hold in each phase.                                   *)
THEOREM TypeCorrect == Spec => []TypeOK
<1>1. IInv => TypeOK
  <2> SUFFICES ASSUME IInv PROVE TypeOK
    OBVIOUS
  <2>1. FinalGraph \in IF phase \in {"read", "done"} THEN [Node -> SUBSET Node] ELSE {<<>>}
    <3>1. CASE phase \in {"read", "done"}
      <4>1. TypeInv /\ Collected /\ pc = "done" /\ FinalGraph = [t \in Node |-> FinalDepends(t)]
        BY <3>1 DEF IInv, ReadInv
      <4>2. \A t \in Node : FinalDepends(t) \subseteq Node
        BY <4>1, FinalFacts
      <4> QED BY <3>1, <4>1, <4>2
    <3>2. CASE phase \notin {"read", "done"}
      BY <3>2 DEF IInv
    <3> QED BY <3>1, <3>2
  <2>2. TargetDependencies \in Seq(SUBSET Node)
    <3>1. CASE phase \in {"read", "done"}
      BY <3>1 DEF IInv, ReadInv
    <3>2. CASE phase \notin {"read", "done"}
      BY <3>2 DEF IInv
    <3> QED BY <3>1, <3>2
  <2> QED BY <2>1, <2>2 DEF IInv, TypeInv, TypeOK
<1> QED BY <1>1, Invariance, PTL
=============================================================================
