---------------------------- MODULE TargetDepends ----------------------------
(***************************************************************************)
(* cmComputeTargetDepends, as cmGlobalGenerator::Generate calls it: the    *)
(* dependencies between the targets of a project are collected, their      *)
(* strongly connected components computed (module ComponentGraph), the     *)
(* cycles among static libraries broken, and the result handed to the      *)
(* generator target by target.                                             *)
(*                                                                         *)
(* An adjacency list of the final graph is a set, as it is for its only    *)
(* reader, GetTargetDirectDepends.  Targets are numbered from 1 here, from *)
(* 0 in the code.                                                          *)
(***************************************************************************)
EXTENDS Integers, Sequences, FiniteSets, Functions

CONSTANTS N,          \* the number of targets
          Names,      \* the names targets have and link to
          Projects    \* the projects that are looked at, see ProjectsAssumption

Node == 1..N

ASSUME NumberAssumption == N \in Nat

\* Name and directory of each target, whether it is a static library, what it
\* links to and what utilities it has, by name and in the order in which they
\* are gone through, and the target that cmGlobalGenerator::TotalTargets has
\* for a name.
ASSUME ProjectsAssumption ==
  \A p \in Projects :
    /\ p.name \in [Node -> Names]
    /\ DOMAIN p.directory = Node
    /\ \A t, u \in Node : p.name[t] = p.name[u] /\ p.directory[t] = p.directory[u] => t = u
    /\ p.static \in [Node -> BOOLEAN]
    /\ p.links \in [Node -> Seq(Names)]
    /\ p.utilities \in [Node -> Seq(Names)]
    /\ DOMAIN p.total = {p.name[t] : t \in Node}
    /\ \A m \in DOMAIN p.total : p.total[m] \in Node /\ p.name[p.total[m]] = m

VARIABLES
  project,
  InitialGraph, FinalGraph,
  TargetDependencies,    \* of cmGlobalGenerator, for the targets read so far
  target,                \* that CollectDepends or Generate is at, 0 before the first
  emitted, names,        \* of CollectTargetDepends, the names it has not come to yet
  phase,
  TarjanVisited, TarjanComponents, Root, VisitIndex, TarjanStack, TarjanWalkId,
  TarjanIndex, Components, ComponentGraph, calls, i, pc

ccg == INSTANCE ComponentGraph WITH InputGraph <- InitialGraph, Graphs <- {}

ccgVars == <<TarjanVisited, TarjanComponents, Root, VisitIndex, TarjanStack, TarjanWalkId,
             TarjanIndex, Components, ComponentGraph, calls, i, pc>>
vars == <<project, InitialGraph, FinalGraph, TargetDependencies, target, emitted, names,
          phase, ccgVars>>

Init ==
  /\ project \in Projects
  /\ InitialGraph = [t \in Node |-> <<>>]
  /\ FinalGraph = <<>>
  /\ TargetDependencies = <<>>
  /\ target = 0
  /\ emitted = {} /\ names = <<>>
  /\ phase = "CollectDepends"
  /\ ccg!Unconstructed

-----------------------------------------------------------------------------
\* The targets a name may stand for: that of the depender's directory if there
\* is one, else the one known globally, else none.
FindTarget(t, name) ==
  LET local == {u \in Node : project.name[u] = name /\ project.directory[u] = project.directory[t]}
  IN  IF local # {} THEN local
      ELSE IF name \in DOMAIN project.total THEN {project.total[name]} ELSE {}

\* Mistake: the utilities are left out.
ListedNames_NoUtilities(t) == project.links[t]

ListedNames(t) == project.links[t] \o project.utilities[t]

\* CollectDepends comes to the next target, which should not depend on itself.
CollectTargetDepends ==
  /\ phase = "CollectDepends" /\ names = <<>> /\ target < N
  /\ target' = target + 1
  /\ emitted' = {project.name[target + 1]}
  /\ names' = ListedNames(target + 1)
  /\ UNCHANGED <<project, InitialGraph, FinalGraph, TargetDependencies, phase, ccgVars>>

NextName ==
  /\ phase = "CollectDepends" /\ names # <<>>
  /\ names' = Tail(names)
  /\ emitted' = emitted \cup {Head(names)}
  /\ UNCHANGED <<project, FinalGraph, TargetDependencies, target, phase, ccgVars>>

AddTargetDepend ==
  /\ NextName
  /\ Head(names) \notin emitted
  /\ \E dependee \in FindTarget(target, Head(names)) :
       InitialGraph' = [InitialGraph EXCEPT ![target] = Append(@, dependee)]

\* The name has been emitted before, or is not that of a target.
SkipName ==
  /\ NextName
  /\ Head(names) \in emitted \/ FindTarget(target, Head(names)) = {}
  /\ UNCHANGED InitialGraph

DependsCollected ==
  /\ phase = "CollectDepends" /\ names = <<>> /\ target = N
  /\ phase' = "Components"
  /\ UNCHANGED <<project, InitialGraph, FinalGraph, TargetDependencies, target, emitted, names, ccgVars>>

IdentifyComponents ==
  /\ phase = "Components"
  /\ ccg!Next
  /\ UNCHANGED <<project, FinalGraph, TargetDependencies, target, emitted, names, phase>>

\* Mistake: one static library is enough.
BadComponent_NoStatic(c) ==
  Cardinality(Components[c]) >= 2 /\ \A t \in Components[c] : ~project.static[t]

\* A component of several targets that are not all static libraries.
BadComponent(c) ==
  Cardinality(Components[c]) >= 2 /\ \E t \in Components[c] : ~project.static[t]

CheckComponents ==
  /\ phase = "Components" /\ pc = "done"
  /\ phase' = IF \E c \in 1..Len(Components) : BadComponent(c) THEN "failed" ELSE "Final"
  /\ UNCHANGED <<project, InitialGraph, FinalGraph, TargetDependencies, target, emitted, names, ccgVars>>

HeadOf(c) == CHOOSE t \in Components[c] : \A u \in Components[c] : t <= u
TailOf(c) == CHOOSE t \in Components[c] : \A u \in Components[c] : u <= t

\* Mistake: the dependee's tail takes the place of its head.
FinalDepends_Tails(t) ==
  LET c == TarjanComponents[t]
  IN  IF t = TailOf(c)
      THEN {TailOf(d) : d \in ComponentGraph[c]}
      ELSE {CHOOSE u \in Components[c] : u > t /\ \A v \in Components[c] : v > t => u <= v}

\* Mistake: all components found earlier count as dependees.
FinalDepends_Earlier(t) ==
  LET c == TarjanComponents[t]
  IN  IF t = TailOf(c)
      THEN {HeadOf(d) : d \in 1..(c-1)}
      ELSE {CHOOSE u \in Components[c] : u > t /\ \A v \in Components[c] : v > t => u <= v}

\* In a component a target depends on the one that follows it, the last one
\* on the first of each component that has to come before.
FinalDepends(t) ==
  LET c == TarjanComponents[t]
  IN  IF t = TailOf(c)
      THEN {HeadOf(d) : d \in ComponentGraph[c]}
      ELSE {CHOOSE u \in Components[c] : u > t /\ \A v \in Components[c] : v > t => u <= v}

ComputeFinalDepends ==
  /\ phase = "Final"
  /\ FinalGraph' = [t \in Node |-> FinalDepends(t)]
  /\ phase' = "read" /\ target' = 1
  /\ UNCHANGED <<project, InitialGraph, TargetDependencies, emitted, names, ccgVars>>

\* The generator does not look at what Compute() returns: after a failure it
\* reads a graph that has not been allocated.  (A component that is
\* bad has targets, so that there is something to read.)
ReadAfterFailure ==
  /\ phase = "failed"
  /\ phase' = "crashed"
  /\ UNCHANGED <<project, InitialGraph, FinalGraph, TargetDependencies, target, emitted, names, ccgVars>>

GetTargetDirectDepends ==
  /\ phase = "read" /\ target <= N
  /\ TargetDependencies' = Append(TargetDependencies, FinalGraph[target])
  /\ target' = target + 1
  /\ UNCHANGED <<project, InitialGraph, FinalGraph, emitted, names, phase, ccgVars>>

AllRead ==
  /\ phase = "read" /\ target > N
  /\ phase' = "done"
  /\ UNCHANGED <<project, InitialGraph, FinalGraph, TargetDependencies, target, emitted, names, ccgVars>>

Next ==
  \/ CollectTargetDepends \/ AddTargetDepend \/ SkipName \/ DependsCollected
  \/ IdentifyComponents \/ CheckComponents
  \/ ComputeFinalDepends
  \/ GetTargetDirectDepends \/ AllRead \/ ReadAfterFailure

Spec == Init /\ [][Next]_vars

-----------------------------------------------------------------------------
(* Properties.                                                             *)

\* What the graphs hold in each phase.
TypeOK ==
  /\ project \in Projects
  /\ InitialGraph \in [Node -> Seq(Node)]
  /\ FinalGraph \in IF phase \in {"read", "done"} THEN [Node -> SUBSET Node] ELSE {<<>>}
  /\ TargetDependencies \in Seq(SUBSET Node)
  /\ target \in 0..(N+1)
  /\ emitted \subseteq Names /\ names \in Seq(Names)
  /\ phase \in {"CollectDepends", "Components", "Final", "failed", "read", "done", "crashed"}

Initial == INSTANCE Condensation WITH Edges <- [t \in Node |-> Range(InitialGraph[t])]
Final == INSTANCE Condensation WITH Edges <- FinalGraph

FinalComputed == phase \in {"read", "done"}

\* The targets that t links to or has as a utility, by their names.
Wanted(t) ==
  UNION {FindTarget(t, name) :
           name \in (Range(project.links[t]) \cup Range(project.utilities[t])) \ {project.name[t]}}

\* "no cycles are left" (cmComputeTargetDepends.cxx:34), and a target is
\* built after all it wants, but for the cycles of static libraries, of
\* which it says "we must preserve all other dependencies passing through
\* the corresponding strongly connected component" (43).
SafeBuildOrder ==
  FinalComputed =>
    /\ Final!Acyclic
    /\ \A t \in Node : \A u \in Wanted(t) :
         \/ u \in Final!Reachable(t)
         \/ t \in Final!Reachable(u) /\ t \in Initial!Reachable(u)

\* Breaking cycles makes no target wait for one it did not depend on.
NoNewDepends == FinalComputed => \A t \in Node : Final!Reachable(t) \subseteq Initial!Reachable(t)

\* Without a cycle the generator gets what was collected (66): "In most
\* cases this will reproduce the original dependencies."
ReproducesAcyclic ==
  phase = "done" /\ Initial!Acyclic =>
    \A t \in Node : TargetDependencies[t] = Wanted(t)

\* Compute() fails for a cycle through a target that is not a static
\* library, and for nothing else.
FailsOnBadCycle ==
  phase \notin {"CollectDepends", "Components"} =>
    (phase \in {"failed", "crashed"}
       <=> \E t \in Node : Initial!Component(t) # {t} /\ ~project.static[t])

\* What the generator reads has been computed: "Get its final dependencies"
\* (cmComputeTargetDepends.cxx:155).
ReadsFinalDepends == phase # "crashed"
=============================================================================
