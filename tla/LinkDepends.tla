----------------------------- MODULE LinkDepends -----------------------------
(***************************************************************************)
(* cmComputeLinkDepends: the order of the items on the link line of one    *)
(* target.  The items are collected breadth first, along with constraints  *)
(* on their order; shared libraries that others need are added; for items  *)
(* whose dependencies are not known constraints are inferred from the      *)
(* lists they appear in; the strongly connected components (module         *)
(* ComponentGraph) are then listed in a safe order.                        *)
(*                                                                         *)
(* An item is known when it is a target or has a variable                  *)
(* <item>_LIB_DEPENDS.  Its list is what the code would follow: the link   *)
(* interface, the link implementation or the variable, cleaned of what is  *)
(* meant for other configurations; sharedDeps is the other list of a link  *)
(* interface.  Entries are numbered from 1 here, from 0 in the code.       *)
(***************************************************************************)
EXTENDS Integers, Sequences, FiniteSets, Functions

CONSTANTS Items,     \* what can be linked to, the linked target included
          Target,    \* the target to be linked
          Links      \* the projects that are looked at, see LinksAssumption

ASSUME LinksAssumption ==
  /\ Target \in Items
  /\ \A l \in Links :
       /\ l.libraries \in [Items -> Seq(Items)]
       /\ l.known \in SUBSET Items /\ Target \in l.known
       /\ \A x \in Items \ l.known : l.libraries[x] = <<>>
       /\ l.sharedDeps \in [l.known -> Seq(Items)]

VARIABLES
  link,                  \* the project
  EntryList,             \* sequence of records [Item, IsSharedDep]
  BFSQueue,              \* entries whose list is to be followed
  depender, libs,        \* the entry, or 0, whose list is followed, what is left of it,
  dependSets,            \*   and what it says of the unknown items seen in it
  SharedDepQueue,        \* records [Item, DependerIndex]
  InferredDependSets,    \* for each entry the sets found for it
  EntryConstraintGraph,  \* for each entry the entries that must precede it
  ComponentVisited,
  FinalLinkEntries,      \* the link line, as a sequence of entries
  visits,                \* the calls of VisitComponent, innermost first
  next,                  \* the component OrderLinkEntires visits next
  phase,
  TarjanVisited, TarjanComponents, Root, VisitIndex, TarjanStack, TarjanWalkId,
  TarjanIndex, Components, ComponentGraph, calls, i, pc

\* The elements of a set of numbers, the k-th smallest in place k.
Ascending(S) == [k \in 1..Cardinality(S) |-> CHOOSE x \in S : Cardinality({y \in S : y <= x}) = k]

\* CleanConstraintGraph: the edges of each node are sorted and unique.
CleanConstraintGraph == [k \in 1..Len(EntryConstraintGraph) |-> Ascending(EntryConstraintGraph[k])]

ccg == INSTANCE ComponentGraph WITH InputGraph <- CleanConstraintGraph, Graphs <- {}

ccgVars == <<TarjanVisited, TarjanComponents, Root, VisitIndex, TarjanStack, TarjanWalkId,
             TarjanIndex, Components, ComponentGraph, calls, i, pc>>
entries == <<EntryList, BFSQueue, InferredDependSets, EntryConstraintGraph>>
adding == <<depender, libs, dependSets>>
order == <<ComponentVisited, FinalLinkEntries, visits, next>>
vars == <<link, entries, adding, SharedDepQueue, order, phase, ccgVars>>

NoSets == [j \in {} |-> {}]

Init ==
  /\ link \in Links
  /\ EntryList = <<>>
  /\ BFSQueue = <<>>
  /\ depender = 0 /\ libs = <<>> /\ dependSets = NoSets
  /\ SharedDepQueue = <<>>
  /\ InferredDependSets = <<>>
  /\ EntryConstraintGraph = <<>>
  /\ ComponentVisited = {}
  /\ FinalLinkEntries = <<>>
  /\ visits = <<>>
  /\ next = 1
  /\ phase = "Target"
  /\ ccg!Unconstructed

-----------------------------------------------------------------------------
(* The entries.                                                            *)

HasEntry(item) == \E k \in 1..Len(EntryList) : EntryList[k].Item = item

\* Mistake: the entry is not marked.
AllocateLinkEntry_Unmarked(item, shared) ==
  [index |-> Len(EntryList) + 1,
   list |-> Append(EntryList, [Item |-> item, IsSharedDep |-> FALSE]),
   infer |-> Append(InferredDependSets, {}),
   graph |-> Append(EntryConstraintGraph, {})]

AllocateLinkEntry(item, shared) ==
  [index |-> Len(EntryList) + 1,
   list |-> Append(EntryList, [Item |-> item, IsSharedDep |-> shared]),
   infer |-> Append(InferredDependSets, {}),
   graph |-> Append(EntryConstraintGraph, {})]

\* The entry of an item, allocated if need be.
LinkEntry(item, shared) ==
  IF HasEntry(item)
  THEN [index |-> CHOOSE k \in 1..Len(EntryList) : EntryList[k].Item = item,
        list |-> EntryList, infer |-> InferredDependSets, graph |-> EntryConstraintGraph]
  ELSE AllocateLinkEntry(item, shared)

FollowTarget ==
  /\ phase = "Target"
  /\ libs' = link.libraries[Target]
  /\ phase' = "AddLinkEntries"
  /\ UNCHANGED <<link, entries, depender, dependSets, SharedDepQueue, order, ccgVars>>

Shareds(k) ==
  LET deps == IF EntryList'[k].Item \in link.known THEN link.sharedDeps[EntryList'[k].Item] ELSE <<>>
  IN  [d \in 1..Len(deps) |-> [Item |-> deps[d], DependerIndex |-> k]]

FollowLinkEntry ==
  /\ phase = "BFS" /\ BFSQueue # <<>>
  /\ BFSQueue' = Tail(BFSQueue)
  /\ UNCHANGED <<link, EntryList, InferredDependSets, EntryConstraintGraph, dependSets, order, ccgVars>>
  /\ depender' = Head(BFSQueue)
  /\ libs' = link.libraries[EntryList[Head(BFSQueue)].Item]
  /\ SharedDepQueue' = SharedDepQueue \o Shareds(Head(BFSQueue))
  /\ phase' = "AddLinkEntries"

SkipTarget ==
  /\ phase = "AddLinkEntries" /\ libs # <<>> /\ Head(libs) = Target
  /\ libs' = Tail(libs)
  /\ UNCHANGED <<link, entries, depender, dependSets, SharedDepQueue, order, phase, ccgVars>>

\* A dependee of depender, if there is one, and possibly of the unknown items
\* before it in the list.  An item that has an entry is not followed again.
AddLinkEntry ==
  /\ phase = "AddLinkEntries" /\ libs # <<>> /\ Head(libs) # Target
  /\ LET item == Head(libs)
         S == LinkEntry(item, FALSE)
         seen == DOMAIN dependSets
         infers == IF item \in link.known THEN {} ELSE {S.index}
     IN  /\ EntryList' = S.list
         /\ InferredDependSets' = S.infer
         /\ EntryConstraintGraph' = [S.graph EXCEPT ![S.index] = @ \cup ({depender} \ {0})]
         /\ BFSQueue' = IF HasEntry(item) \/ item \notin link.known
                         THEN BFSQueue ELSE Append(BFSQueue, S.index)
         /\ dependSets' = [j \in seen \cup infers |->
                            IF j \in seen THEN dependSets[j] \cup ({S.index} \ {j}) ELSE {}]
  /\ libs' = Tail(libs)
  /\ UNCHANGED <<link, depender, SharedDepQueue, order, phase, ccgVars>>

StoreDependSets ==
  /\ phase = "AddLinkEntries" /\ libs = <<>>
  /\ InferredDependSets' =
       [j \in 1..Len(EntryList) |->
          InferredDependSets[j] \cup (IF j \in DOMAIN dependSets THEN {dependSets[j]} ELSE {})]
  /\ dependSets' = NoSets /\ depender' = 0
  /\ phase' = "BFS"
  /\ UNCHANGED <<link, EntryList, BFSQueue, EntryConstraintGraph, libs, SharedDepQueue, order, ccgVars>>

EndOfBFS ==
  /\ phase = "BFS" /\ BFSQueue = <<>>
  /\ phase' = "Shared"
  /\ UNCHANGED <<link, entries, adding, SharedDepQueue, order, ccgVars>>

\* An item that has an entry is queued with its dependencies all the same.
HandleSharedDependency ==
  /\ phase = "Shared" /\ SharedDepQueue # <<>>
  /\ LET dep == Head(SharedDepQueue)
         S == LinkEntry(dep.Item, TRUE)
     IN  /\ EntryList' = S.list
         /\ InferredDependSets' = S.infer
         /\ EntryConstraintGraph' = [S.graph EXCEPT ![S.index] = @ \cup {dep.DependerIndex}]
         /\ SharedDepQueue' = Tail(SharedDepQueue) \o Shareds(S.index)
  /\ UNCHANGED <<link, BFSQueue, adding, order, phase, ccgVars>>

-----------------------------------------------------------------------------
(* Constraints and order.                                                  *)

\* Mistake: what follows the entry in any list.
Common_Any(k) == UNION InferredDependSets[k]

\* What follows entry k in every list it is in; nothing is inferred if no
\* list has it, as for known items and dependent shared libraries.
Common(k) ==
  IF InferredDependSets[k] = {} THEN {}
  ELSE {j \in UNION InferredDependSets[k] : \A S \in InferredDependSets[k] : j \in S}

InferDependencies ==
  /\ phase = "Shared" /\ SharedDepQueue = <<>>
  /\ EntryConstraintGraph' =
       [j \in 1..Len(EntryList) |->
          EntryConstraintGraph[j] \cup {k \in 1..Len(EntryList) : j \in Common(k)}]
  /\ phase' = "Components"
  /\ UNCHANGED <<link, EntryList, BFSQueue, InferredDependSets, adding, SharedDepQueue, order, ccgVars>>

IdentifyComponents ==
  /\ phase = "Components"
  /\ UNCHANGED <<link, entries, adding, SharedDepQueue, order, phase>>
  /\ ccg!Next

ComponentsIdentified ==
  /\ phase = "Components" /\ pc = "done"
  /\ phase' = "Order"
  /\ UNCHANGED <<link, entries, adding, SharedDepQueue, order, ccgVars>>

\* A call of VisitComponent(c); rest are the calls it returns to.
VisitComponent(c, rest) ==
  IF c \in ComponentVisited
  THEN visits' = rest /\ UNCHANGED ComponentVisited
  ELSE /\ ComponentVisited' = ComponentVisited \cup {c}
       /\ visits' = <<[component |-> c, edges |-> ComponentGraph[c]]>> \o rest

OrderLinkEntires ==
  /\ phase = "Order" /\ visits = <<>> /\ next <= Len(ComponentGraph)
  /\ VisitComponent(next, <<>>)
  /\ next' = next + 1
  /\ UNCHANGED <<link, entries, adding, SharedDepQueue, FinalLinkEntries, phase, ccgVars>>

\* Mistake: the same neighbor is visited again on return.
VisitNeighbor_KeepsEdge ==
  /\ phase = "Order" /\ visits # <<>>
  /\ \E c \in Head(visits).edges : VisitComponent(c, visits)
  /\ UNCHANGED <<link, entries, adding, SharedDepQueue, next, FinalLinkEntries, phase, ccgVars>>

\* The neighbors are visited in any order: the code has one that the graph
\* of module ComponentGraph does not keep.
VisitNeighbor ==
  /\ phase = "Order" /\ visits # <<>>
  /\ \E c \in Head(visits).edges :
       VisitComponent(c, <<[Head(visits) EXCEPT !.edges = @ \ {c}]>> \o Tail(visits))
  /\ UNCHANGED <<link, entries, adding, SharedDepQueue, next, FinalLinkEntries, phase, ccgVars>>

\* Mistake: every component is listed once.
Emitted_Once(C) == Ascending(C)

\* A component of several items is listed twice.
Emitted(C) == IF Cardinality(C) = 1 THEN Ascending(C) ELSE Ascending(C) \o Ascending(C)

\* Mistake: the component is put in front.
EmitComponent_Prepends ==
  /\ phase = "Order" /\ visits # <<>> /\ Head(visits).edges = {}
  /\ FinalLinkEntries' = Emitted(Components[Head(visits).component]) \o FinalLinkEntries
  /\ visits' = Tail(visits)
  /\ UNCHANGED <<link, entries, adding, SharedDepQueue, ComponentVisited, next, phase, ccgVars>>

EmitComponent ==
  /\ phase = "Order" /\ visits # <<>> /\ Head(visits).edges = {}
  /\ FinalLinkEntries' = FinalLinkEntries \o Emitted(Components[Head(visits).component])
  /\ visits' = Tail(visits)
  /\ UNCHANGED <<link, entries, adding, SharedDepQueue, ComponentVisited, next, phase, ccgVars>>

LineComplete ==
  /\ phase = "Order" /\ visits = <<>> /\ next > Len(ComponentGraph)
  /\ phase' = "done"
  /\ UNCHANGED <<link, entries, adding, SharedDepQueue, order, ccgVars>>

Next ==
  \/ FollowTarget \/ FollowLinkEntry \/ EndOfBFS
  \/ SkipTarget \/ AddLinkEntry \/ StoreDependSets
  \/ HandleSharedDependency
  \/ InferDependencies
  \/ IdentifyComponents \/ ComponentsIdentified
  \/ OrderLinkEntires \/ VisitNeighbor \/ EmitComponent \/ LineComplete

Spec == Init /\ [][Next]_vars /\ WF_vars(Next)

-----------------------------------------------------------------------------
(* Properties.                                                             *)

\* The values the variables take; every item has at most one entry.
TypeOK ==
  /\ link \in Links
  /\ EntryList \in Seq([Item : Items, IsSharedDep : BOOLEAN])
  /\ \A a, b \in 1..Len(EntryList) : EntryList[a].Item = EntryList[b].Item => a = b
  /\ LET Index == 1..Len(EntryList)
     IN  /\ BFSQueue \in Seq(Index)
         /\ SharedDepQueue \in Seq([Item : Items, DependerIndex : Index])
         /\ InferredDependSets \in [Index -> SUBSET SUBSET Index]
         /\ EntryConstraintGraph \in [Index -> SUBSET Index]
         /\ FinalLinkEntries \in Seq(Index)
         /\ \A a \in 1..Len(visits) : visits[a].component \in ComponentVisited
         /\ ComponentVisited \subseteq 1..Len(Components)
         /\ next \in 1..(Len(Components) + 1)
  /\ phase \in {"Target", "AddLinkEntries", "BFS", "Shared", "Components", "Order", "done"}

Listed(x) == Range(link.libraries[x]) \ {Target}

\* The items that are linked to, directly or through the lists of others.
LinkGraph == INSTANCE Condensation WITH Edges <- [x \in Items |-> Range(link.libraries[x])]
Linked == LinkGraph!Reachable(Target) \ {Target}

\* The shared libraries that these need, directly or through others.
SharedDepsOf(x) == IF x \in link.known THEN Range(link.sharedDeps[x]) ELSE {}
SharedGraph == INSTANCE Condensation WITH Edges <- [x \in Items |-> SharedDepsOf(x)]
Shared == UNION {SharedGraph!Reachable(y) : y \in UNION {SharedDepsOf(x) : x \in Linked}}

\* The lists that are followed, and what comes after an item in one of them.
Lists == {link.libraries[x] : x \in {Target} \cup Linked}
FollowSet(x, list) ==
  {list[q] : q \in {r \in 1..Len(list) : \E p \in 1..r : list[p] = x}} \ {x, Target}

\* The pairs of items of which the first has to precede the second.
Precedes ==
  LET listed == {c \in Linked \X Linked : c[2] \in Listed(c[1])}
      needed == {c \in (Linked \cup Shared) \X Shared : c[2] \in SharedDepsOf(c[1])}
      inferred == {c \in (Linked \ link.known) \X Linked :
                     \A list \in Lists : c[1] \in Range(list) => c[2] \in FollowSet(c[1], list)}
  IN  listed \cup needed \cup inferred

\* The graph that is ordered has these constraints and no other: those of
\* the lists, and for an unknown item those that the intersection of its
\* follow sets gives (cmComputeLinkDepends.cxx:79).
ConstraintsExact ==
  phase = "Components" =>
    Precedes = {<<EntryList[p[1]].Item, EntryList[p[2]].Item>> :
                  p \in {q \in (1..Len(EntryList)) \X (1..Len(EntryList)) :
                           q[1] \in EntryConstraintGraph[q[2]]}}

\* The link line has what is linked and nothing else; only what is there for
\* other shared libraries' sake is marked (147, "encountered and not
\* included in the interface").
LineIsComplete ==
  phase = "done" =>
    /\ {EntryList[k].Item : k \in Range(FinalLinkEntries)} = Linked \cup Shared
    /\ \A k \in 1..Len(EntryList) : EntryList[k].IsSharedDep <=> EntryList[k].Item \notin Linked

Positions(x) == {p \in 1..Len(FinalLinkEntries) : EntryList[FinalLinkEntries[p]].Item = x}

\* The pairs of items that each have to precede the other, along the pairs of P.
LeadsTo(P, x, y) == \A S \in SUBSET Items : x \in S /\ (\A c \in P : c[1] \in S => c[2] \in S) => y \in S
Cyclic(P) == {c \in Items \X Items : c[1] # c[2] /\ LeadsTo(P, c[1], c[2]) /\ LeadsTo(P, c[2], c[1])}

\* Every constraint holds for all places an item is listed at.  The items
\* of a cycle are listed twice, so that each is there before and after the
\* others; any other item is listed once.
SafeLine ==
  phase = "done" =>
    LET precedes == Precedes
        cyclic == Cyclic(precedes)
    IN  /\ \A c \in precedes :
             IF c \in cyclic
             THEN \E p \in Positions(c[1]), q \in Positions(c[2]) : p < q
             ELSE \A p \in Positions(c[1]), q \in Positions(c[2]) : p < q \/ c[1] = c[2]
        /\ \A x \in Linked \cup Shared :
             Cardinality(Positions(x)) = IF \E y \in Items : <<x, y>> \in cyclic THEN 2 ELSE 1

\* If the order in which the items were found satisfies the constraints it
\* is the order of the line: "This should preserve the original order when
\* no constraints disallow it." (cmComputeLinkDepends.cxx:709)
KeepsSafeOrder ==
  phase = "done" /\ (\A k \in 1..Len(EntryList) : EntryConstraintGraph[k] \subseteq 1..k)
    => FinalLinkEntries = [k \in 1..Len(EntryList) |-> k]

\* The search of dependent shared libraries, "processed in their own BFS"
\* (cmComputeLinkDepends.cxx:148), and all else come to an end.
Terminates == <>(phase = "done")
=============================================================================
