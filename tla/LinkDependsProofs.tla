------------------------- MODULE LinkDependsProofs -------------------------
(* Proofs about LinkDepends, for all items and all projects.  What is known *)
(* of the components of the constraint graph is taken from the proofs about *)
(* ComponentGraph.                                                          *)
EXTENDS LinkDepends, SequenceTheorems, FiniteSetTheorems, TLAPS

CGP == INSTANCE ComponentGraphProofs WITH InputGraph <- CleanConstraintGraph, Graphs <- {}

---------------------------------------------------------------------------
(* The inductive invariant.                                                 *)

Index == 1..Len(EntryList)
ItemOf == [k \in Index |-> EntryList[k].Item]
EntryItems == {ItemOf[k] : k \in Index}
Entries(S) == {k \in Index : ItemOf[k] \in S}

\* The item whose list is followed, the list, and how much of it has been.
Depender == IF depender = 0 THEN Target ELSE ItemOf[depender]
Following == link.libraries[Depender]
Done == Len(Following) - Len(libs)

Waiting == {BFSQueue[a] : a \in 1..Len(BFSQueue)}
Followed ==
  ({Target} \cup {ItemOf[k] : k \in Index \ Waiting})
    \ (IF phase \in {"Target", "AddLinkEntries"} THEN {Depender} ELSE {})

\* What the lists that have been followed so far, or in part, say.
Said == [x \in {Target} \cup EntryItems |->
           IF x \in Followed THEN Range(link.libraries[x])
           ELSE IF phase = "AddLinkEntries" /\ x = Depender THEN {Following[q] : q \in 1..Done}
           ELSE {}]

FollowUpTo(x, list, n) ==
  {list[q] : q \in {r \in 1..n : \E p \in 1..r : list[p] = x}} \ {x, Target}

Dependency == [Item : Items, DependerIndex : Index]

TypeInv ==
  /\ link \in Links
  /\ EntryList \in Seq([Item : Items, IsSharedDep : BOOLEAN])
  /\ \A j, k \in Index : ItemOf[j] = ItemOf[k] => j = k
  /\ SharedDepQueue \in Seq(Dependency)
  /\ \A a \in 1..Len(SharedDepQueue) :
       SharedDepQueue[a].Item \in SharedDepsOf(ItemOf[SharedDepQueue[a].DependerIndex])
  /\ InferredDependSets \in [Index -> SUBSET SUBSET Index]
  /\ EntryConstraintGraph \in [Index -> SUBSET Index]
  /\ phase \in {"Target", "AddLinkEntries", "BFS", "Shared", "Components", "Order", "done"}

(* While the items are collected: what has been said of an item's place is  *)
(* in the graph, and what of unknown items in their sets.                   *)
QueueInv ==
  /\ BFSQueue \in Seq(Index)
  /\ \A a, b \in 1..Len(BFSQueue) : BFSQueue[a] = BFSQueue[b] => a = b
  /\ depender \in {0} \cup Index /\ depender \notin Waiting
  /\ \A k \in Waiting : ItemOf[k] \in link.known
  /\ phase # "AddLinkEntries" => depender = 0 /\ libs = <<>>
  /\ phase = "AddLinkEntries" =>
       /\ libs \in Seq(Items) /\ Len(libs) <= Len(Following)
       /\ \A q \in 1..Len(libs) : libs[q] = Following[Done + q]
  /\ phase = "Target" => EntryList = <<>>

SaidInv ==
  /\ EntryItems \subseteq Linked
  /\ \A k \in Index : ~EntryList[k].IsSharedDep
  /\ \A x \in {Target} \cup EntryItems : Said[x] \subseteq {Target} \cup EntryItems
  /\ \A j, k \in Index : j \in EntryConstraintGraph[k] <=> ItemOf[k] \in Said[ItemOf[j]]
  /\ \A j \in Index \ Waiting : \A d \in SharedDepsOf(ItemOf[j]) :
       \E a \in 1..Len(SharedDepQueue) : SharedDepQueue[a] = [Item |-> d, DependerIndex |-> j]

SetsInv ==
  /\ \A k \in Index : InferredDependSets[k] =
       IF ItemOf[k] \in link.known THEN {}
       ELSE {Entries(FollowSet(ItemOf[k], link.libraries[x])) :
               x \in {y \in Followed : ItemOf[k] \in Range(link.libraries[y])}}
  /\ DOMAIN dependSets = IF phase = "AddLinkEntries"
                         THEN Entries(Said[Depender] \ link.known) ELSE {}
  /\ \A k \in DOMAIN dependSets :
       dependSets[k] = Entries(FollowUpTo(ItemOf[k], Following, Done))

CollectInv == QueueInv /\ SaidInv /\ SetsInv

(* While the dependent shared libraries are searched.                       *)
SharedInv ==
  /\ Linked \subseteq EntryItems /\ EntryItems \subseteq Linked \cup Shared
  /\ \A k \in Index : EntryList[k].IsSharedDep <=> ItemOf[k] \notin Linked
  /\ \A j, k \in Index :
       /\ j \in EntryConstraintGraph[k] =>
            \/ ItemOf[j] \in Linked /\ ItemOf[k] \in Listed(ItemOf[j])
            \/ ItemOf[k] \in SharedDepsOf(ItemOf[j])
       /\ ItemOf[j] \in Linked /\ ItemOf[k] \in Listed(ItemOf[j]) => j \in EntryConstraintGraph[k]
  /\ \A j \in Index : \A d \in SharedDepsOf(ItemOf[j]) :
       \/ \E a \in 1..Len(SharedDepQueue) : SharedDepQueue[a] = [Item |-> d, DependerIndex |-> j]
       \/ \E k \in Index : ItemOf[k] = d /\ j \in EntryConstraintGraph[k]
  /\ \A k \in Index : InferredDependSets[k] =
       IF ItemOf[k] \in Linked \ link.known
       THEN {Entries(FollowSet(ItemOf[k], list)) : list \in {l \in Lists : ItemOf[k] \in Range(l)}}
       ELSE {}

(* The graph that is ordered.                                               *)
GraphExact ==
  /\ EntryItems = Linked \cup Shared
  /\ \A k \in Index : EntryList[k].IsSharedDep <=> ItemOf[k] \notin Linked
  /\ \A j, k \in Index : j \in EntryConstraintGraph[k] <=> <<ItemOf[j], ItemOf[k]>> \in Precedes

(* The components before next have been listed, each in one piece.  Those   *)
(* that a component depends on come earlier, so that no visit goes deeper.  *)
Listing == next - (IF visits = <<>> THEN 1 ELSE 2)
Places == 1..Len(FinalLinkEntries)
ComponentAt == [p \in Places |-> TarjanComponents[FinalLinkEntries[p]]]
PlacesOf == [k \in Index |-> {p \in Places : FinalLinkEntries[p] = k}]

LineInv ==
  /\ next \in 1..(Len(Components) + 1)
  /\ ComponentVisited = 1..(next - 1)
  /\ \/ visits = <<>>
     \/ /\ next > 1
        /\ \E S \in SUBSET (1..(next - 2)) : visits = <<[component |-> next - 1, edges |-> S]>>
  /\ FinalLinkEntries \in Seq(Index)
  /\ \A p \in Places : ComponentAt[p] <= Listing
  /\ \A p, q \in Places : p <= q => ComponentAt[p] <= ComponentAt[q]
  /\ \A k \in Index : TarjanComponents[k] <= Listing =>
       IF Components[TarjanComponents[k]] = {k}
       THEN \E p \in Places : PlacesOf[k] = {p}
       ELSE \E p, q \in Places : p # q /\ PlacesOf[k] = {p, q}
  /\ \A j, k \in Index :
       TarjanComponents[j] = TarjanComponents[k] /\ j # k /\ TarjanComponents[k] <= Listing
         => \E p, q \in Places : p < q /\ FinalLinkEntries[p] = j /\ FinalLinkEntries[q] = k

NotOrdered == ComponentVisited = {} /\ visits = <<>> /\ next = 1 /\ FinalLinkEntries = <<>>

IInv ==
  /\ TypeInv
  /\ phase \in {"Target", "AddLinkEntries", "BFS"} => CollectInv
  /\ phase \notin {"Target", "AddLinkEntries", "BFS"} => BFSQueue = <<>>
  /\ phase = "Shared" => SharedInv
  /\ phase \in {"Components", "Order", "done"} => GraphExact /\ CGP!Inv
  /\ phase \notin {"Components", "Order", "done"} => ccg!Unconstructed
  /\ phase \in {"Order", "done"} => pc = "done" /\ LineInv
  /\ phase \notin {"Order", "done"} => NotOrdered
  /\ phase = "done" => visits = <<>> /\ next = Len(Components) + 1

---------------------------------------------------------------------------
(* Sequences and sets.                                                      *)

\* Ascending(S) has every element of S once.
LEMMA AscendingFacts ==
  ASSUME NEW S \in SUBSET Nat, IsFiniteSet(S), NEW s, s = Ascending(S)
  PROVE  /\ Cardinality(S) \in Nat
         /\ s \in Seq(S) /\ Len(s) = Cardinality(S)
         /\ \A x \in S : \E a \in 1..Len(s) : s[a] = x
         /\ \A a, b \in 1..Len(s) : s[a] = s[b] => a = b
<1> DEFINE c == Cardinality(S)
           upto(x) == {y \in S : y <= x}
           rank == [x \in S |-> Cardinality(upto(x))]
<1>1. IsFiniteSet(S) /\ c \in Nat
  BY FS_CardinalityType
<1>2. IsFiniteSet(1..c) /\ Cardinality(1..c) = c
  <2> HIDE DEF c
  <2>1. c \in Nat
    BY <1>1 DEF c
  <2> QED BY <2>1, FS_Interval
<1>3. ASSUME NEW x \in S
      PROVE  /\ upto(x) \in SUBSET S /\ x \in upto(x) /\ IsFiniteSet(upto(x))
             /\ Cardinality(upto(x)) \in 1..c
  <2>1. upto(x) \in SUBSET S /\ x \in upto(x)
    OBVIOUS
  <2> HIDE DEF upto
  <2>2. IsFiniteSet(upto(x)) /\ Cardinality(upto(x)) <= c /\ Cardinality(upto(x)) \in Nat
    BY <1>1, <2>1, FS_Subset, FS_CardinalityType
  <2>3. Cardinality(upto(x)) # 0
    BY <2>1, <2>2, FS_EmptySet
  <2> QED BY <1>1, <2>1, <2>2, <2>3
<1>4. ASSUME NEW x \in S, NEW y \in S, x < y PROVE Cardinality(upto(x)) # Cardinality(upto(y))
  <2>1. upto(x) \in SUBSET upto(y) /\ y \notin upto(x) /\ y \in upto(y)
    <3>1. S \subseteq Nat /\ x \in Nat /\ y \in Nat
      OBVIOUS
    <3>2. \A z \in S : z <= x => z <= y
      BY <1>4, <3>1
    <3>3. upto(x) \in SUBSET upto(y)
      BY <3>2
    <3>4. ~(y <= x) /\ y <= y
      BY <1>4, <3>1
    <3> QED BY <3>3, <3>4
  <2>2. IsFiniteSet(upto(y))
    BY <1>3
  <2> HIDE DEF upto
  <2> QED BY <2>1, <2>2, FS_Subset
<1>5. \A x, y \in S : Cardinality(upto(x)) = Cardinality(upto(y)) => x = y
  <2> SUFFICES ASSUME NEW x \in S, NEW y \in S, x # y
               PROVE  Cardinality(upto(x)) # Cardinality(upto(y))
    OBVIOUS
  <2>1. x < y \/ y < x
    OBVIOUS
  <2> HIDE DEF upto
  <2> QED BY <1>4, <2>1
<1>6. rank \in Injection(S, 1..c)
  <2> HIDE DEF upto, c
  <2>1. rank \in [S -> 1..c]
    BY <1>3
  <2>2. \A x, y \in S : rank[x] = rank[y] => x = y
    BY <1>5
  <2> HIDE DEF rank
  <2> QED BY <2>1, <2>2 DEF Injection, IsInjective
<1>7. rank \in Surjection(S, 1..c)
  <2> HIDE DEF rank
  <2>1. Cardinality(S) = Cardinality(1..c)
    BY <1>2
  <2> HIDE DEF c
  <2> QED BY <1>2, <1>6, <2>1, FS_Injection
<1>8. \A k \in 1..c : \E x \in S : Cardinality(upto(x)) = k
  <2> HIDE DEF upto, c
  <2> QED BY <1>7 DEF Surjection
<1>9. \A k \in 1..c : s[k] \in S /\ Cardinality(upto(s[k])) = k
  <2>1. s = [k \in 1..c |-> CHOOSE x \in S : Cardinality(upto(x)) = k]
    BY Zenon DEF Ascending
  <2> HIDE DEF upto, c
  <2> QED BY <1>8, <2>1
<1>10. s \in Seq(S) /\ Len(s) = c
  <2>1. s = [k \in 1..c |-> CHOOSE x \in S : Cardinality(upto(x)) = k]
    BY Zenon DEF Ascending
  <2> HIDE DEF c, upto
  <2>2. s \in [1..c -> S]
    BY <1>9, <2>1
  <2>3. c \in Nat
    BY <1>1 DEF c
  <2> QED BY <2>2, <2>3
<1>11. \A x \in S : \E a \in 1..c : s[a] = x
  <2> SUFFICES ASSUME NEW x \in S PROVE \E a \in 1..c : s[a] = x
    OBVIOUS
  <2> DEFINE a == Cardinality(upto(x))
  <2>1. a \in 1..c
    BY <1>3
  <2>2. s[a] \in S /\ Cardinality(upto(s[a])) = a
    BY <1>9, <2>1
  <2>3. s[a] = x
    <3> HIDE DEF upto
    <3> QED BY <1>5, <2>2
  <2> HIDE DEF a
  <2> QED BY <2>1, <2>3
<1>12. \A a, b \in 1..c : s[a] = s[b] => a = b
  <2> HIDE DEF upto, c
  <2> QED BY <1>9
<1> HIDE DEF upto, rank
<1> QED BY <1>1, <1>10, <1>11, <1>12 DEF c

---------------------------------------------------------------------------
(* The project: what is linked, and what the shared libraries need.         *)
LEMMA ProjectFacts ==
  ASSUME link \in Links
  PROVE  /\ Target \in Items /\ link.known \in SUBSET Items /\ Target \in link.known
         /\ \A x \in Items : /\ link.libraries[x] \in Seq(Items)
                             /\ Range(link.libraries[x]) \subseteq Items
                             /\ Range(link.libraries[x]) =
                                  {link.libraries[x][q] : q \in 1..Len(link.libraries[x])}
                             /\ x \notin link.known => Range(link.libraries[x]) = {}
         /\ \A x : SharedDepsOf(x) \subseteq Items
         /\ \A x \in link.known : /\ link.sharedDeps[x] \in Seq(Items)
                                  /\ SharedDepsOf(x) =
                                       {link.sharedDeps[x][q] : q \in 1..Len(link.sharedDeps[x])}
<1>1. /\ Target \in Items /\ link.known \in SUBSET Items /\ Target \in link.known
      /\ link.libraries \in [Items -> Seq(Items)]
      /\ \A x \in Items \ link.known : link.libraries[x] = <<>>
      /\ link.sharedDeps \in [link.known -> Seq(Items)]
  BY LinksAssumption
<1>2. \A s \in Seq(Items) : Range(s) = {s[q] : q \in 1..Len(s)} /\ Range(s) \subseteq Items
  BY RangeEquality, ElementOfSeq
<1>3. \A x \in Items : link.libraries[x] \in Seq(Items)
  BY <1>1
<1>4. \A x \in link.known : link.sharedDeps[x] \in Seq(Items)
  BY <1>1
<1>5. Range(<<>>) = {}
  BY DEF Range
<1>6. \A x : SharedDepsOf(x) \subseteq Items
  BY <1>2, <1>4 DEF SharedDepsOf
<1>7. \A x \in link.known : SharedDepsOf(x) = {link.sharedDeps[x][q] : q \in 1..Len(link.sharedDeps[x])}
  BY <1>2, <1>4 DEF SharedDepsOf
<1>8. \A x \in Items : x \notin link.known => Range(link.libraries[x]) = {}
  BY <1>1, <1>5
<1>9. \A x \in Items : /\ Range(link.libraries[x]) \subseteq Items
                       /\ Range(link.libraries[x]) =
                            {link.libraries[x][q] : q \in 1..Len(link.libraries[x])}
  BY <1>2, <1>3
<1> QED BY <1>1, <1>3, <1>4, <1>6, <1>7, <1>8, <1>9

LEMMA LinkedFacts ==
  ASSUME link \in Links
  PROVE  /\ Linked \subseteq Items /\ Target \notin Linked
         /\ \A x \in {Target} \cup Linked : Range(link.libraries[x]) \subseteq {Target} \cup Linked
         /\ \A T \in SUBSET Items :
              Target \in T /\ (\A x \in T : Range(link.libraries[x]) \subseteq T) => Linked \subseteq T
<1> DEFINE E == [x \in Items |-> Range(link.libraries[x])]
           R == [x \in Items |-> LinkGraph!Reachable(x)]
<1>1. E \in [Items -> SUBSET Items] /\ Target \in Items
  BY ProjectFacts
<1>2. LinkGraph!Nodes = Items
  BY DEF LinkGraph!Nodes
<1>3. R = [n \in Items |-> {m \in Items : \A T \in SUBSET Items :
                                            n \in T /\ (\A k \in T : E[k] \subseteq T) => m \in T}]
  BY <1>2 DEF LinkGraph!Reachable, LinkGraph!Closed
<1>4. Linked = R[Target] \ {Target}
  BY <1>1 DEF Linked
<1>5. \A x \in Items : E[x] = Range(link.libraries[x])
  OBVIOUS
<1> HIDE DEF E, R
<1>6. \A n \in Items :
           /\ n \in R[n] /\ R[n] \subseteq Items
           /\ \A m \in R[n] : E[m] \subseteq R[n] /\ R[m] \subseteq R[n]
           /\ \A T \in SUBSET Items : n \in T /\ (\A k \in T : E[k] \subseteq T) => R[n] \subseteq T
  BY <1>1, <1>3, CGP!ReachableFacts
<1>7. R[Target] = {Target} \cup Linked /\ R[Target] \subseteq Items
  BY <1>1, <1>4, <1>6
<1>8. \A x \in {Target} \cup Linked : Range(link.libraries[x]) \subseteq {Target} \cup Linked
  <2> SUFFICES ASSUME NEW x \in R[Target] PROVE Range(link.libraries[x]) \subseteq R[Target]
    BY <1>7
  <2> QED BY <1>1, <1>5, <1>6
<1>9. ASSUME NEW T \in SUBSET Items, Target \in T, \A x \in T : Range(link.libraries[x]) \subseteq T
      PROVE  Linked \subseteq T
  <2>1. \A x \in T : E[x] \subseteq T
    BY <1>5, <1>9
  <2>2. R[Target] \subseteq T
    BY <1>1, <1>6, <1>9, <2>1
  <2> QED BY <1>4, <2>2
<1>10. Target \notin Linked /\ Linked \subseteq Items
  BY <1>4, <1>7
<1> QED BY <1>8, <1>9, <1>10

LEMMA SharedFacts ==
  ASSUME link \in Links
  PROVE  /\ Shared \subseteq Items
         /\ \A x \in Linked \cup Shared : SharedDepsOf(x) \subseteq Shared
         /\ \A T \in SUBSET Items :
              (\A x \in Linked \cup T : SharedDepsOf(x) \subseteq T) => Shared \subseteq T
<1> DEFINE E == [x \in Items |-> SharedDepsOf(x)]
           R == [x \in Items |-> SharedGraph!Reachable(x)]
           Needed == UNION {SharedDepsOf(x) : x \in Linked}
<1>1. E \in [Items -> SUBSET Items] /\ Needed \subseteq Items /\ Linked \subseteq Items
  BY ProjectFacts, LinkedFacts
<1>2. SharedGraph!Nodes = Items
  BY DEF SharedGraph!Nodes
<1>3. R = [n \in Items |-> {m \in Items : \A T \in SUBSET Items :
                                            n \in T /\ (\A k \in T : E[k] \subseteq T) => m \in T}]
  BY <1>2 DEF SharedGraph!Reachable, SharedGraph!Closed
<1>4. Shared = UNION {R[y] : y \in Needed}
  BY <1>1 DEF Shared
<1>5. \A x \in Items : E[x] = SharedDepsOf(x)
  OBVIOUS
<1>6. \A x \in Linked : SharedDepsOf(x) \subseteq Needed
  OBVIOUS
<1>7. ASSUME NEW T, \A x \in Linked : SharedDepsOf(x) \subseteq T PROVE Needed \subseteq T
  BY <1>7
<1> HIDE DEF E, R, Needed
<1>8. \A n \in Items :
           /\ n \in R[n] /\ R[n] \subseteq Items
           /\ \A m \in R[n] : E[m] \subseteq R[n] /\ R[m] \subseteq R[n]
           /\ \A T \in SUBSET Items : n \in T /\ (\A k \in T : E[k] \subseteq T) => R[n] \subseteq T
  BY <1>1, <1>3, CGP!ReachableFacts
<1>9. Shared \subseteq Items /\ Needed \subseteq Shared
  BY <1>1, <1>4, <1>8
<1>10. ASSUME NEW x \in Shared PROVE SharedDepsOf(x) \subseteq Shared
  <2>1. PICK y \in Needed : x \in R[y]
    BY <1>4
  <2>2. E[x] \subseteq R[y] /\ x \in Items
    BY <1>1, <1>8, <2>1
  <2> QED BY <1>4, <1>5, <2>2
<1>11. ASSUME NEW T \in SUBSET Items, \A x \in Linked \cup T : SharedDepsOf(x) \subseteq T
       PROVE  Shared \subseteq T
  <2>1. Needed \subseteq T
    BY <1>7, <1>11
  <2>2. \A x \in T : E[x] \subseteq T
    BY <1>5, <1>11
  <2>3. \A y \in Needed : R[y] \subseteq T
    BY <1>1, <1>8, <2>1, <2>2
  <2> QED BY <1>4, <2>3
<1> QED BY <1>6, <1>9, <1>10, <1>11

---------------------------------------------------------------------------
(* Entries and their items.                                                 *)
LEMMA EntryFacts ==
  ASSUME TypeInv
  PROVE  /\ Len(EntryList) \in Nat
         /\ ItemOf \in [Index -> Items] /\ EntryItems \subseteq Items
         /\ \A k \in Index : ItemOf[k] = EntryList[k].Item /\ ItemOf[k] \in EntryItems
         /\ \A k \in Index : EntryList[k].IsSharedDep \in BOOLEAN
<1>1. \A k \in Index : EntryList[k] \in [Item : Items, IsSharedDep : BOOLEAN]
  BY ElementOfSeq DEF TypeInv, Index
<1>2. ItemOf \in [Index -> Items]
  BY <1>1 DEF ItemOf
<1>3. Len(EntryList) \in Nat
  BY LenProperties DEF TypeInv
<1> QED BY <1>1, <1>2, <1>3 DEF EntryItems, ItemOf

\* What LinkEntry gives, whether or not the item had an entry.
EntryAdded(item, S) ==
  /\ HasEntry(item) <=> item \in EntryItems
  /\ EntryList' \in Seq([Item : Items, IsSharedDep : BOOLEAN])
  /\ Index \subseteq Index' /\ S.index \in Index' /\ ItemOf'[S.index] = item
  /\ \A k \in Index : ItemOf'[k] = ItemOf[k] /\ EntryList'[k] = EntryList[k]
  /\ \A k \in Index' : k \in Index \/ (k = S.index /\ item \notin EntryItems)
  /\ item \in EntryItems => S.index \in Index
  /\ item \notin EntryItems => S.index \notin Index
  /\ EntryItems' = EntryItems \cup {item}
  /\ \A j, k \in Index' : ItemOf'[j] = ItemOf'[k] => j = k
  /\ S.infer \in [Index' -> SUBSET SUBSET Index]
  /\ \A k \in Index : S.infer[k] = InferredDependSets[k]
  /\ \A k \in Index' \ Index : S.infer[k] = {}
  /\ S.graph \in [Index' -> SUBSET Index]
  /\ \A k \in Index : S.graph[k] = EntryConstraintGraph[k]
  /\ \A k \in Index' \ Index : S.graph[k] = {}

LEMMA LinkEntryFacts ==
  ASSUME TypeInv, NEW item \in Items, NEW S, EntryList' = S.list,
         \E shared \in BOOLEAN : S = LinkEntry(item, shared)
  PROVE  EntryAdded(item, S)
<1>0. PICK shared \in BOOLEAN : S = LinkEntry(item, shared)
  OBVIOUS
<1> DEFINE n == Len(EntryList)
           Entry == [Item : Items, IsSharedDep : BOOLEAN]
<1>1. /\ n \in Nat /\ EntryList \in Seq(Entry) /\ ItemOf \in [Index -> Items]
      /\ \A k \in Index : ItemOf[k] = EntryList[k].Item
      /\ Index = 1..n
  BY EntryFacts DEF TypeInv, Index
<1>2. HasEntry(item) <=> item \in EntryItems
  BY <1>1 DEF HasEntry, EntryItems
<1>3. CASE HasEntry(item)
  <2> DEFINE e == CHOOSE k \in 1..Len(EntryList) : EntryList[k].Item = item
  <2>1. e \in Index /\ EntryList[e].Item = item
    BY <1>3 DEF HasEntry, Index
  <2>2. /\ S.index = e /\ S.list = EntryList /\ S.infer = InferredDependSets
        /\ S.graph = EntryConstraintGraph
    BY <1>0, <1>3 DEF LinkEntry
  <2> HIDE DEF e
  <2>3. EntryList' = EntryList
    BY <2>2
  <2>4. Index' = Index /\ ItemOf' = ItemOf /\ EntryItems' = EntryItems
    BY <2>3 DEF Index, ItemOf, EntryItems
  <2>5. item \in EntryItems /\ S.index \in Index /\ ItemOf[S.index] = item
    BY <1>1, <1>2, <1>3, <2>1, <2>2
  <2>6. EntryItems' = EntryItems \cup {item}
    BY <2>4, <2>5
  <2> HIDE DEF Entry
  <2>7. EntryList' \in Seq(Entry)
    BY <1>1, <2>3
  <2>8. /\ S.infer \in [Index' -> SUBSET SUBSET Index]
        /\ S.graph \in [Index' -> SUBSET Index]
        /\ \A j, k \in Index' : ItemOf'[j] = ItemOf'[k] => j = k
    BY <2>2, <2>4 DEF TypeInv
  <2>9. /\ \A k \in Index : S.infer[k] = InferredDependSets[k] /\ S.graph[k] = EntryConstraintGraph[k]
        /\ \A k \in Index : ItemOf'[k] = ItemOf[k] /\ EntryList'[k] = EntryList[k]
        /\ \A k \in Index' \ Index : S.infer[k] = {} /\ S.graph[k] = {}
        /\ Index \subseteq Index' /\ S.index \in Index' /\ ItemOf'[S.index] = item
        /\ \A k \in Index' : k \in Index
    BY <2>2, <2>3, <2>4, <2>5
  <2>10. EntryList' \in Seq([Item : Items, IsSharedDep : BOOLEAN])
    BY <2>7 DEF Entry
  <2>11. item \notin EntryItems => S.index \notin Index
    BY <2>5
  <2>12. \A k \in Index' : k \in Index \/ (k = S.index /\ item \notin EntryItems)
    BY <2>9
  <2> QED BY ONLY <1>2, <2>5, <2>6, <2>8, <2>9, <2>10, <2>11, <2>12, Zenon DEF EntryAdded
<1>4. CASE ~HasEntry(item)
  <2> DEFINE new == [Item |-> item, IsSharedDep |-> shared]
  <2>1. /\ S.index = n + 1 /\ S.list = Append(EntryList, new)
        /\ S.infer = Append(InferredDependSets, {}) /\ S.graph = Append(EntryConstraintGraph, {})
    BY <1>0, <1>4 DEF LinkEntry, AllocateLinkEntry
  <2>2. new \in Entry /\ new.Item = item /\ new.IsSharedDep = shared
    OBVIOUS
  <2> HIDE DEF Entry, new
  <2>3. /\ EntryList' \in Seq(Entry) /\ Len(EntryList') = n + 1 /\ EntryList'[n + 1] = new
        /\ \A k \in 1..n : EntryList'[k] = EntryList[k]
    BY <1>1, <2>1, <2>2, CGP!AppendedBack
  <2> HIDE DEF n
  <2>4. Index' = 1..(n + 1) /\ \A k \in 1..(n + 1) : k \in Index \/ k = n + 1
    BY <1>1, <2>3 DEF Index
  <2>5. /\ Index \subseteq Index' /\ n + 1 \in Index' /\ n + 1 \notin Index
        /\ \A k \in Index' : k \in Index \/ k = n + 1
    BY <1>1, <2>4
  <2>6. \A k \in Index' : ItemOf'[k] = EntryList'[k].Item
    BY DEF ItemOf
  <2>7. /\ ItemOf'[n + 1] = item
        /\ \A k \in Index : ItemOf'[k] = ItemOf[k] /\ EntryList'[k] = EntryList[k]
    BY <1>1, <2>2, <2>3, <2>5, <2>6
  <2>8. EntryItems' = {ItemOf'[k] : k \in Index'}
    BY DEF EntryItems
  <2>9. EntryItems = {ItemOf[k] : k \in Index}
    BY DEF EntryItems
  <2>10. EntryItems' = EntryItems \cup {item}
    BY <2>5, <2>7, <2>8, <2>9
  <2>11. item \notin EntryItems
    BY <1>2, <1>4
  <2>12. \A k \in Index : ItemOf[k] # item
    BY <2>9, <2>11
  <2>13. \A j, k \in Index' : ItemOf'[j] = ItemOf'[k] => j = k
    BY <2>5, <2>7, <2>12 DEF TypeInv
  <2>14. ASSUME NEW X, NEW s \in [Index -> SUBSET X]
         PROVE  /\ Append(s, {}) \in [Index' -> SUBSET X]
                /\ \A k \in Index' : Append(s, {})[k] = IF k \in Index THEN s[k] ELSE {}
    <3>1. s \in Seq(SUBSET X) /\ Len(s) = n
      BY <1>1, <2>14, LenProperties
    <3> DEFINE t == Append(s, {})
    <3>2. {} \in SUBSET X
      OBVIOUS
    <3>3. /\ t \in Seq(SUBSET X) /\ Len(t) = n + 1 /\ t[n + 1] = {}
          /\ \A k \in 1..n : t[k] = s[k]
      <4> HIDE DEF t
      <4>1. t = Append(s, {})
        BY DEF t
      <4> QED BY <3>1, <3>2, <4>1, CGP!AppendedBack
    <3> HIDE DEF t
    <3>4. t \in [Index' -> SUBSET X]
      BY <1>1, <2>4, <3>3
    <3>5. \A k \in Index' : t[k] = IF k \in Index THEN s[k] ELSE {}
      BY <1>1, <2>5, <3>3
    <3> QED BY <3>4, <3>5 DEF t
  <2>15. /\ S.infer \in [Index' -> SUBSET SUBSET Index]
         /\ \A k \in Index : S.infer[k] = InferredDependSets[k]
         /\ \A k \in Index' \ Index : S.infer[k] = {}
    <3>1. InferredDependSets \in [Index -> SUBSET SUBSET Index]
      BY DEF TypeInv
    <3>2. /\ Append(InferredDependSets, {}) \in [Index' -> SUBSET SUBSET Index]
          /\ \A k \in Index' : Append(InferredDependSets, {})[k] =
                                IF k \in Index THEN InferredDependSets[k] ELSE {}
      BY <2>14, <3>1
    <3>3. S.infer = Append(InferredDependSets, {})
      BY <2>1
    <3> QED BY <2>5, <3>2, <3>3
  <2>16. /\ S.graph \in [Index' -> SUBSET Index]
         /\ \A k \in Index : S.graph[k] = EntryConstraintGraph[k]
         /\ \A k \in Index' \ Index : S.graph[k] = {}
    <3>1. EntryConstraintGraph \in [Index -> SUBSET Index]
      BY DEF TypeInv
    <3>2. /\ Append(EntryConstraintGraph, {}) \in [Index' -> SUBSET Index]
          /\ \A k \in Index' : Append(EntryConstraintGraph, {})[k] =
                                IF k \in Index THEN EntryConstraintGraph[k] ELSE {}
      BY <2>14, <3>1
    <3>3. S.graph = Append(EntryConstraintGraph, {})
      BY <2>1
    <3> QED BY <2>5, <3>2, <3>3
  <2>17. S.index = n + 1
    BY <2>1
  <2> QED BY <1>2, <2>3, <2>5, <2>7, <2>10, <2>11, <2>13, <2>15, <2>16, <2>17 DEF Entry, EntryAdded
<1> QED BY <1>3, <1>4

\* How a new entry is marked.
LEMMA NewEntryMark ==
  ASSUME TypeInv, NEW item, NEW shared \in BOOLEAN,
         NEW S, S = LinkEntry(item, shared), EntryList' = S.list,
         NEW k \in Index' \ Index
  PROVE  EntryList'[k].IsSharedDep = shared
<1> DEFINE n == Len(EntryList)
           new == [Item |-> item, IsSharedDep |-> shared]
<1>1. n \in Nat /\ EntryList \in Seq([Item : Items, IsSharedDep : BOOLEAN])
  BY EntryFacts DEF TypeInv
<1>2. EntryList' # EntryList
  BY DEF Index
<1>3. ~HasEntry(item)
  BY <1>2 DEF LinkEntry
<1>4. S.list = Append(EntryList, new)
  BY <1>3 DEF LinkEntry, AllocateLinkEntry
<1> HIDE DEF new
<1>5. Len(EntryList') = n + 1 /\ EntryList'[n + 1] = new
  BY <1>1, <1>4
<1>6. k = n + 1
  BY <1>1, <1>5 DEF Index
<1>7. new.IsSharedDep = shared
  BY DEF new
<1> QED BY <1>5, <1>6, <1>7

---------------------------------------------------------------------------
(* The list that is followed.                                               *)
LEMMA FollowedSoFar ==
  ASSUME NEW list, NEW n \in Nat, NEW x
  PROVE  /\ FollowUpTo(x, list, n) \subseteq {list[q] : q \in 1..n}
         /\ x \notin {list[q] : q \in 1..n} => FollowUpTo(x, list, n) = {}
         /\ x \notin {list[q] : q \in 1..n} /\ x = list[n + 1] => FollowUpTo(x, list, n + 1) = {}
         /\ x \in {list[q] : q \in 1..n} =>
              FollowUpTo(x, list, n + 1) = FollowUpTo(x, list, n) \cup ({list[n + 1]} \ {x, Target})
<1>1. /\ \A q \in 1..n : q \in 1..(n + 1) /\ q \in Nat
      /\ \A q \in 1..(n + 1) : q \in 1..n \/ q = n + 1
      /\ n + 1 \in 1..(n + 1) /\ n + 1 \notin 1..n
  OBVIOUS
<1>2. FollowUpTo(x, list, n) \subseteq {list[q] : q \in 1..n}
  BY DEF FollowUpTo
<1>3. ASSUME x \notin {list[q] : q \in 1..n} PROVE FollowUpTo(x, list, n) = {}
  <2>1. \A r \in 1..n : \A p \in 1..r : p \in 1..n
    OBVIOUS
  <2> QED BY <1>3, <2>1 DEF FollowUpTo
<1>4. ASSUME x \notin {list[q] : q \in 1..n}, x = list[n + 1]
      PROVE  FollowUpTo(x, list, n + 1) = {}
  <2> SUFFICES ASSUME NEW r \in 1..(n + 1), NEW p \in 1..r, list[p] = x, list[r] # x PROVE FALSE
    BY DEF FollowUpTo
  <2>1. r \in 1..n
    BY <1>1, <1>4
  <2>2. p \in 1..n
    BY <2>1
  <2> QED BY <1>4, <2>2
<1>5. ASSUME x \in {list[q] : q \in 1..n}
      PROVE  FollowUpTo(x, list, n + 1) = FollowUpTo(x, list, n) \cup ({list[n + 1]} \ {x, Target})
  <2> DEFINE R(m) == {r \in 1..m : \E p \in 1..r : list[p] = x}
  <2>1. PICK p \in 1..n : list[p] = x
    BY <1>5
  <2>2. p \in 1..(n + 1)
    OBVIOUS
  <2>3. R(n + 1) = R(n) \cup {n + 1}
    BY <1>1, <2>1, <2>2
  <2>4. /\ FollowUpTo(x, list, n) = {list[q] : q \in R(n)} \ {x, Target}
        /\ FollowUpTo(x, list, n + 1) = {list[q] : q \in R(n + 1)} \ {x, Target}
    BY DEF FollowUpTo
  <2> HIDE DEF R
  <2> QED BY <2>3, <2>4
<1> QED BY <1>2, <1>3, <1>4, <1>5

LEMMA FollowSetIsWhole ==
  ASSUME NEW x, NEW list
  PROVE  FollowSet(x, list) = FollowUpTo(x, list, Len(list))
  BY DEF FollowSet, FollowUpTo

LEMMA ListFacts ==
  ASSUME TypeInv, CollectInv, phase = "AddLinkEntries"
  PROVE  /\ Depender \in {Target} \cup EntryItems /\ Depender \in Items
         /\ Depender \in {Target} \cup Linked /\ Depender \notin Followed
         /\ depender # 0 => depender \in Index /\ Depender = ItemOf[depender]
         /\ depender = 0 => Depender = Target
         /\ Following \in Seq(Items) /\ Len(Following) \in Nat
         /\ Range(Following) = {Following[q] : q \in 1..Len(Following)}
         /\ Range(Following) \subseteq {Target} \cup Linked
         /\ Done \in Nat /\ Done <= Len(Following)
         /\ Said[Depender] = {Following[q] : q \in 1..Done}
<1>1. /\ depender \in {0} \cup Index /\ Target \in Items /\ Target \notin Linked
      /\ EntryItems \subseteq Linked /\ ItemOf \in [Index -> Items]
      /\ \A k \in Index : ItemOf[k] \in EntryItems
  BY ProjectFacts, LinkedFacts, EntryFacts DEF TypeInv, CollectInv, QueueInv, SaidInv
<1>2. 0 \notin Index
  BY DEF Index
<1>3. /\ Depender \in {Target} \cup EntryItems /\ Depender \in Items
      /\ Depender \in {Target} \cup Linked /\ Depender \notin Followed
      /\ depender # 0 => depender \in Index /\ Depender = ItemOf[depender]
      /\ depender = 0 => Depender = Target
  BY <1>1, <1>2 DEF Depender, Followed
<1>4. /\ Following \in Seq(Items)
      /\ Range(Following) = {Following[q] : q \in 1..Len(Following)}
      /\ Range(Following) \subseteq {Target} \cup Linked
  BY <1>3, ProjectFacts, LinkedFacts DEF TypeInv, Following
<1>5. Len(Following) \in Nat
  BY <1>4, LenProperties
<1>6. Len(libs) \in Nat /\ Len(libs) <= Len(Following)
  BY LenProperties DEF CollectInv, QueueInv
<1>7. Done \in Nat /\ Done <= Len(Following)
  BY <1>5, <1>6 DEF Done
<1>8. Said[Depender] = {Following[q] : q \in 1..Done}
  BY <1>3 DEF Said
<1> QED BY <1>3, <1>4, <1>5, <1>7, <1>8

LEMMA NextItemFacts ==
  ASSUME TypeInv, CollectInv, phase = "AddLinkEntries", libs # <<>>, libs' = Tail(libs)
  PROVE  /\ Head(libs) = Following[Done + 1] /\ Head(libs) \in Items
         /\ Head(libs) \in {Target} \cup Linked
         /\ Done \in Nat /\ Done + 1 <= Len(Following)
         /\ libs' \in Seq(Items) /\ Len(Following) - Len(libs') = Done + 1
         /\ Len(libs') <= Len(Following)
         /\ \A q \in 1..Len(libs') : libs'[q] = Following[Done + 1 + q]
<1>1. /\ libs \in Seq(Items) /\ Len(libs) <= Len(Following) /\ Len(Following) \in Nat
      /\ \A q \in 1..Len(libs) : libs[q] = Following[Done + q]
      /\ Done \in Nat
  BY ListFacts DEF CollectInv, QueueInv
<1>2. /\ libs' \in Seq(Items) /\ Len(libs) \in Nat \ {0} /\ Len(libs') = Len(libs) - 1
      /\ Head(libs) = libs[1] /\ libs[1] \in Items
      /\ \A a \in 1..Len(libs') : a + 1 \in 1..Len(libs) /\ libs'[a] = libs[a + 1]
  BY <1>1, CGP!PoppedFront
<1>3. Len(Following) - Len(libs') = Done + 1 /\ Done + 1 <= Len(Following)
  BY <1>1, <1>2 DEF Done
<1>4. Head(libs) = Following[Done + 1]
  <2>1. 1 \in 1..Len(libs)
    BY <1>2
  <2> QED BY <1>1, <1>2, <2>1
<1>5. Head(libs) \in Range(Following)
  <2>1. Done + 1 \in 1..Len(Following)
    BY <1>1, <1>3
  <2> QED BY <1>4, <2>1, ListFacts
<1>6. \A q \in 1..Len(libs') : libs'[q] = Following[Done + 1 + q]
  <2> SUFFICES ASSUME NEW q \in 1..Len(libs') PROVE libs'[q] = Following[Done + 1 + q]
    OBVIOUS
  <2>1. libs'[q] = Following[Done + (q + 1)]
    BY <1>1, <1>2
  <2>2. Done + (q + 1) = Done + 1 + q
    BY <1>1, <1>2
  <2> QED BY <2>1, <2>2
<1>7. Head(libs) \in {Target} \cup Linked /\ Head(libs) \in Items
  BY <1>2, <1>5, ListFacts
<1>8. Len(libs') <= Len(Following)
  BY <1>1, <1>2
<1> QED BY <1>1, <1>2, <1>3, <1>4, <1>6, <1>7, <1>8

---------------------------------------------------------------------------
(* AddLinkEntry.                                                            *)
LEMMA AddedEntry ==
  ASSUME TypeInv, CollectInv, AddLinkEntry,
         NEW item, item = Head(libs), NEW S, S = LinkEntry(item, FALSE)
  PROVE  /\ item \in Items /\ item \in Linked /\ item # Target /\ phase = "AddLinkEntries"
         /\ EntryList' = S.list
         /\ UNCHANGED <<link, depender, SharedDepQueue, order, phase, ccgVars>>
         /\ libs # <<>> /\ libs' = Tail(libs)
         /\ S.index \in Index' /\ InferredDependSets' = S.infer
         /\ EntryConstraintGraph' = [S.graph EXCEPT ![S.index] = @ \cup ({depender} \ {0})]
         /\ item \in EntryItems \/ item \notin link.known => BFSQueue' = BFSQueue
         /\ item \notin EntryItems /\ item \in link.known => BFSQueue' = Append(BFSQueue, S.index)
         /\ Following' = Following /\ Depender' = Depender /\ Done' = Done + 1
<1>1. /\ phase = "AddLinkEntries" /\ libs # <<>> /\ item # Target
      /\ libs' = Tail(libs) /\ UNCHANGED <<link, depender, SharedDepQueue, order, phase, ccgVars>>
  BY DEF AddLinkEntry
<1>2. item \in Items /\ item \in Linked
  BY <1>1, NextItemFacts
<1>3. /\ EntryList' = S.list /\ InferredDependSets' = S.infer
      /\ EntryConstraintGraph' = [S.graph EXCEPT ![S.index] = @ \cup ({depender} \ {0})]
      /\ BFSQueue' = IF HasEntry(item) \/ item \notin link.known
                     THEN BFSQueue ELSE Append(BFSQueue, S.index)
  BY DEF AddLinkEntry
<1>4. /\ HasEntry(item) <=> item \in EntryItems
      /\ S.index \in Index' /\ \A k \in Index : k \in Index' /\ ItemOf'[k] = ItemOf[k]
  <2>1. EntryAdded(item, S)
    BY <1>2, <1>3, LinkEntryFacts
  <2> QED BY <2>1 DEF EntryAdded
<1>5. Depender' = Depender
  <2>1. depender # 0 => depender \in Index
    BY <1>1, ListFacts
  <2>2. depender' = depender
    BY <1>1
  <2> QED BY <1>4, <2>1, <2>2 DEF Depender
<1>6. Following' = Following
  BY <1>1, <1>5 DEF Following
<1>7. Done' = Done + 1
  <2>1. Len(Following) - Len(libs') = Done + 1
    BY <1>1, NextItemFacts
  <2> QED BY <1>6, <2>1 DEF Done
<1> QED BY <1>1, <1>2, <1>3, <1>4, <1>5, <1>6, <1>7

LEMMA AddedEntryFacts ==
  ASSUME TypeInv, CollectInv, AddLinkEntry,
         NEW item, item = Head(libs), NEW S, S = LinkEntry(item, FALSE)
  PROVE  /\ EntryAdded(item, S)
         /\ \A k \in Index' \ Index : ~EntryList'[k].IsSharedDep
<1>1. item \in Items /\ EntryList' = S.list
  BY AddedEntry
<1>2. \E shared \in BOOLEAN : shared = FALSE /\ S = LinkEntry(item, shared)
  OBVIOUS
<1>3. PICK shared \in BOOLEAN : shared = FALSE /\ S = LinkEntry(item, shared)
  BY <1>2
<1>4. EntryAdded(item, S)
  BY <1>1, <1>3, LinkEntryFacts
<1>5. \A k \in Index' \ Index : EntryList'[k].IsSharedDep = shared
  BY <1>1, <1>3, NewEntryMark
<1> QED BY <1>3, <1>4, <1>5

LEMMA AddedTypes ==
  ASSUME TypeInv, CollectInv, AddLinkEntry
  PROVE  TypeInv' /\ QueueInv'
<1> DEFINE item == Head(libs)
           S == LinkEntry(item, FALSE)
<1>1. /\ item \in Items /\ item \in Linked /\ item # Target /\ phase = "AddLinkEntries"
      /\ EntryList' = S.list
      /\ UNCHANGED <<link, depender, SharedDepQueue, phase>>
      /\ libs # <<>> /\ libs' = Tail(libs)
      /\ S.index \in Index' /\ InferredDependSets' = S.infer
      /\ EntryConstraintGraph' = [S.graph EXCEPT ![S.index] = @ \cup ({depender} \ {0})]
      /\ item \in EntryItems \/ item \notin link.known => BFSQueue' = BFSQueue
      /\ item \notin EntryItems /\ item \in link.known => BFSQueue' = Append(BFSQueue, S.index)
      /\ Following' = Following /\ Depender' = Depender /\ Done' = Done + 1
  <2> HIDE DEF item, S
  <2>1. item = Head(libs) /\ S = LinkEntry(item, FALSE)
    BY DEF item, S
  <2> QED BY <2>1, AddedEntry DEF order, ccgVars
<1>2. /\ EntryList' \in Seq([Item : Items, IsSharedDep : BOOLEAN])
      /\ Index \subseteq Index' /\ ItemOf'[S.index] = item
      /\ \A k \in Index : ItemOf'[k] = ItemOf[k]
      /\ \A k \in Index' : k \in Index \/ k = S.index
      /\ item \notin EntryItems => S.index \notin Index
      /\ \A j, k \in Index' : ItemOf'[j] = ItemOf'[k] => j = k
      /\ S.infer \in [Index' -> SUBSET SUBSET Index]
      /\ S.graph \in [Index' -> SUBSET Index]
  <2> HIDE DEF item, S
  <2>1. item = Head(libs) /\ S = LinkEntry(item, FALSE)
    BY DEF item, S
  <2>2. EntryAdded(item, S)
    BY <2>1, AddedEntryFacts
  <2> QED BY <2>2 DEF EntryAdded
<1>3. /\ depender # 0 => depender \in Index
      /\ libs' \in Seq(Items) /\ Len(libs') <= Len(Following)
      /\ \A q \in 1..Len(libs') : libs'[q] = Following[Done + 1 + q]
      /\ BFSQueue \in Seq(Index) /\ \A a, b \in 1..Len(BFSQueue) : BFSQueue[a] = BFSQueue[b] => a = b
      /\ depender \in {0} \cup Index /\ depender \notin Waiting
      /\ \A k \in Waiting : ItemOf[k] \in link.known
  BY <1>1, ListFacts, NextItemFacts DEF CollectInv, QueueInv
<1> HIDE DEF item, S
<1>4. /\ InferredDependSets' \in [Index' -> SUBSET SUBSET Index']
      /\ EntryConstraintGraph' \in [Index' -> SUBSET Index']
  BY <1>1, <1>2, <1>3
<1>5. TypeInv'
  <2>1. SharedDepQueue' \in Seq(Dependency)'
    <3>1. Dependency \subseteq Dependency'
      BY <1>2 DEF Dependency
    <3>2. SharedDepQueue \in Seq(Dependency')
      <4>1. SharedDepQueue \in Seq(Dependency)
        BY DEF TypeInv
      <4>2. \A a \in 1..Len(SharedDepQueue) : SharedDepQueue[a] \in Dependency'
        BY <3>1, <4>1, ElementOfSeq
      <4>3. SharedDepQueue = [a \in 1..Len(SharedDepQueue) |-> SharedDepQueue[a]] /\ Len(SharedDepQueue) \in Nat
        BY <4>1, LenProperties
      <4> QED BY <4>2, <4>3
    <3> QED BY <1>1, <3>2
  <2>2. \A a \in 1..Len(SharedDepQueue') :
          (SharedDepQueue[a].Item \in SharedDepsOf(ItemOf[SharedDepQueue[a].DependerIndex]))'
    <3> SUFFICES ASSUME NEW a \in 1..Len(SharedDepQueue)
                 PROVE  (SharedDepQueue[a].Item \in SharedDepsOf(ItemOf[SharedDepQueue[a].DependerIndex]))'
      BY <1>1
    <3>1. SharedDepQueue[a] \in Dependency
      BY ElementOfSeq DEF TypeInv
    <3>2. SharedDepQueue[a].DependerIndex \in Index
      BY <3>1 DEF Dependency
    <3>3. ItemOf'[SharedDepQueue[a].DependerIndex] = ItemOf[SharedDepQueue[a].DependerIndex]
      BY <1>2, <3>2
    <3>4. \A x : SharedDepsOf(x)' = SharedDepsOf(x)
      BY <1>1 DEF SharedDepsOf
    <3> QED BY <1>1, <3>3, <3>4 DEF TypeInv
  <2> QED BY <1>1, <1>2, <1>4, <2>1, <2>2 DEF TypeInv
<1>6. /\ BFSQueue' \in Seq(Index') /\ \A a, b \in 1..Len(BFSQueue') : BFSQueue'[a] = BFSQueue'[b] => a = b
      /\ depender \notin Waiting' /\ \A k \in Waiting' : ItemOf'[k] \in link.known
  <2>1. BFSQueue \in Seq(Index') /\ Waiting \subseteq Index /\ Len(BFSQueue) \in Nat
    <3>1. \A a \in 1..Len(BFSQueue) : BFSQueue[a] \in Index
      BY <1>3, ElementOfSeq
    <3>2. BFSQueue = [a \in 1..Len(BFSQueue) |-> BFSQueue[a]] /\ Len(BFSQueue) \in Nat
      BY <1>3, LenProperties
    <3> QED BY <1>2, <3>1, <3>2 DEF Waiting
  <2>2. CASE BFSQueue' = BFSQueue
    <3>1. Waiting' = Waiting
      BY <2>2 DEF Waiting
    <3> QED BY <1>2, <1>3, <2>1, <2>2, <3>1
  <2>3. CASE item \notin EntryItems /\ item \in link.known /\ BFSQueue' = Append(BFSQueue, S.index)
    <3>1. /\ BFSQueue' \in Seq(Index') /\ Len(BFSQueue') = Len(BFSQueue) + 1
          /\ BFSQueue'[Len(BFSQueue')] = S.index
          /\ \A a \in 1..Len(BFSQueue) : BFSQueue'[a] = BFSQueue[a]
      BY <1>1, <2>1, <2>3, CGP!AppendedBack
    <3>2. S.index \notin Index
      BY <1>2, <2>3
    <3>3. \A a \in 1..Len(BFSQueue') : a \in 1..Len(BFSQueue) \/ a = Len(BFSQueue')
      BY <2>1, <3>1
    <3>4. \A a \in 1..Len(BFSQueue) : BFSQueue[a] \in Index
      BY <1>3, ElementOfSeq
    <3>5. \A k \in Waiting' : k \in Waiting \/ k = S.index
      BY <3>1, <3>3 DEF Waiting
    <3>6. \A a, b \in 1..Len(BFSQueue') : BFSQueue'[a] = BFSQueue'[b] => a = b
      BY <1>3, <3>1, <3>2, <3>3, <3>4
    <3>7. depender # S.index
      <4>1. 0 \notin Index'
        BY DEF Index
      <4> QED BY <1>1, <1>3, <3>2, <4>1
    <3> QED BY <1>2, <1>3, <2>1, <2>3, <3>1, <3>5, <3>6, <3>7
  <2> QED BY <1>1, <2>2, <2>3
<1>7. QueueInv'
  <2>1. depender' \in {0} \cup Index' /\ depender' \notin Waiting' /\ phase' = "AddLinkEntries"
    BY <1>1, <1>2, <1>3, <1>6
  <2>2. \A k \in Waiting' : ItemOf'[k] \in link'.known
    BY <1>1, <1>6
  <2>3. \A q \in 1..Len(libs') : libs'[q] = Following'[Done' + q]
    BY <1>1, <1>3
  <2>4. Len(libs') <= Len(Following')
    BY <1>1, <1>3
  <2> QED BY <1>3, <1>6, <2>1, <2>2, <2>3, <2>4 DEF QueueInv
<1> QED BY <1>5, <1>7

LEMMA AddedWaiting ==
  ASSUME TypeInv, CollectInv, AddLinkEntry,
         NEW item, item = Head(libs), NEW S, S = LinkEntry(item, FALSE)
  PROVE  /\ \A k \in Index : k \in Waiting' <=> k \in Waiting
         /\ item \notin EntryItems => (S.index \in Waiting' <=> item \in link.known)
         /\ \A y : y \in Followed' <=> \/ y \in Followed
                                       \/ y = item /\ item \notin EntryItems /\ item \notin link.known
<1>1. /\ item \in Items /\ item \in Linked /\ item # Target /\ phase = "AddLinkEntries"
      /\ EntryList' = S.list /\ phase' = phase
      /\ item \in EntryItems \/ item \notin link.known => BFSQueue' = BFSQueue
      /\ item \notin EntryItems /\ item \in link.known => BFSQueue' = Append(BFSQueue, S.index)
      /\ Depender' = Depender
  BY AddedEntry DEF ccgVars, order
<1>2. /\ Index \subseteq Index' /\ S.index \in Index' /\ ItemOf'[S.index] = item
      /\ \A k \in Index : ItemOf'[k] = ItemOf[k]
      /\ \A k \in Index' : k \in Index \/ (k = S.index /\ item \notin EntryItems)
      /\ item \notin EntryItems => S.index \notin Index
      /\ item \in EntryItems => S.index \in Index
  <2>1. EntryAdded(item, S)
    BY AddedEntryFacts
  <2> QED BY <2>1 DEF EntryAdded
<1>3. BFSQueue \in Seq(Index) /\ Waiting \subseteq Index
  BY ElementOfSeq DEF CollectInv, QueueInv, Waiting
<1>4. Waiting' = IF item \notin EntryItems /\ item \in link.known THEN Waiting \cup {S.index} ELSE Waiting
  <2>1. CASE ~(item \notin EntryItems /\ item \in link.known)
    BY <1>1, <2>1 DEF Waiting
  <2>2. CASE item \notin EntryItems /\ item \in link.known
    <3>1. BFSQueue \in Seq(Index') /\ Len(BFSQueue) \in Nat
      <4>1. \A a \in 1..Len(BFSQueue) : BFSQueue[a] \in Index
        BY <1>3, ElementOfSeq
      <4>2. BFSQueue = [a \in 1..Len(BFSQueue) |-> BFSQueue[a]] /\ Len(BFSQueue) \in Nat
        BY <1>3, LenProperties
      <4> QED BY <1>2, <4>1, <4>2
    <3> DEFINE new == S.index
    <3>2. /\ BFSQueue' \in Seq(Index') /\ Len(BFSQueue') = Len(BFSQueue) + 1
          /\ BFSQueue'[Len(BFSQueue')] = S.index
          /\ \A a \in 1..Len(BFSQueue) : BFSQueue'[a] = BFSQueue[a]
      <4> DEFINE queue == BFSQueue'
                 places == Index'
      <4>1. new \in places /\ queue = Append(BFSQueue, new) /\ BFSQueue \in Seq(places)
        BY <1>1, <1>2, <2>2, <3>1
      <4> HIDE DEF new, queue, places
      <4>2. /\ queue \in Seq(places) /\ Len(queue) = Len(BFSQueue) + 1
            /\ queue[Len(queue)] = new
            /\ \A a \in 1..Len(BFSQueue) : queue[a] = BFSQueue[a]
        BY <4>1, CGP!AppendedBack
      <4> QED BY <4>2 DEF new, queue, places
    <3>3. /\ \A a \in 1..Len(BFSQueue') : a \in 1..Len(BFSQueue) \/ a = Len(BFSQueue')
          /\ \A a \in 1..Len(BFSQueue) : a \in 1..Len(BFSQueue')
          /\ Len(BFSQueue') \in 1..Len(BFSQueue')
      BY <3>1, <3>2
    <3>4. Waiting = {BFSQueue[a] : a \in 1..Len(BFSQueue)} /\ Waiting' = {BFSQueue'[a] : a \in 1..Len(BFSQueue')}
      BY DEF Waiting
    <3>5. Waiting' = Waiting \cup {S.index}
      BY <3>2, <3>3, <3>4
    <3> QED BY <2>2, <3>5
  <2> QED BY <2>1, <2>2
<1>5. /\ \A k \in Index : k \in Waiting' <=> k \in Waiting
      /\ item \notin EntryItems => (S.index \in Waiting' <=> item \in link.known)
  BY <1>2, <1>3, <1>4
<1>6. /\ Followed = ({Target} \cup {ItemOf[k] : k \in Index \ Waiting}) \ {Depender}
      /\ Followed' = ({Target} \cup {ItemOf'[k] : k \in Index' \ Waiting'}) \ {Depender}
  BY <1>1 DEF Followed
<1>7. item \notin EntryItems => item # Depender
  BY <1>1, ListFacts
<1>8. \A y : (\E k \in Index' \ Waiting' : y = ItemOf'[k]) <=>
               \/ \E k \in Index \ Waiting : y = ItemOf[k]
               \/ y = item /\ item \notin EntryItems /\ item \notin link.known
  BY <1>2, <1>5
<1> QED BY <1>5, <1>6, <1>7, <1>8

LEMMA AddedSaid ==
  ASSUME TypeInv, CollectInv, AddLinkEntry, NEW item, item = Head(libs)
  PROVE  /\ \A y \in {Target} \cup EntryItems :
              Said'[y] = IF y = Depender THEN Said[y] \cup {item} ELSE Said[y]
         /\ item \notin EntryItems => Said'[item] = {}
<1> DEFINE S == LinkEntry(item, FALSE)
<1>1. S = LinkEntry(item, FALSE)
  OBVIOUS
<1> HIDE DEF S
<1>2. /\ item \in Items /\ item \in Linked /\ item # Target /\ phase = "AddLinkEntries"
      /\ EntryList' = S.list /\ phase' = phase /\ link' = link
      /\ Following' = Following /\ Depender' = Depender /\ Done' = Done + 1
  BY <1>1, AddedEntry DEF ccgVars, order
<1>3. \A y : y \in Followed' <=> \/ y \in Followed
                                 \/ y = item /\ item \notin EntryItems /\ item \notin link.known
  BY <1>1, AddedWaiting
<1>4. EntryItems' = EntryItems \cup {item}
  BY <1>1, AddedEntryFacts DEF EntryAdded
<1>5. /\ Depender \notin Followed /\ Depender \in {Target} \cup EntryItems
      /\ Done \in Nat /\ item = Following[Done + 1]
  BY <1>2, ListFacts, NextItemFacts DEF AddLinkEntry
<1>6. ASSUME NEW y \in {Target} \cup EntryItems'
      PROVE  Said'[y] = IF y \in Followed' THEN Range(link.libraries[y])
                        ELSE IF y = Depender THEN {Following[q] : q \in 1..(Done + 1)} ELSE {}
  <2>1. Said'[y] = IF y \in Followed' THEN Range(link'.libraries[y])
                   ELSE IF phase' = "AddLinkEntries" /\ y = Depender'
                   THEN {Following'[q] : q \in 1..Done'} ELSE {}
    BY DEF Said
  <2> QED BY <1>2, <2>1
<1>7. ASSUME NEW y \in {Target} \cup EntryItems
      PROVE  Said[y] = IF y \in Followed THEN Range(link.libraries[y])
                       ELSE IF y = Depender THEN {Following[q] : q \in 1..Done} ELSE {}
  BY <1>2 DEF Said
<1>8. {Following[q] : q \in 1..(Done + 1)} = {Following[q] : q \in 1..Done} \cup {item}
  <2>1. /\ \A q \in 1..Done : q \in 1..(Done + 1)
        /\ \A q \in 1..(Done + 1) : q \in 1..Done \/ q = Done + 1
        /\ Done + 1 \in 1..(Done + 1)
    BY <1>5
  <2> QED BY <1>5, <2>1
<1>9. ASSUME NEW y \in {Target} \cup EntryItems
      PROVE  Said'[y] = IF y = Depender THEN Said[y] \cup {item} ELSE Said[y]
  <2>1. y \in Followed' <=> y \in Followed
    BY <1>2, <1>3
  <2>2. y \in {Target} \cup EntryItems'
    BY <1>4
  <2> QED BY <1>5, <1>6, <1>7, <1>8, <2>1, <2>2
<1>10. ASSUME item \notin EntryItems PROVE Said'[item] = {}
  <2>1. item \notin Followed /\ item # Depender
    <3>1. \A k \in Index : ItemOf[k] \in EntryItems
      BY EntryFacts
    <3> QED BY <1>2, <1>5, <1>10, <3>1 DEF Followed
  <2>2. item \notin link.known => Range(link.libraries[item]) = {}
    BY <1>2, ProjectFacts DEF TypeInv
  <2> QED BY <1>3, <1>4, <1>6, <1>10, <2>1, <2>2
<1> QED BY <1>9, <1>10

LEMMA AddedSaidInv ==
  ASSUME TypeInv, CollectInv, AddLinkEntry
  PROVE  SaidInv'
<1> DEFINE item == Head(libs)
           S == LinkEntry(item, FALSE)
<1>1. item = Head(libs) /\ S = LinkEntry(item, FALSE)
  OBVIOUS
<1> HIDE DEF item, S
<1>0. EntryAdded(item, S) /\ \A k \in Index' \ Index : ~EntryList'[k].IsSharedDep
  BY <1>1, AddedEntryFacts
<1>2. /\ item \in Items /\ item \in Linked /\ item # Target /\ phase = "AddLinkEntries"
      /\ EntryList' = S.list /\ link' = link /\ SharedDepQueue' = SharedDepQueue
      /\ EntryConstraintGraph' = [S.graph EXCEPT ![S.index] = @ \cup ({depender} \ {0})]
  BY <1>1, AddedEntry
<1>3. /\ Index \subseteq Index' /\ S.index \in Index' /\ ItemOf'[S.index] = item
      /\ \A k \in Index : ItemOf'[k] = ItemOf[k] /\ EntryList'[k] = EntryList[k]
      /\ \A k \in Index' : k \in Index \/ (k = S.index /\ item \notin EntryItems)
      /\ \A k \in Index' \ Index : ~EntryList'[k].IsSharedDep
      /\ item \in EntryItems => S.index \in Index
      /\ item \notin EntryItems => S.index \notin Index
      /\ EntryItems' = EntryItems \cup {item}
      /\ \A j, k \in Index' : ItemOf'[j] = ItemOf'[k] => j = k
      /\ S.graph \in [Index' -> SUBSET Index]
      /\ \A k \in Index : S.graph[k] = EntryConstraintGraph[k]
      /\ \A k \in Index' \ Index : S.graph[k] = {}
  BY <1>0 DEF EntryAdded
<1>4. /\ \A k \in Index : k \in Waiting' <=> k \in Waiting
      /\ item \notin EntryItems => (S.index \in Waiting' <=> item \in link.known)
  BY <1>1, AddedWaiting
<1>5. /\ \A y \in {Target} \cup EntryItems :
           Said'[y] = IF y = Depender THEN Said[y] \cup {item} ELSE Said[y]
      /\ item \notin EntryItems => Said'[item] = {}
  BY <1>1, AddedSaid
<1>6. /\ Depender \in {Target} \cup EntryItems
      /\ depender # 0 => depender \in Index /\ Depender = ItemOf[depender]
      /\ depender = 0 => Depender = Target
      /\ Target \notin Linked /\ EntryItems \subseteq Linked
      /\ \A k \in Index : ItemOf[k] \in EntryItems
  BY <1>2, ListFacts, LinkedFacts, EntryFacts DEF CollectInv, SaidInv, TypeInv
<1>7. Linked' = Linked /\ \A x : SharedDepsOf(x)' = SharedDepsOf(x)
  BY <1>2 DEF Linked, LinkGraph!Reachable, LinkGraph!Closed, LinkGraph!Nodes, SharedDepsOf
<1>8. \A x \in {Target} \cup EntryItems' : Said'[x] \subseteq {Target} \cup EntryItems'
  <2> SUFFICES ASSUME NEW x \in {Target} \cup EntryItems'
               PROVE  Said'[x] \subseteq {Target} \cup EntryItems'
    OBVIOUS
  <2>1. CASE x \in {Target} \cup EntryItems
    <3>1. Said[x] \subseteq {Target} \cup EntryItems
      BY <2>1 DEF CollectInv, SaidInv
    <3> QED BY <1>3, <1>5, <2>1, <3>1
  <2>2. CASE x \notin {Target} \cup EntryItems
    BY <1>3, <1>5, <2>2
  <2> QED BY <2>1, <2>2
<1>9. \A k \in Index' : ~EntryList'[k].IsSharedDep
  BY <1>3 DEF CollectInv, SaidInv
<1>10. ASSUME NEW j \in Index', NEW k \in Index'
       PROVE  j \in EntryConstraintGraph'[k] <=> ItemOf'[k] \in Said'[ItemOf'[j]]
  <2>1. EntryConstraintGraph'[k] = IF k = S.index THEN S.graph[k] \cup ({depender} \ {0}) ELSE S.graph[k]
    BY <1>2, <1>3
  <2>2. k # S.index => ItemOf'[k] # item
    BY <1>3
  <2>3. CASE j \notin Index
    <3>1. item \notin EntryItems /\ j = S.index /\ ItemOf'[j] = item
      BY <1>3, <2>3
    <3>2. j # depender \/ depender = 0
      BY <1>6, <2>3
    <3>3. j # 0
      BY DEF Index
    <3>4. j \notin S.graph[k]
      BY <1>3, <2>3
    <3> QED BY <1>5, <2>1, <3>1, <3>2, <3>3, <3>4
  <2>4. CASE j \in Index /\ k \notin Index
    <3>1. item \notin EntryItems /\ k = S.index /\ ItemOf'[k] = item /\ S.graph[k] = {}
      BY <1>3, <2>4
    <3>2. ItemOf'[j] = ItemOf[j] /\ ItemOf[j] \in EntryItems
      BY <1>3, <1>6, <2>4
    <3>3. item \notin Said[ItemOf[j]]
      BY <1>2, <3>1, <3>2 DEF CollectInv, SaidInv
    <3>4. j \in EntryConstraintGraph'[k] <=> j = depender /\ depender # 0
      BY <2>1, <3>1
    <3>5. ItemOf[j] = Depender <=> j = depender /\ depender # 0
      <4>1. 0 \notin Index
        BY DEF Index
      <4> QED BY <1>6, <2>4, <3>2, <4>1 DEF TypeInv
    <3> QED BY <1>5, <3>1, <3>2, <3>3, <3>4, <3>5
  <2>5. CASE j \in Index /\ k \in Index
    <3>1. /\ ItemOf'[j] = ItemOf[j] /\ ItemOf'[k] = ItemOf[k] /\ ItemOf[j] \in EntryItems
          /\ S.graph[k] = EntryConstraintGraph[k]
      BY <1>3, <1>6, <2>5
    <3>2. j \in EntryConstraintGraph[k] <=> ItemOf[k] \in Said[ItemOf[j]]
      BY <2>5 DEF CollectInv, SaidInv
    <3>3. ItemOf[j] = Depender <=> j = depender /\ depender # 0
      <4>1. 0 \notin Index
        BY DEF Index
      <4> QED BY <1>6, <2>5, <3>1, <4>1 DEF TypeInv
    <3>4. j \in EntryConstraintGraph'[k] <=> j \in EntryConstraintGraph[k] \/ (k = S.index /\ j = depender /\ depender # 0)
      BY <2>1, <3>1
    <3>5. ItemOf[k] = item <=> k = S.index
      BY <1>3, <2>2, <3>1
    <3> QED BY <1>5, <3>1, <3>2, <3>3, <3>4, <3>5
  <2> QED BY <2>3, <2>4, <2>5
<1>11. ASSUME NEW j \in Index' \ Waiting', NEW d \in SharedDepsOf(ItemOf'[j])
       PROVE  \E a \in 1..Len(SharedDepQueue) : SharedDepQueue[a] = [Item |-> d, DependerIndex |-> j]
  <2>1. CASE j \in Index
    <3>1. j \in Index \ Waiting /\ ItemOf'[j] = ItemOf[j]
      BY <1>3, <1>4, <2>1
    <3> QED BY <1>11, <3>1 DEF CollectInv, SaidInv
  <2>2. CASE j \notin Index
    <3>1. j = S.index /\ item \notin EntryItems /\ ItemOf'[j] = item
      BY <1>3, <2>2
    <3>2. item \notin link.known
      BY <1>4, <3>1
    <3> QED BY <1>11, <3>1, <3>2 DEF SharedDepsOf
  <2> QED BY <2>1, <2>2
<1> QED
  <2>1. EntryItems' \subseteq Linked'
    BY <1>2, <1>3, <1>6, <1>7
  <2>2. \A j \in Index' \ Waiting' : \A d \in (SharedDepsOf(ItemOf[j]))' :
          \E a \in 1..Len(SharedDepQueue') : SharedDepQueue'[a] = [Item |-> d, DependerIndex |-> j]
    BY <1>2, <1>11 DEF SharedDepsOf
  <2> QED BY <1>8, <1>9, <1>10, <2>1, <2>2 DEF SaidInv

LEMMA AddedSetsInv ==
  ASSUME TypeInv, CollectInv, AddLinkEntry
  PROVE  SetsInv'
<1> DEFINE item == Head(libs)
           S == LinkEntry(item, FALSE)
           EntriesOf(A) == {k \in Index' : ItemOf'[k] \in A}
<1>1. item = Head(libs) /\ S = LinkEntry(item, FALSE)
  OBVIOUS
<1>2. dependSets' = [j \in DOMAIN dependSets \cup (IF item \in link.known THEN {} ELSE {S.index}) |->
                       IF j \in DOMAIN dependSets THEN dependSets[j] \cup ({S.index} \ {j}) ELSE {}]
  BY DEF AddLinkEntry
<1> HIDE DEF item, S
<1>3. EntryAdded(item, S)
  BY <1>1, AddedEntryFacts
<1>4. /\ item \in Items /\ item \in Linked /\ item # Target /\ phase = "AddLinkEntries"
      /\ phase' = phase /\ link' = link /\ InferredDependSets' = S.infer
      /\ Following' = Following /\ Depender' = Depender /\ Done' = Done + 1
  BY <1>1, AddedEntry DEF order, ccgVars
<1>5. /\ Index \subseteq Index' /\ S.index \in Index' /\ ItemOf'[S.index] = item
      /\ \A k \in Index : ItemOf'[k] = ItemOf[k]
      /\ \A k \in Index' : k \in Index \/ (k = S.index /\ item \notin EntryItems)
      /\ item \in EntryItems => S.index \in Index
      /\ item \notin EntryItems => S.index \notin Index
      /\ \A j, k \in Index' : ItemOf'[j] = ItemOf'[k] => j = k
      /\ \A k \in Index : S.infer[k] = InferredDependSets[k]
      /\ \A k \in Index' \ Index : S.infer[k] = {}
  BY <1>3 DEF EntryAdded
<1>6. /\ \A y : y \in Followed' <=> \/ y \in Followed
                                    \/ y = item /\ item \notin EntryItems /\ item \notin link.known
      /\ Said'[Depender] = Said[Depender] \cup {item}
  <2>1. Depender \in {Target} \cup EntryItems
    BY <1>4, ListFacts
  <2> QED BY <1>1, <2>1, AddedWaiting, AddedSaid
<1>7. /\ Done \in Nat /\ item = Following[Done + 1] /\ Depender \in {Target} \cup EntryItems
      /\ Said[Depender] = {Following[q] : q \in 1..Done}
      /\ \A k \in Index : ItemOf[k] \in EntryItems
  BY <1>1, <1>4, ListFacts, NextItemFacts, EntryFacts DEF AddLinkEntry
<1>8. ASSUME NEW A, item \in EntryItems \/ item \notin A PROVE EntriesOf(A) = Entries(A)
  BY <1>5, <1>8 DEF Entries
<1>9. \A x \in {Target} \cup EntryItems : Said[x] \subseteq {Target} \cup EntryItems
  BY DEF CollectInv, SaidInv
<1>10. ASSUME NEW x \in Followed
       PROVE  x \in {Target} \cup EntryItems /\ Range(link.libraries[x]) \subseteq {Target} \cup EntryItems
  <2>1. x \in {Target} \cup EntryItems
    BY <1>7 DEF Followed
  <2>2. Said[x] = Range(link.libraries[x])
    BY <2>1 DEF Said
  <2> QED BY <1>9, <2>1, <2>2
<1>11. ASSUME NEW x \in Followed, NEW y
       PROVE  FollowSet(y, link.libraries[x]) \subseteq Range(link.libraries[x]) \ {Target}
  <2> DEFINE list == link.libraries[x]
  <2>1. x \in Items
    BY <1>10, ProjectFacts, EntryFacts DEF TypeInv
  <2>2. Range(list) = {list[q] : q \in 1..Len(list)}
    BY <2>1, ProjectFacts DEF TypeInv
  <2> HIDE DEF list
  <2>3. FollowSet(y, list) \subseteq Range(list) \ {Target}
    BY <2>2 DEF FollowSet
  <2> QED BY <2>3 DEF list
<1>12. ASSUME NEW k \in Index'
       PROVE  InferredDependSets'[k] =
                IF ItemOf'[k] \in link.known THEN {}
                ELSE {EntriesOf(FollowSet(ItemOf'[k], link.libraries[x])) :
                        x \in {y \in Followed' : ItemOf'[k] \in Range(link.libraries[y])}}
  <2> DEFINE Having(F) == {y \in F : ItemOf'[k] \in Range(link.libraries[y])}
  <2>1. Having(Followed') = Having(Followed)
    <3>1. item \notin link.known => Range(link.libraries[item]) = {}
      BY <1>4, ProjectFacts DEF TypeInv
    <3> QED BY <1>6, <3>1
  <2>2. ASSUME NEW x \in Followed
        PROVE  EntriesOf(FollowSet(ItemOf'[k], link.libraries[x])) = Entries(FollowSet(ItemOf'[k], link.libraries[x]))
    <3>1. item \in EntryItems \/ item \notin FollowSet(ItemOf'[k], link.libraries[x])
      BY <1>4, <1>10, <1>11
    <3> HIDE DEF EntriesOf
    <3> QED BY <1>8, <3>1
  <2> HIDE DEF EntriesOf
  <2>3. {EntriesOf(FollowSet(ItemOf'[k], link.libraries[x])) : x \in Having(Followed)} =
        {Entries(FollowSet(ItemOf'[k], link.libraries[x])) : x \in Having(Followed)}
    BY <2>2
  <2>4. CASE k \in Index
    <3>1. ItemOf'[k] = ItemOf[k] /\ InferredDependSets'[k] = InferredDependSets[k]
      BY <1>4, <1>5, <2>4
    <3>2. InferredDependSets[k] =
            IF ItemOf[k] \in link.known THEN {}
            ELSE {Entries(FollowSet(ItemOf[k], link.libraries[x])) :
                    x \in {y \in Followed : ItemOf[k] \in Range(link.libraries[y])}}
      BY <2>4 DEF CollectInv, SetsInv
    <3> QED BY <2>1, <2>3, <3>1, <3>2
  <2>5. CASE k \notin Index
    <3>1. ItemOf'[k] = item /\ item \notin EntryItems /\ InferredDependSets'[k] = {}
      BY <1>4, <1>5, <2>5
    <3>2. Having(Followed) = {}
      BY <1>4, <1>10, <3>1
    <3> QED BY <2>1, <2>3, <3>1, <3>2
  <2> QED BY <2>4, <2>5
<1>13. DOMAIN dependSets = Entries(Said[Depender] \ link.known)
  BY <1>4 DEF CollectInv, SetsInv
<1>14. DOMAIN dependSets' = EntriesOf(Said'[Depender] \ link.known)
  <2>1. DOMAIN dependSets' = DOMAIN dependSets \cup (IF item \in link.known THEN {} ELSE {S.index})
    BY <1>2
  <2>2. EntriesOf(Said'[Depender] \ link.known) =
          EntriesOf(Said[Depender] \ link.known) \cup (IF item \in link.known THEN {} ELSE {S.index})
    BY <1>5, <1>6
  <2>3. EntriesOf(Said[Depender] \ link.known) = Entries(Said[Depender] \ link.known)
    <3>1. item \in EntryItems \/ item \notin Said[Depender] \ link.known
      BY <1>4, <1>7, <1>9
    <3> HIDE DEF EntriesOf
    <3> QED BY <1>8, <3>1
  <2> QED BY <1>13, <2>1, <2>2, <2>3
<1>15. ASSUME NEW k \in DOMAIN dependSets'
       PROVE  dependSets'[k] = EntriesOf(FollowUpTo(ItemOf'[k], Following, Done + 1))
  <2>1. CASE k \in DOMAIN dependSets
    <3>1. /\ k \in Index /\ ItemOf[k] \in Said[Depender] /\ ItemOf'[k] = ItemOf[k]
      BY <1>5, <1>13, <2>1 DEF Entries
    <3>2. dependSets'[k] = dependSets[k] \cup ({S.index} \ {k})
      BY <1>2, <2>1
    <3>3. dependSets[k] = Entries(FollowUpTo(ItemOf[k], Following, Done))
      BY <1>4, <2>1 DEF CollectInv, SetsInv
    <3> DEFINE x == ItemOf[k]
               A == FollowUpTo(x, Following, Done)
    <3>4. /\ FollowUpTo(x, Following, Done + 1) = A \cup ({item} \ {x, Target})
          /\ A \subseteq Said[Depender]
      <4>1. x \in {Following[q] : q \in 1..Done}
        BY <1>7, <3>1
      <4> HIDE DEF x
      <4> QED BY <1>7, <4>1, FollowedSoFar
    <3>5. EntriesOf(A) = Entries(A)
      <4>1. item \in EntryItems \/ item \notin A
        BY <1>4, <1>7, <1>9, <3>4
      <4> HIDE DEF EntriesOf, A
      <4> QED BY <1>8, <4>1
    <3> HIDE DEF A
    <3>6. EntriesOf(A \cup ({item} \ {x, Target})) = EntriesOf(A) \cup ({S.index} \ {k})
      BY <1>4, <1>5, <3>1
    <3> HIDE DEF EntriesOf
    <3> QED BY <3>1, <3>2, <3>3, <3>4, <3>5, <3>6 DEF A
  <2>2. CASE k \notin DOMAIN dependSets
    <3>1. k = S.index /\ item \notin link.known /\ dependSets'[k] = {}
      BY <1>2, <2>2
    <3>2. item \notin Said[Depender]
      <4> SUFFICES ASSUME item \in Said[Depender] PROVE FALSE
        OBVIOUS
      <4>1. item \in EntryItems
        BY <1>4, <1>7, <1>9
      <4>2. S.index \in Index /\ ItemOf[S.index] = item
        BY <1>5, <4>1
      <4> QED BY <1>13, <2>2, <3>1, <4>2 DEF Entries
    <3>3. FollowUpTo(item, Following, Done + 1) = {}
      <4>1. item \notin {Following[q] : q \in 1..Done}
        BY <1>7, <3>2
      <4> QED BY <1>7, <4>1, FollowedSoFar
    <3> QED BY <1>5, <3>1, <3>3
  <2> QED BY <2>1, <2>2
<1> QED
  <2>1. \A k \in Index' : InferredDependSets'[k] =
          IF ItemOf'[k] \in link'.known THEN {}
          ELSE {EntriesOf(FollowSet(ItemOf'[k], link'.libraries[x])) :
                  x \in {y \in Followed' : ItemOf'[k] \in Range(link'.libraries[y])}}
    <3>1. link' = link
      BY <1>4
    <3> HIDE DEF EntriesOf
    <3> QED BY <1>12, <3>1, Zenon
  <2>2. DOMAIN dependSets' = IF phase' = "AddLinkEntries"
                             THEN EntriesOf(Said'[Depender'] \ link'.known) ELSE {}
    BY <1>4, <1>14
  <2>3. \A k \in DOMAIN dependSets' : dependSets'[k] = EntriesOf(FollowUpTo(ItemOf'[k], Following', Done'))
    BY <1>4, <1>15
  <2> QED BY <2>1, <2>2, <2>3 DEF SetsInv, Entries

---------------------------------------------------------------------------
(* The other steps of the search.                                           *)
LEMMA SameProject ==
  ASSUME link' = link
  PROVE  /\ Linked' = Linked /\ Shared' = Shared /\ Lists' = Lists /\ Precedes' = Precedes
         /\ \A x : (SharedDepsOf(x))' = SharedDepsOf(x) /\ (Listed(x))' = Listed(x)
  BY DEF Linked, Shared, Lists, Precedes, SharedDepsOf, Listed, FollowSet,
         LinkGraph!Reachable, LinkGraph!Closed, LinkGraph!Nodes,
         SharedGraph!Reachable, SharedGraph!Closed, SharedGraph!Nodes

LEMMA SameEntries ==
  ASSUME EntryList' = EntryList
  PROVE  /\ Index' = Index /\ ItemOf' = ItemOf /\ EntryItems' = EntryItems
         /\ Dependency' = Dependency /\ \A A : (Entries(A))' = Entries(A)
<1>1. Index' = Index
  BY DEF Index
<1>2. ItemOf' = ItemOf
  BY DEF ItemOf, Index
<1> QED BY <1>1, <1>2 DEF EntryItems, Dependency, Entries

LEMMA SameTypes ==
  ASSUME TypeInv, UNCHANGED <<link, EntryList, SharedDepQueue, InferredDependSets, EntryConstraintGraph>>,
         phase' \in {"Target", "AddLinkEntries", "BFS", "Shared", "Components", "Order", "done"}
  PROVE  TypeInv'
<1>1. /\ Index' = Index /\ ItemOf' = ItemOf /\ Dependency' = Dependency
      /\ \A x : (SharedDepsOf(x))' = SharedDepsOf(x)
  BY SameProject, SameEntries
<1>2. \A a \in 1..Len(SharedDepQueue') :
        (SharedDepQueue[a].Item \in SharedDepsOf(ItemOf[SharedDepQueue[a].DependerIndex]))'
  BY <1>1 DEF TypeInv, SharedDepsOf
<1> QED BY <1>1, <1>2 DEF TypeInv

LEMMA SkippedTarget ==
  ASSUME TypeInv, CollectInv, SkipTarget
  PROVE  TypeInv' /\ CollectInv'
<1>1. /\ phase = "AddLinkEntries" /\ phase' = phase /\ libs # <<>> /\ Head(libs) = Target
      /\ libs' = Tail(libs)
      /\ UNCHANGED <<link, EntryList, BFSQueue, InferredDependSets, EntryConstraintGraph,
                     depender, dependSets, SharedDepQueue>>
  BY DEF SkipTarget, entries
<1>2. /\ Index' = Index /\ ItemOf' = ItemOf /\ EntryItems' = EntryItems
      /\ Linked' = Linked /\ Waiting' = Waiting /\ Depender' = Depender /\ Following' = Following
      /\ Followed' = Followed
  BY <1>1, SameProject, SameEntries DEF Waiting, Depender, Following, Followed
<1>3. TypeInv'
  BY <1>1, SameTypes DEF TypeInv
<1>4. /\ Target = Following[Done + 1] /\ Done \in Nat
      /\ libs' \in Seq(Items) /\ Done' = Done + 1 /\ Len(libs') <= Len(Following)
      /\ \A q \in 1..Len(libs') : libs'[q] = Following[Done + 1 + q]
      /\ Depender \in {Target} \cup EntryItems /\ Depender \notin Followed
      /\ Said[Depender] = {Following[q] : q \in 1..Done}
      /\ Target \in link.known /\ Target \notin EntryItems
  <2>1. Len(Following) - Len(libs') = Done + 1 /\ Target \notin EntryItems
    BY <1>1, NextItemFacts, LinkedFacts DEF CollectInv, SaidInv, TypeInv
  <2>2. Done' = Done + 1
    BY <1>2, <2>1 DEF Done
  <2> QED BY <1>1, <2>1, <2>2, ListFacts, NextItemFacts, ProjectFacts DEF TypeInv
<1>5. QueueInv'
  <2>1. \A q \in 1..Len(libs') : libs'[q] = Following'[Done' + q]
    BY <1>2, <1>4
  <2> QED BY <1>1, <1>2, <1>4, <2>1 DEF CollectInv, QueueInv
<1>6. \A x \in {Target} \cup EntryItems : Said'[x] = IF x = Depender THEN Said[x] \cup {Target} ELSE Said[x]
  <2> SUFFICES ASSUME NEW x \in {Target} \cup EntryItems
               PROVE  Said'[x] = IF x = Depender THEN Said[x] \cup {Target} ELSE Said[x]
    OBVIOUS
  <2>1. Said[x] = IF x \in Followed THEN Range(link.libraries[x])
                  ELSE IF x = Depender THEN {Following[q] : q \in 1..Done} ELSE {}
    BY <1>1 DEF Said
  <2>2. Said'[x] = IF x \in Followed THEN Range(link.libraries[x])
                   ELSE IF x = Depender THEN {Following[q] : q \in 1..(Done + 1)} ELSE {}
    <3>1. x \in {Target} \cup EntryItems'
      BY <1>2
    <3>2. Said'[x] = IF x \in Followed' THEN Range(link'.libraries[x])
                     ELSE IF phase' = "AddLinkEntries" /\ x = Depender'
                     THEN {Following'[q] : q \in 1..Done'} ELSE {}
      BY <3>1 DEF Said
    <3> QED BY <1>1, <1>2, <1>4, <3>2
  <2>3. {Following[q] : q \in 1..(Done + 1)} = {Following[q] : q \in 1..Done} \cup {Target}
    <3>1. /\ \A q \in 1..Done : q \in 1..(Done + 1)
          /\ \A q \in 1..(Done + 1) : q \in 1..Done \/ q = Done + 1
          /\ Done + 1 \in 1..(Done + 1)
      BY <1>4
    <3> QED BY <1>4, <3>1
  <2> QED BY <1>4, <2>1, <2>2, <2>3
<1>7. SaidInv'
  <2>1. \A x \in {Target} \cup EntryItems' : Said'[x] \subseteq {Target} \cup EntryItems'
    BY <1>2, <1>6 DEF CollectInv, SaidInv
  <2>2. \A j, k \in Index : j \in EntryConstraintGraph[k] <=> ItemOf[k] \in Said'[ItemOf[j]]
    <3>1. \A k \in Index : ItemOf[k] \in EntryItems
      BY EntryFacts
    <3>2. \A j, k \in Index : ItemOf[k] \in Said'[ItemOf[j]] <=> ItemOf[k] \in Said[ItemOf[j]]
      BY <1>4, <1>6, <3>1
    <3> QED BY <3>2 DEF CollectInv, SaidInv
  <2>3. \A j \in Index' \ Waiting' : \A d \in (SharedDepsOf(ItemOf[j]))' :
          \E a \in 1..Len(SharedDepQueue') : SharedDepQueue'[a] = [Item |-> d, DependerIndex |-> j]
    BY <1>1, <1>2 DEF CollectInv, SaidInv, SharedDepsOf
  <2>4. EntryItems' \subseteq Linked' /\ \A k \in Index' : ~EntryList'[k].IsSharedDep
    BY <1>1, <1>2 DEF CollectInv, SaidInv
  <2>5. \A j, k \in Index' : j \in EntryConstraintGraph'[k] <=> ItemOf'[k] \in Said'[ItemOf'[j]]
    BY <1>1, <1>2, <2>2
  <2> QED BY <2>1, <2>3, <2>4, <2>5 DEF SaidInv
<1>8. SetsInv'
  <2> DEFINE EntriesOf(A) == {k \in Index' : ItemOf'[k] \in A}
  <2>1. \A A : EntriesOf(A) = Entries(A)
    BY <1>2 DEF Entries
  <2>2. \A k \in Index' : InferredDependSets'[k] =
          IF ItemOf'[k] \in link'.known THEN {}
          ELSE {EntriesOf(FollowSet(ItemOf'[k], link'.libraries[x])) :
                  x \in {y \in Followed' : ItemOf'[k] \in Range(link'.libraries[y])}}
    <3> HIDE DEF EntriesOf
    <3>1. \A k \in Index' : InferredDependSets'[k] =
            IF ItemOf'[k] \in link'.known THEN {}
            ELSE {Entries(FollowSet(ItemOf'[k], link'.libraries[x])) :
                    x \in {y \in Followed' : ItemOf'[k] \in Range(link'.libraries[y])}}
      BY <1>1, <1>2 DEF CollectInv, SetsInv
    <3> QED BY <2>1, <3>1
  <2>3. DOMAIN dependSets' = IF phase' = "AddLinkEntries" THEN EntriesOf(Said'[Depender'] \ link'.known) ELSE {}
    <3> HIDE DEF EntriesOf
    <3>1. Said'[Depender] \ link.known = Said[Depender] \ link.known
      BY <1>4, <1>6
    <3> QED BY <1>1, <1>2, <2>1, <3>1 DEF CollectInv, SetsInv
  <2>4. ASSUME NEW k \in DOMAIN dependSets
        PROVE  dependSets[k] = Entries(FollowUpTo(ItemOf[k], Following, Done + 1))
    <3> DEFINE x == ItemOf[k]
    <3>1. /\ dependSets[k] = Entries(FollowUpTo(x, Following, Done))
          /\ x \in {Following[q] : q \in 1..Done}
      BY <1>1, <1>4, <2>4 DEF CollectInv, SetsInv, Entries
    <3> HIDE DEF x
    <3>2. FollowUpTo(x, Following, Done + 1) = FollowUpTo(x, Following, Done)
      <4>1. FollowUpTo(x, Following, Done + 1) =
              FollowUpTo(x, Following, Done) \cup ({Following[Done + 1]} \ {x, Target})
        BY <1>4, <3>1, FollowedSoFar
      <4> QED BY <1>4, <4>1
    <3> QED BY <3>1, <3>2 DEF x
  <2>5. \A k \in DOMAIN dependSets' : dependSets'[k] = EntriesOf(FollowUpTo(ItemOf'[k], Following', Done'))
    <3> HIDE DEF EntriesOf
    <3> QED BY <1>1, <1>2, <1>4, <2>1, <2>4
  <2> QED BY <2>2, <2>3, <2>5 DEF SetsInv, Entries
<1> QED BY <1>3, <1>5, <1>7, <1>8 DEF CollectInv

LEMMA FollowedTarget ==
  ASSUME TypeInv, CollectInv, FollowTarget
  PROVE  TypeInv' /\ CollectInv'
<1>1. /\ phase = "Target" /\ phase' = "AddLinkEntries" /\ EntryList = <<>> /\ depender = 0
      /\ libs' = link.libraries[Target]
      /\ UNCHANGED <<link, EntryList, BFSQueue, InferredDependSets, EntryConstraintGraph,
                     depender, dependSets, SharedDepQueue>>
  BY DEF FollowTarget, entries, CollectInv, QueueInv
<1>2. /\ Index' = {} /\ EntryItems' = {} /\ Waiting' = {}
      /\ Linked' = Linked /\ Depender' = Target /\ Following' = link.libraries[Target]
  <2>1. Index' = {} /\ Index = {}
    BY <1>1 DEF Index
  <2>2. EntryItems' = {}
    BY <2>1 DEF EntryItems
  <2>3. Waiting' = {}
    <3>1. BFSQueue \in Seq({})
      BY <2>1 DEF CollectInv, QueueInv
    <3>2. \A a \in 1..Len(BFSQueue) : FALSE
      BY <3>1, ElementOfSeq
    <3> QED BY <1>1, <3>2 DEF Waiting
  <2>4. Depender' = Target
    BY <1>1 DEF Depender
  <2>5. Following' = link.libraries[Target]
    BY <1>1, <2>4 DEF Following
  <2> QED BY <1>1, <2>1, <2>2, <2>3, <2>4, <2>5, SameProject
<1>3. TypeInv'
  BY <1>1, SameTypes DEF TypeInv
<1>4. libs' \in Seq(Items) /\ Len(libs') \in Nat /\ Done' = 0 /\ Len(libs') = Len(Following')
  <2>1. libs' \in Seq(Items)
    BY <1>1, ProjectFacts DEF TypeInv
  <2>2. Len(libs') \in Nat
    BY <2>1, LenProperties
  <2>3. Done' = Len(Following') - Len(libs')
    BY DEF Done
  <2> QED BY <1>1, <1>2, <2>1, <2>2, <2>3
<1>5. QueueInv'
  <2>1. \A q \in 1..Len(libs') : libs'[q] = Following'[Done' + q]
    BY <1>1, <1>2, <1>4
  <2>2. BFSQueue' \in Seq(Index') /\ \A a, b \in 1..Len(BFSQueue') : BFSQueue'[a] = BFSQueue'[b] => a = b
    BY <1>1, SameEntries DEF CollectInv, QueueInv
  <2> QED BY <1>1, <1>2, <1>4, <2>1, <2>2 DEF QueueInv
<1>6. Target \notin Followed' /\ Followed' = {}
  BY <1>1, <1>2 DEF Followed
<1>7. Said'[Target] = {}
  <2>1. Said'[Target] = {Following'[q] : q \in 1..Done'}
    BY <1>1, <1>2, <1>6 DEF Said
  <2> QED BY <1>4, <2>1
<1>8. SaidInv'
  BY <1>2, <1>7 DEF SaidInv
<1>9. SetsInv'
  <2>1. dependSets = [j \in {} |-> {}] \/ DOMAIN dependSets = {}
    BY <1>1 DEF CollectInv, SetsInv
  <2>2. DOMAIN dependSets' = {}
    BY <1>1, <2>1
  <2>3. {k \in Index' : ItemOf'[k] \in (Said[Depender])' \ link'.known} = {}
    BY <1>2
  <2> QED BY <1>1, <1>2, <2>2, <2>3 DEF SetsInv, Entries
<1> QED BY <1>3, <1>5, <1>8, <1>9 DEF CollectInv

LEMMA SharedsFacts ==
  ASSUME link \in Links, NEW k, NEW K, k \in Index', K = Shareds(k), ItemOf'[k] \in Items
  PROVE  /\ K \in Seq(Dependency')
         /\ \A a \in 1..Len(K) : K[a].DependerIndex = k /\ K[a].Item \in SharedDepsOf(ItemOf'[k])
         /\ \A d \in SharedDepsOf(ItemOf'[k]) :
              \E a \in 1..Len(K) : K[a] = [Item |-> d, DependerIndex |-> k]
<1> DEFINE x == ItemOf'[k]
           deps == IF x \in link.known THEN link.sharedDeps[x] ELSE <<>>
<1>1. EntryList'[k].Item = x
  BY DEF ItemOf
<1>2. K = [d \in 1..Len(deps) |-> [Item |-> deps[d], DependerIndex |-> k]]
  BY <1>1 DEF Shareds
<1>3. deps \in Seq(Items) /\ SharedDepsOf(x) = {deps[q] : q \in 1..Len(deps)}
  <2>1. CASE x \in link.known
    BY <2>1, ProjectFacts
  <2>2. CASE x \notin link.known
    BY <2>2 DEF SharedDepsOf
  <2> QED BY <2>1, <2>2
<1> HIDE DEF x, deps
<1>4. Len(deps) \in Nat /\ \A d \in 1..Len(deps) : deps[d] \in Items
  BY <1>3, LenProperties, ElementOfSeq
<1>5. \A d \in 1..Len(deps) : [Item |-> deps[d], DependerIndex |-> k] \in Dependency'
  BY <1>4 DEF Dependency
<1>6. Len(K) = Len(deps) /\ K \in Seq(Dependency')
  BY <1>2, <1>4, <1>5
<1>7. \A a \in 1..Len(K) : K[a] = [Item |-> deps[a], DependerIndex |-> k]
  BY <1>2, <1>6
<1>8. \A a \in 1..Len(K) : K[a].DependerIndex = k /\ K[a].Item \in SharedDepsOf(x)
  <2> SUFFICES ASSUME NEW a \in 1..Len(K) PROVE K[a].DependerIndex = k /\ K[a].Item \in SharedDepsOf(x)
    OBVIOUS
  <2>1. a \in 1..Len(deps)
    BY <1>6
  <2>2. K[a] = [Item |-> deps[a], DependerIndex |-> k]
    BY <1>7
  <2> DEFINE dep == K[a]
  <2>3. dep = [Item |-> deps[a], DependerIndex |-> k]
    BY <2>2
  <2> HIDE DEF dep
  <2>4. dep.DependerIndex = k /\ dep.Item = deps[a]
    BY <2>3
  <2>5. deps[a] \in SharedDepsOf(x)
    BY <1>3, <2>1
  <2> QED BY <2>4, <2>5 DEF dep
<1>9. \A d \in SharedDepsOf(x) : \E a \in 1..Len(K) : K[a] = [Item |-> d, DependerIndex |-> k]
  <2> SUFFICES ASSUME NEW d \in SharedDepsOf(x)
               PROVE  \E a \in 1..Len(K) : K[a] = [Item |-> d, DependerIndex |-> k]
    OBVIOUS
  <2>1. PICK q \in 1..Len(deps) : deps[q] = d
    BY <1>3
  <2>2. q \in 1..Len(K)
    BY <1>6
  <2>3. K[q] = [Item |-> d, DependerIndex |-> k]
    BY <1>7, <2>1, <2>2
  <2> QED BY <2>2, <2>3
<1> QED BY <1>6, <1>8, <1>9 DEF x

LEMMA JoinedFacts ==
  ASSUME NEW D, NEW s \in Seq(D), NEW t \in Seq(D), NEW u, u = s \o t
  PROVE  /\ u \in Seq(D) /\ Len(u) \in Nat /\ Len(s) \in Nat /\ Len(t) \in Nat
         /\ \A a \in 1..Len(s) : a \in 1..Len(u) /\ u[a] = s[a]
         /\ \A a \in 1..Len(t) : Len(s) + a \in 1..Len(u) /\ u[Len(s) + a] = t[a]
         /\ \A a \in 1..Len(u) : \/ a \in 1..Len(s) /\ u[a] = s[a]
                                 \/ \E b \in 1..Len(t) : u[a] = t[b]
<1>1. /\ u \in Seq(D) /\ Len(s) \in Nat /\ Len(t) \in Nat /\ Len(u) = Len(s) + Len(t)
      /\ \A a \in 1..Len(s) + Len(t) : u[a] = IF a <= Len(s) THEN s[a] ELSE t[a - Len(s)]
  BY ConcatProperties, LenProperties
<1>2. \A a \in 1..Len(s) : a \in 1..Len(u) /\ u[a] = s[a]
  BY <1>1
<1>3. \A a \in 1..Len(t) : Len(s) + a \in 1..Len(u) /\ u[Len(s) + a] = t[a]
  <2> SUFFICES ASSUME NEW a \in 1..Len(t) PROVE Len(s) + a \in 1..Len(u) /\ u[Len(s) + a] = t[a]
    OBVIOUS
  <2>1. Len(s) + a \in 1..Len(s) + Len(t) /\ ~(Len(s) + a <= Len(s)) /\ Len(s) + a - Len(s) = a
    BY <1>1
  <2>2. u[Len(s) + a] = t[Len(s) + a - Len(s)]
    BY <1>1, <2>1
  <2> QED BY <1>1, <2>1, <2>2
<1>4. \A a \in 1..Len(u) : \/ a \in 1..Len(s) /\ u[a] = s[a]
                           \/ \E b \in 1..Len(t) : u[a] = t[b]
  <2> SUFFICES ASSUME NEW a \in 1..Len(u), a \notin 1..Len(s) PROVE \E b \in 1..Len(t) : u[a] = t[b]
    BY <1>2
  <2>1. a - Len(s) \in 1..Len(t) /\ ~(a <= Len(s))
    BY <1>1
  <2> QED BY <1>1, <2>1
<1>5. Len(u) \in Nat
  BY <1>1
<1> QED BY <1>1, <1>2, <1>3, <1>4, <1>5

LEMMA FollowedEntry ==
  ASSUME TypeInv, CollectInv, FollowLinkEntry
  PROVE  TypeInv' /\ CollectInv'
<1> DEFINE h == Head(BFSQueue)
<1>1. /\ phase = "BFS" /\ phase' = "AddLinkEntries" /\ BFSQueue # <<>> /\ BFSQueue' = Tail(BFSQueue)
      /\ depender = 0 /\ depender' = h /\ libs' = link.libraries[EntryList[h].Item]
      /\ SharedDepQueue' = SharedDepQueue \o Shareds(h)
      /\ UNCHANGED <<link, EntryList, InferredDependSets, EntryConstraintGraph, dependSets>>
      /\ BFSQueue \in Seq(Index) /\ \A a, b \in 1..Len(BFSQueue) : BFSQueue[a] = BFSQueue[b] => a = b
  BY DEF FollowLinkEntry, CollectInv, QueueInv
<1>2. /\ h = BFSQueue[1] /\ h \in Index
      /\ BFSQueue' \in Seq(Index) /\ Len(BFSQueue) \in Nat \ {0} /\ Len(BFSQueue') = Len(BFSQueue) - 1
      /\ \A a \in 1..Len(BFSQueue') : a + 1 \in 1..Len(BFSQueue) /\ BFSQueue'[a] = BFSQueue[a + 1]
  BY <1>1, CGP!PoppedFront
<1>3. h \in Waiting /\ Waiting' = Waiting \ {h}
  <2>1. 1 \in 1..Len(BFSQueue) /\ \A a \in 1..Len(BFSQueue) : a = 1 \/ a - 1 \in 1..Len(BFSQueue')
    BY <1>2
  <2>2. \A a \in 1..Len(BFSQueue) : a = 1 \/ BFSQueue[a] = BFSQueue'[a - 1]
    <3> SUFFICES ASSUME NEW a \in 1..Len(BFSQueue), a # 1 PROVE BFSQueue[a] = BFSQueue'[a - 1]
      OBVIOUS
    <3>1. a - 1 \in 1..Len(BFSQueue') /\ (a - 1) + 1 = a
      BY <2>1
    <3>2. BFSQueue'[a - 1] = BFSQueue[(a - 1) + 1]
      BY <1>2, <3>1
    <3> QED BY <3>1, <3>2
  <2>3. Waiting = {BFSQueue[a] : a \in 1..Len(BFSQueue)} /\ Waiting' = {BFSQueue'[a] : a \in 1..Len(BFSQueue')}
    BY DEF Waiting
  <2>4. \A a \in 1..Len(BFSQueue') : BFSQueue'[a] \in Waiting /\ BFSQueue'[a] # h
    <3> SUFFICES ASSUME NEW a \in 1..Len(BFSQueue') PROVE BFSQueue'[a] \in Waiting /\ BFSQueue'[a] # h
      OBVIOUS
    <3>1. a + 1 \in 1..Len(BFSQueue) /\ BFSQueue'[a] = BFSQueue[a + 1] /\ a + 1 # 1
      BY <1>2
    <3> QED BY <1>1, <1>2, <2>1, <2>3, <3>1
  <2>5. \A a \in 1..Len(BFSQueue) : BFSQueue[a] = h \/ BFSQueue[a] \in Waiting'
    BY <1>2, <2>1, <2>2, <2>3
  <2>6. h \in Waiting
    BY <1>2, <2>1, <2>3
  <2>7. \A k \in Waiting : k = h \/ k \in Waiting'
    BY <2>3, <2>5
  <2>8. \A k \in Waiting' : k \in Waiting /\ k # h
    BY <2>3, <2>4
  <2> HIDE DEF h
  <2> QED BY <2>6, <2>7, <2>8
<1>4. /\ Index' = Index /\ ItemOf' = ItemOf /\ EntryItems' = EntryItems /\ Dependency' = Dependency
      /\ Linked' = Linked /\ ItemOf[h] \in EntryItems /\ ItemOf[h] \in Items /\ EntryItems \subseteq Linked
      /\ Target \notin Linked /\ EntryList[h].Item = ItemOf[h] /\ h # 0
  BY <1>1, <1>2, SameProject, SameEntries, LinkedFacts, EntryFacts DEF TypeInv, CollectInv, SaidInv, Index
<1>5. /\ Depender' = ItemOf[h] /\ Following' = link.libraries[ItemOf[h]] /\ libs' = Following'
  <2>1. Depender' = ItemOf[h]
    BY <1>1, <1>4 DEF Depender
  <2> QED BY <1>1, <1>4, <2>1 DEF Following
<1>6. libs' \in Seq(Items) /\ Len(libs') \in Nat /\ Done' = 0
  <2>1. libs' \in Seq(Items)
    BY <1>4, <1>5, ProjectFacts DEF TypeInv
  <2>2. Len(libs') \in Nat
    BY <2>1, LenProperties
  <2>3. Done' = Len(Following') - Len(libs')
    BY DEF Done
  <2> QED BY <1>5, <2>1, <2>2, <2>3
<1>7. Followed' = Followed /\ ItemOf[h] \notin Followed
  <2>1. Followed = {Target} \cup {ItemOf[k] : k \in Index \ Waiting}
    BY <1>1 DEF Followed
  <2>2. Followed' = ({Target} \cup {ItemOf[k] : k \in Index \ (Waiting \ {h})}) \ {ItemOf[h]}
    BY <1>1, <1>3, <1>4, <1>5 DEF Followed
  <2>3. \A k \in Index : ItemOf[k] = ItemOf[h] => k = h
    BY <1>2 DEF TypeInv
  <2> QED BY <1>2, <1>3, <1>4, <2>1, <2>2, <2>3
<1>8. \A x \in {Target} \cup EntryItems : Said'[x] = Said[x]
  <2> SUFFICES ASSUME NEW x \in {Target} \cup EntryItems PROVE Said'[x] = Said[x]
    OBVIOUS
  <2>1. Said[x] = IF x \in Followed THEN Range(link.libraries[x]) ELSE {}
    BY <1>1 DEF Said
  <2>2. x \in {Target} \cup EntryItems'
    BY <1>4
  <2>3. Said'[x] = IF x \in Followed' THEN Range(link'.libraries[x])
                   ELSE IF phase' = "AddLinkEntries" /\ x = Depender'
                   THEN {Following'[q] : q \in 1..Done'} ELSE {}
    BY <2>2 DEF Said
  <2>4. {Following'[q] : q \in 1..Done'} = {}
    BY <1>6
  <2> QED BY <1>1, <1>7, <2>1, <2>3, <2>4
<1>9. Said[ItemOf[h]] = {}
  BY <1>1, <1>4, <1>7 DEF Said
<1>10. /\ SharedDepQueue' \in Seq(Dependency)
       /\ \A a \in 1..Len(SharedDepQueue) :
            a \in 1..Len(SharedDepQueue') /\ SharedDepQueue'[a] = SharedDepQueue[a]
       /\ \A a \in 1..Len(SharedDepQueue') :
            SharedDepQueue'[a].Item \in SharedDepsOf(ItemOf[SharedDepQueue'[a].DependerIndex])
       /\ \A d \in SharedDepsOf(ItemOf[h]) :
            \E a \in 1..Len(SharedDepQueue') : SharedDepQueue'[a] = [Item |-> d, DependerIndex |-> h]
  <2> DEFINE K == Shareds(h)
             queue == SharedDepQueue'
  <2>1. /\ K \in Seq(Dependency)
        /\ \A a \in 1..Len(K) : K[a].DependerIndex = h /\ K[a].Item \in SharedDepsOf(ItemOf[h])
        /\ \A d \in SharedDepsOf(ItemOf[h]) :
             \E a \in 1..Len(K) : K[a] = [Item |-> d, DependerIndex |-> h]
    <3>1. K = Shareds(h) /\ link \in Links /\ h \in Index' /\ ItemOf'[h] \in Items
      BY <1>2, <1>4 DEF TypeInv
    <3> HIDE DEF K, h
    <3>2. /\ K \in Seq(Dependency')
          /\ \A a \in 1..Len(K) : K[a].DependerIndex = h /\ K[a].Item \in SharedDepsOf(ItemOf'[h])
          /\ \A d \in SharedDepsOf(ItemOf'[h]) :
               \E a \in 1..Len(K) : K[a] = [Item |-> d, DependerIndex |-> h]
      BY <3>1, SharedsFacts
    <3> QED BY <1>4, <3>2
  <2>2. queue = SharedDepQueue \o K /\ SharedDepQueue \in Seq(Dependency)
    BY <1>1 DEF TypeInv
  <2> HIDE DEF K, h, queue
  <2>3. /\ queue \in Seq(Dependency)
        /\ \A a \in 1..Len(SharedDepQueue) : a \in 1..Len(queue) /\ queue[a] = SharedDepQueue[a]
        /\ \A a \in 1..Len(K) : Len(SharedDepQueue) + a \in 1..Len(queue) /\ queue[Len(SharedDepQueue) + a] = K[a]
        /\ \A a \in 1..Len(queue) : \/ a \in 1..Len(SharedDepQueue) /\ queue[a] = SharedDepQueue[a]
                                    \/ \E b \in 1..Len(K) : queue[a] = K[b]
    BY <2>1, <2>2, JoinedFacts
  <2>4. \A a \in 1..Len(queue) : queue[a].Item \in SharedDepsOf(ItemOf[queue[a].DependerIndex])
    <3>1. \A a \in 1..Len(SharedDepQueue) :
            SharedDepQueue[a].Item \in SharedDepsOf(ItemOf[SharedDepQueue[a].DependerIndex])
      BY DEF TypeInv
    <3> QED BY <2>1, <2>3, <3>1
  <2>5. \A d \in SharedDepsOf(ItemOf[h]) : \E a \in 1..Len(queue) : queue[a] = [Item |-> d, DependerIndex |-> h]
    BY <2>1, <2>3
  <2> QED BY <2>3, <2>4, <2>5 DEF queue
<1> HIDE DEF h
<1>11. TypeInv'
  <2>1. \A a \in 1..Len(SharedDepQueue') :
          (SharedDepQueue[a].Item \in SharedDepsOf(ItemOf[SharedDepQueue[a].DependerIndex]))'
    BY <1>1, <1>4, <1>10 DEF SharedDepsOf
  <2> QED BY <1>1, <1>4, <1>10, <2>1 DEF TypeInv
<1>12. QueueInv'
  <2>1. \A q \in 1..Len(libs') : libs'[q] = Following'[Done' + q]
    BY <1>5, <1>6
  <2>2. \A a, b \in 1..Len(BFSQueue') : BFSQueue'[a] = BFSQueue'[b] => a = b
    <3> SUFFICES ASSUME NEW a \in 1..Len(BFSQueue'), NEW b \in 1..Len(BFSQueue'), BFSQueue'[a] = BFSQueue'[b]
                 PROVE  a = b
      OBVIOUS
    <3>1. a + 1 = b + 1
      BY <1>1, <1>2
    <3> QED BY <3>1
  <2>3. \A k \in Waiting' : ItemOf'[k] \in link'.known
    BY <1>1, <1>3, <1>4 DEF CollectInv, QueueInv
  <2>4. depender' \in {0} \cup Index' /\ depender' \notin Waiting'
    BY <1>1, <1>2, <1>3, <1>4
  <2>5. Len(libs') <= Len(Following')
    BY <1>5, <1>6
  <2> QED BY <1>1, <1>2, <1>4, <1>6, <2>1, <2>2, <2>3, <2>4, <2>5 DEF QueueInv
<1>13. SaidInv'
  <2>1. EntryItems' \subseteq Linked' /\ \A k \in Index' : ~EntryList'[k].IsSharedDep
    BY <1>1, <1>4 DEF CollectInv, SaidInv
  <2>2. \A x \in {Target} \cup EntryItems' : Said'[x] \subseteq {Target} \cup EntryItems'
    BY <1>4, <1>8 DEF CollectInv, SaidInv
  <2>3. \A j, k \in Index' : j \in EntryConstraintGraph'[k] <=> ItemOf'[k] \in Said'[ItemOf'[j]]
    <3>1. \A j \in Index : ItemOf[j] \in EntryItems
      BY EntryFacts
    <3> QED BY <1>1, <1>4, <1>8, <3>1 DEF CollectInv, SaidInv
  <2>4. ASSUME NEW j \in Index \ Waiting', NEW d \in SharedDepsOf(ItemOf[j])
        PROVE  \E a \in 1..Len(SharedDepQueue') : SharedDepQueue'[a] = [Item |-> d, DependerIndex |-> j]
    <3>1. CASE j = h
      BY <1>10, <2>4, <3>1
    <3>2. CASE j # h
      <4>1. j \in Index \ Waiting
        BY <1>3, <2>4, <3>2
      <4>2. PICK a \in 1..Len(SharedDepQueue) : SharedDepQueue[a] = [Item |-> d, DependerIndex |-> j]
        BY <2>4, <4>1 DEF CollectInv, SaidInv
      <4> QED BY <1>10, <4>2
    <3> QED BY <3>1, <3>2
  <2>5. \A j \in Index' \ Waiting' : \A d \in (SharedDepsOf(ItemOf[j]))' :
          \E a \in 1..Len(SharedDepQueue') : SharedDepQueue'[a] = [Item |-> d, DependerIndex |-> j]
    BY <1>1, <1>4, <2>4 DEF SharedDepsOf
  <2> QED BY <2>1, <2>2, <2>3, <2>5 DEF SaidInv
<1>14. SetsInv'
  <2> DEFINE EntriesOf(A) == {k \in Index' : ItemOf'[k] \in A}
  <2>1. \A A : EntriesOf(A) = Entries(A)
    BY <1>4 DEF Entries
  <2>2. DOMAIN dependSets' = {}
    BY <1>1 DEF CollectInv, SetsInv
  <2>3. DOMAIN dependSets' = IF phase' = "AddLinkEntries" THEN EntriesOf(Said'[Depender'] \ link'.known) ELSE {}
    <3>1. Said'[Depender'] = {}
      BY <1>4, <1>5, <1>8, <1>9
    <3> QED BY <1>1, <2>2, <3>1
  <2>4. \A k \in Index' : InferredDependSets'[k] =
          IF ItemOf'[k] \in link'.known THEN {}
          ELSE {EntriesOf(FollowSet(ItemOf'[k], link'.libraries[x])) :
                  x \in {y \in Followed' : ItemOf'[k] \in Range(link'.libraries[y])}}
    <3> HIDE DEF EntriesOf
    <3>1. \A k \in Index' : InferredDependSets'[k] =
            IF ItemOf'[k] \in link'.known THEN {}
            ELSE {Entries(FollowSet(ItemOf'[k], link'.libraries[x])) :
                    x \in {y \in Followed' : ItemOf'[k] \in Range(link'.libraries[y])}}
      BY <1>1, <1>4, <1>7 DEF CollectInv, SetsInv
    <3> QED BY <2>1, <3>1
  <2> QED BY <2>2, <2>3, <2>4 DEF SetsInv, Entries
<1> QED BY <1>11, <1>12, <1>13, <1>14 DEF CollectInv

LEMMA StoredSets ==
  ASSUME TypeInv, CollectInv, StoreDependSets
  PROVE  TypeInv' /\ CollectInv'
<1>1. /\ phase = "AddLinkEntries" /\ phase' = "BFS" /\ libs = <<>> /\ libs' = libs
      /\ DOMAIN dependSets' = {} /\ depender' = 0
      /\ InferredDependSets' =
           [j \in Index |-> InferredDependSets[j]
              \cup (IF j \in DOMAIN dependSets THEN {dependSets[j]} ELSE {})]
      /\ UNCHANGED <<link, EntryList, BFSQueue, EntryConstraintGraph, SharedDepQueue>>
  BY DEF StoreDependSets, NoSets, Index
<1>2. /\ Index' = Index /\ ItemOf' = ItemOf /\ EntryItems' = EntryItems /\ Dependency' = Dependency
      /\ Linked' = Linked /\ Waiting' = Waiting
  BY <1>1, SameProject, SameEntries DEF Waiting
<1>3. /\ Depender \in {Target} \cup EntryItems /\ Depender \notin Followed
      /\ Said[Depender] = Range(Following) /\ Following = link.libraries[Depender]
      /\ Done = Len(Following) /\ Following \in Seq(Items) /\ Done \in Nat
      /\ Range(Following) = {Following[q] : q \in 1..Len(Following)}
      /\ \A k \in Index : ItemOf[k] \in EntryItems
  <2>1. Len(Following) \in Nat /\ Range(Following) = {Following[q] : q \in 1..Len(Following)}
    BY <1>1, ListFacts
  <2>2. Len(libs) = 0
    BY <1>1
  <2>3. Done = Len(Following)
    BY <2>1, <2>2 DEF Done
  <2> QED BY <1>1, <2>1, <2>3, ListFacts, EntryFacts DEF Following
<1>4. Followed' = Followed \cup {Depender}
  <2>1. Followed' = {Target} \cup {ItemOf[k] : k \in Index \ Waiting}
    BY <1>1, <1>2 DEF Followed
  <2>2. Followed = ({Target} \cup {ItemOf[k] : k \in Index \ Waiting}) \ {Depender}
    BY <1>1 DEF Followed
  <2>3. Depender \in {Target} \cup {ItemOf[k] : k \in Index \ Waiting}
    <3>1. depender \in {0} \cup Index /\ depender \notin Waiting
      BY DEF CollectInv, QueueInv
    <3> QED BY <3>1 DEF Depender
  <2> QED BY <2>1, <2>2, <2>3
<1>5. \A x \in {Target} \cup EntryItems : Said'[x] = Said[x]
  <2> SUFFICES ASSUME NEW x \in {Target} \cup EntryItems PROVE Said'[x] = Said[x]
    OBVIOUS
  <2>1. x # Depender => Said[x] = IF x \in Followed THEN Range(link.libraries[x]) ELSE {}
    BY <1>1 DEF Said
  <2>2. Said'[x] = IF x \in Followed' THEN Range(link.libraries[x]) ELSE {}
    BY <1>1, <1>2 DEF Said
  <2> QED BY <1>3, <1>4, <2>1, <2>2
<1>6. /\ \A k \in DOMAIN dependSets : /\ k \in Index /\ ItemOf[k] \notin link.known
                                      /\ ItemOf[k] \in Range(Following)
                                      /\ dependSets[k] = Entries(FollowSet(ItemOf[k], Following))
      /\ \A k \in Index : ItemOf[k] \notin link.known /\ ItemOf[k] \in Range(Following) => k \in DOMAIN dependSets
  <2>1. DOMAIN dependSets = Entries(Range(Following) \ link.known)
    BY <1>1, <1>3 DEF CollectInv, SetsInv
  <2>2. ASSUME NEW k \in DOMAIN dependSets
        PROVE  dependSets[k] = Entries(FollowSet(ItemOf[k], Following))
    <3>1. dependSets[k] = Entries(FollowUpTo(ItemOf[k], Following, Done))
      BY <2>2 DEF CollectInv, SetsInv
    <3>2. FollowSet(ItemOf[k], Following) = FollowUpTo(ItemOf[k], Following, Done)
      <4> DEFINE x == ItemOf[k]
                 list == Following
      <4>1. Done = Len(list)
        BY <1>3
      <4> HIDE DEF x, list
      <4>2. FollowSet(x, list) = FollowUpTo(x, list, Done)
        BY <4>1, FollowSetIsWhole
      <4> QED BY <4>2 DEF x, list
    <3> QED BY <3>1, <3>2
  <2> QED BY <2>1, <2>2 DEF Entries
<1>7. ASSUME NEW k \in Index PROVE Entries(FollowSet(ItemOf[k], Following)) \in SUBSET Index
  BY DEF Entries
<1>8. InferredDependSets' \in [Index -> SUBSET SUBSET Index]
  <2> SUFFICES ASSUME NEW k \in Index PROVE InferredDependSets'[k] \in SUBSET SUBSET Index
    BY <1>1
  <2>1. InferredDependSets[k] \in SUBSET SUBSET Index
    BY DEF TypeInv
  <2>2. k \in DOMAIN dependSets => dependSets[k] \in SUBSET Index
    BY <1>6, <1>7
  <2> QED BY <1>1, <2>1, <2>2
<1>9. TypeInv'
  <2>1. \A a \in 1..Len(SharedDepQueue') :
          (SharedDepQueue[a].Item \in SharedDepsOf(ItemOf[SharedDepQueue[a].DependerIndex]))'
    BY <1>1, <1>2 DEF TypeInv, SharedDepsOf
  <2> QED BY <1>1, <1>2, <1>8, <2>1 DEF TypeInv
<1>10. QueueInv'
  <2>1. 0 \notin Waiting
    BY ElementOfSeq DEF CollectInv, QueueInv, Waiting, Index
  <2>2. depender' \in {0} \cup Index' /\ depender' \notin Waiting'
    BY <1>1, <1>2, <2>1
  <2> QED BY <1>1, <1>2, <2>2 DEF CollectInv, QueueInv
<1>11. SaidInv'
  <2>1. \A j \in Index' \ Waiting' : \A d \in (SharedDepsOf(ItemOf[j]))' :
          \E a \in 1..Len(SharedDepQueue') : SharedDepQueue'[a] = [Item |-> d, DependerIndex |-> j]
    BY <1>1, <1>2 DEF CollectInv, SaidInv, SharedDepsOf
  <2>2. EntryItems' \subseteq Linked' /\ \A k \in Index' : ~EntryList'[k].IsSharedDep
    BY <1>1, <1>2 DEF CollectInv, SaidInv
  <2>3. \A x \in {Target} \cup EntryItems' : Said'[x] \subseteq {Target} \cup EntryItems'
    BY <1>2, <1>5 DEF CollectInv, SaidInv
  <2>4. \A j, k \in Index' : j \in EntryConstraintGraph'[k] <=> ItemOf'[k] \in Said'[ItemOf'[j]]
    BY <1>1, <1>2, <1>3, <1>5 DEF CollectInv, SaidInv
  <2> QED BY <2>1, <2>2, <2>3, <2>4 DEF SaidInv
<1>12. SetsInv'
  <2> DEFINE EntriesOf(A) == {k \in Index' : ItemOf'[k] \in A}
  <2>1. \A A : EntriesOf(A) = Entries(A)
    BY <1>2 DEF Entries
  <2>2. ASSUME NEW k \in Index
        PROVE  InferredDependSets'[k] =
                 IF ItemOf[k] \in link.known THEN {}
                 ELSE {Entries(FollowSet(ItemOf[k], link.libraries[x])) :
                         x \in {y \in Followed' : ItemOf[k] \in Range(link.libraries[y])}}
    <3> DEFINE Having(F) == {y \in F : ItemOf[k] \in Range(link.libraries[y])}
               E(x) == Entries(FollowSet(ItemOf[k], link.libraries[x]))
    <3>1. InferredDependSets[k] = IF ItemOf[k] \in link.known THEN {} ELSE {E(x) : x \in Having(Followed)}
      BY DEF CollectInv, SetsInv
    <3>2. CASE k \in DOMAIN dependSets
      <4>1. InferredDependSets'[k] = InferredDependSets[k] \cup {E(Depender)}
        BY <1>1, <1>3, <1>6, <3>2
      <4>2. Having(Followed') = Having(Followed) \cup {Depender}
        BY <1>3, <1>4, <1>6, <3>2
      <4>3. ItemOf[k] \notin link.known
        BY <1>6, <3>2
      <4> HIDE DEF Having, E
      <4>4. InferredDependSets'[k] = {E(x) : x \in Having(Followed')}
        BY <3>1, <4>1, <4>2, <4>3
      <4> QED BY <4>3, <4>4 DEF Having, E
    <3>3. CASE k \notin DOMAIN dependSets
      <4>1. InferredDependSets'[k] = InferredDependSets[k]
        BY <1>1, <3>3
      <4>2. ItemOf[k] \in link.known \/ Having(Followed') = Having(Followed)
        BY <1>3, <1>4, <1>6, <3>3
      <4> QED BY <3>1, <4>1, <4>2
    <3> QED BY <3>2, <3>3
  <2>3. \A k \in Index' : InferredDependSets'[k] =
          IF ItemOf'[k] \in link'.known THEN {}
          ELSE {EntriesOf(FollowSet(ItemOf'[k], link'.libraries[x])) :
                  x \in {y \in Followed' : ItemOf'[k] \in Range(link'.libraries[y])}}
    <3> HIDE DEF EntriesOf
    <3>1. \A k \in Index' : InferredDependSets'[k] =
            IF ItemOf'[k] \in link'.known THEN {}
            ELSE {Entries(FollowSet(ItemOf'[k], link'.libraries[x])) :
                    x \in {y \in Followed' : ItemOf'[k] \in Range(link'.libraries[y])}}
      BY <1>1, <1>2, <2>2
    <3> QED BY <2>1, <3>1
  <2>4. DOMAIN dependSets' = IF phase' = "AddLinkEntries" THEN EntriesOf(Said'[Depender'] \ link'.known) ELSE {}
    BY <1>1
  <2> QED BY <1>1, <2>3, <2>4 DEF SetsInv, Entries
<1> QED BY <1>9, <1>10, <1>11, <1>12 DEF CollectInv

---------------------------------------------------------------------------
(* The end of the search.                                                   *)
LEMMA InSomeList ==
  ASSUME link \in Links, NEW x \in Linked
  PROVE  \E list \in Lists : x \in Range(list)
<1> DEFINE Heads == {Target} \cup Linked
           T == {Target} \cup {z \in Linked : \E y \in Heads : z \in Range(link.libraries[y])}
<1>1. Target \in Items /\ Linked \subseteq Items /\ Target \notin Linked
  BY ProjectFacts, LinkedFacts
<1>2. T \subseteq Heads /\ T \in SUBSET Items
  BY <1>1
<1>3. \A y \in Heads : Range(link.libraries[y]) \subseteq Heads
  BY LinkedFacts
<1>4. \A y \in T : Range(link.libraries[y]) \subseteq T
  BY <1>2, <1>3
<1>5. Target \in T
  OBVIOUS
<1> HIDE DEF T
<1>6. Linked \subseteq T
  BY <1>2, <1>4, <1>5, LinkedFacts
<1>7. \E y \in Heads : x \in Range(link.libraries[y])
  BY <1>1, <1>6 DEF T
<1> QED BY <1>7 DEF Lists

LEMMA FollowSetInList ==
  ASSUME link \in Links, NEW x, NEW list \in Lists
  PROVE  FollowSet(x, list) \subseteq Linked /\ Range(list) \subseteq {Target} \cup Linked
<1>1. PICK y \in {Target} \cup Linked : list = link.libraries[y]
  BY DEF Lists
<1>2. y \in Items /\ Range(link.libraries[y]) \subseteq {Target} \cup Linked
  BY ProjectFacts, LinkedFacts
<1>3. Range(list) = {list[q] : q \in 1..Len(list)} /\ Range(list) \subseteq {Target} \cup Linked
  BY <1>1, <1>2, ProjectFacts
<1> QED BY <1>3 DEF FollowSet

LEMMA SameShared ==
  ASSUME SharedInv,
         UNCHANGED <<link, EntryList, SharedDepQueue, InferredDependSets, EntryConstraintGraph>>
  PROVE  SharedInv'
<1>1. /\ Index' = Index /\ ItemOf' = ItemOf /\ EntryItems' = EntryItems
      /\ Linked' = Linked /\ Shared' = Shared /\ Lists' = Lists
      /\ \A x : (SharedDepsOf(x))' = SharedDepsOf(x) /\ (Listed(x))' = Listed(x)
  BY SameProject, SameEntries
<1>2. \A j, k \in Index' :
        /\ j \in EntryConstraintGraph'[k] =>
             \/ ItemOf'[j] \in Linked' /\ ItemOf'[k] \in (Listed(ItemOf[j]))'
             \/ ItemOf'[k] \in (SharedDepsOf(ItemOf[j]))'
        /\ ItemOf'[j] \in Linked' /\ ItemOf'[k] \in (Listed(ItemOf[j]))' => j \in EntryConstraintGraph'[k]
  BY <1>1 DEF SharedInv, Listed, SharedDepsOf
<1>3. \A j \in Index' : \A d \in (SharedDepsOf(ItemOf[j]))' :
        \/ \E a \in 1..Len(SharedDepQueue') : SharedDepQueue'[a] = [Item |-> d, DependerIndex |-> j]
        \/ \E k \in Index' : ItemOf'[k] = d /\ j \in EntryConstraintGraph'[k]
  BY <1>1 DEF SharedInv, SharedDepsOf
<1> DEFINE EntriesOf(A) == {k \in Index' : ItemOf'[k] \in A}
<1>4. \A A : EntriesOf(A) = Entries(A)
  BY <1>1 DEF Entries
<1>5. \A k \in Index' : InferredDependSets'[k] =
        IF ItemOf'[k] \in Linked' \ link'.known
        THEN {EntriesOf(FollowSet(ItemOf'[k], list)) : list \in {l \in Lists' : ItemOf'[k] \in Range(l)}}
        ELSE {}
  <2> HIDE DEF EntriesOf
  <2>1. \A k \in Index' : InferredDependSets'[k] =
          IF ItemOf'[k] \in Linked' \ link'.known
          THEN {Entries(FollowSet(ItemOf'[k], list)) : list \in {l \in Lists' : ItemOf'[k] \in Range(l)}}
          ELSE {}
    <3>1. \A k \in Index : InferredDependSets[k] =
            IF ItemOf[k] \in Linked \ link.known
            THEN {Entries(FollowSet(ItemOf[k], list)) : list \in {l \in Lists : ItemOf[k] \in Range(l)}}
            ELSE {}
      BY DEF SharedInv
    <3>2. link' = link /\ InferredDependSets' = InferredDependSets
      OBVIOUS
    <3> QED BY ONLY <1>1, <3>1, <3>2, Zenon
  <2> QED BY <1>4, <2>1
<1> QED BY <1>1, <1>2, <1>3, <1>5 DEF SharedInv, Entries

LEMMA EndedBFS ==
  ASSUME TypeInv, CollectInv, EndOfBFS
  PROVE  TypeInv' /\ SharedInv'
<1>1. /\ phase = "BFS" /\ phase' = "Shared" /\ BFSQueue = <<>>
      /\ UNCHANGED <<link, EntryList, SharedDepQueue, InferredDependSets, EntryConstraintGraph>>
  BY DEF EndOfBFS, entries
<1>2. Waiting = {}
  BY <1>1 DEF Waiting
<1>3. Followed = {Target} \cup EntryItems
  BY <1>1, <1>2 DEF Followed, EntryItems
<1>4. \A x \in {Target} \cup EntryItems : Said[x] = Range(link.libraries[x])
  BY <1>3 DEF Said
<1>5. /\ EntryItems \subseteq Linked /\ Target \in Items /\ Target \notin Linked /\ Linked \subseteq Items
      /\ \A k \in Index : ItemOf[k] \in EntryItems /\ EntryList[k].IsSharedDep \in BOOLEAN
  BY ProjectFacts, LinkedFacts, EntryFacts DEF TypeInv, CollectInv, SaidInv
<1>6. EntryItems = Linked
  <2> DEFINE T == {Target} \cup EntryItems
  <2>1. T \in SUBSET Items /\ Target \in T
    BY <1>5
  <2>2. \A x \in T : Range(link.libraries[x]) \subseteq T
    BY <1>4 DEF CollectInv, SaidInv
  <2> HIDE DEF T
  <2>3. Linked \subseteq T
    BY <2>1, <2>2, LinkedFacts DEF TypeInv
  <2> QED BY <1>5, <2>3 DEF T
<1>7. \A k \in Index : EntryList[k].IsSharedDep <=> ItemOf[k] \notin Linked
  BY <1>5, <1>6 DEF CollectInv, SaidInv
<1>8. \A j, k \in Index : j \in EntryConstraintGraph[k] <=> ItemOf[k] \in Listed(ItemOf[j])
  <2>1. \A j, k \in Index : j \in EntryConstraintGraph[k] <=> ItemOf[k] \in Range(link.libraries[ItemOf[j]])
    BY <1>4, <1>5 DEF CollectInv, SaidInv
  <2>2. \A k \in Index : ItemOf[k] # Target
    BY <1>5, <1>6
  <2> QED BY <2>1, <2>2 DEF Listed
<1>9. \A j \in Index : \A d \in SharedDepsOf(ItemOf[j]) :
        \E a \in 1..Len(SharedDepQueue) : SharedDepQueue[a] = [Item |-> d, DependerIndex |-> j]
  BY <1>2 DEF CollectInv, SaidInv
<1>10. ASSUME NEW k \in Index
       PROVE  InferredDependSets[k] =
                IF ItemOf[k] \in Linked \ link.known
                THEN {Entries(FollowSet(ItemOf[k], list)) : list \in {l \in Lists : ItemOf[k] \in Range(l)}}
                ELSE {}
  <2> DEFINE E(list) == Entries(FollowSet(ItemOf[k], list))
             Having == {y \in Followed : ItemOf[k] \in Range(link.libraries[y])}
             Ls == {l \in Lists : ItemOf[k] \in Range(l)}
  <2>1. InferredDependSets[k] = IF ItemOf[k] \in link.known THEN {} ELSE {E(link.libraries[y]) : y \in Having}
    BY DEF CollectInv, SetsInv
  <2>2. \A list : list \in Ls <=> \E y \in Having : list = link.libraries[y]
    BY <1>3, <1>6 DEF Lists
  <2> HIDE DEF E, Having, Ls
  <2>3. {E(link.libraries[y]) : y \in Having} = {E(list) : list \in Ls}
    BY <2>2
  <2> QED BY <1>5, <1>6, <2>1, <2>3 DEF E, Ls
<1>11. SharedInv
  BY <1>5, <1>6, <1>7, <1>8, <1>9, <1>10 DEF SharedInv
<1> QED BY <1>1, <1>11, SameShared, SameTypes

---------------------------------------------------------------------------
(* The dependent shared libraries.                                          *)
LEMMA HandledEntry ==
  ASSUME TypeInv, SharedInv, HandleSharedDependency,
         NEW dep, dep = Head(SharedDepQueue), NEW S, S = LinkEntry(dep.Item, TRUE)
  PROVE  /\ dep.Item \in Items /\ dep.Item \in Shared /\ dep.DependerIndex \in Index
         /\ dep.Item \in SharedDepsOf(ItemOf[dep.DependerIndex])
         /\ EntryAdded(dep.Item, S)
         /\ \A k \in Index' \ Index : EntryList'[k].IsSharedDep
         /\ phase = "Shared" /\ phase' = phase /\ link' = link /\ EntryList' = S.list
         /\ InferredDependSets' = S.infer
         /\ EntryConstraintGraph' = [S.graph EXCEPT ![S.index] = @ \cup {dep.DependerIndex}]
         /\ SharedDepQueue' = Tail(SharedDepQueue) \o Shareds(S.index)
<1>1. /\ phase = "Shared" /\ SharedDepQueue # <<>> /\ phase' = phase /\ link' = link
      /\ EntryList' = S.list /\ InferredDependSets' = S.infer
      /\ EntryConstraintGraph' = [S.graph EXCEPT ![S.index] = @ \cup {dep.DependerIndex}]
      /\ SharedDepQueue' = Tail(SharedDepQueue) \o Shareds(S.index)
  BY DEF HandleSharedDependency
<1>2. dep = SharedDepQueue[1] /\ dep \in Dependency /\ Len(SharedDepQueue) \in Nat \ {0}
  <2> DEFINE tail == Tail(SharedDepQueue)
  <2>1. SharedDepQueue \in Seq(Dependency) /\ SharedDepQueue # <<>> /\ tail = Tail(SharedDepQueue)
    BY <1>1 DEF TypeInv
  <2> HIDE DEF tail
  <2>2. Head(SharedDepQueue) = SharedDepQueue[1] /\ SharedDepQueue[1] \in Dependency
        /\ Len(SharedDepQueue) \in Nat \ {0}
    BY <2>1, CGP!PoppedFront
  <2> QED BY <2>2
<1>3. dep.Item \in Items /\ dep.DependerIndex \in Index
  BY <1>2 DEF Dependency
<1>4. dep.Item \in SharedDepsOf(ItemOf[dep.DependerIndex])
  <2>1. 1 \in 1..Len(SharedDepQueue)
    BY <1>2
  <2> QED BY <1>2, <2>1 DEF TypeInv
<1>5. dep.Item \in Shared
  <2>1. ItemOf[dep.DependerIndex] \in Linked \cup Shared
    BY <1>3, EntryFacts DEF SharedInv
  <2> QED BY <1>4, <2>1, SharedFacts DEF TypeInv
<1>6. PICK shared \in BOOLEAN : shared = TRUE /\ S = LinkEntry(dep.Item, shared)
  OBVIOUS
<1>7. EntryAdded(dep.Item, S)
  <2> DEFINE item == dep.Item
  <2>1. item \in Items /\ S = LinkEntry(item, shared)
    BY <1>3, <1>6
  <2> HIDE DEF item
  <2>2. EntryAdded(item, S)
    BY <1>1, <2>1, LinkEntryFacts
  <2> QED BY <2>2 DEF item
<1>8. \A k \in Index' \ Index : EntryList'[k].IsSharedDep = shared
  <2> DEFINE item == dep.Item
  <2>1. S = LinkEntry(item, shared)
    BY <1>6
  <2> HIDE DEF item
  <2> QED BY <1>1, <2>1, NewEntryMark
<1>9. \A k \in Index' \ Index : EntryList'[k].IsSharedDep
  BY <1>6, <1>8
<1> QED BY <1>1, <1>3, <1>4, <1>5, <1>7, <1>9

LEMMA HandledQueue ==
  ASSUME TypeInv, SharedInv, HandleSharedDependency,
         NEW dep, dep = Head(SharedDepQueue), NEW S, S = LinkEntry(dep.Item, TRUE)
  PROVE  /\ SharedDepQueue' \in Seq(Dependency')
         /\ \A a \in 1..Len(SharedDepQueue') :
              SharedDepQueue'[a].Item \in SharedDepsOf(ItemOf'[SharedDepQueue'[a].DependerIndex])
         /\ \A a \in 1..Len(SharedDepQueue) :
              \/ SharedDepQueue[a] = dep
              \/ \E b \in 1..Len(SharedDepQueue') : SharedDepQueue'[b] = SharedDepQueue[a]
         /\ \A d \in SharedDepsOf(ItemOf'[S.index]) :
              \E a \in 1..Len(SharedDepQueue') : SharedDepQueue'[a] = [Item |-> d, DependerIndex |-> S.index]
<1> DEFINE queue == SharedDepQueue
           tail == Tail(queue)
           K == Shareds(S.index)
           D == Dependency'
           queue2 == SharedDepQueue'
<1>1. queue2 = tail \o K /\ EntryAdded(dep.Item, S) /\ queue # <<>> /\ queue \in Seq(Dependency)
      /\ dep.Item \in Items
  BY HandledEntry DEF HandleSharedDependency, TypeInv
<1>2. /\ Index \subseteq Index' /\ S.index \in Index' /\ ItemOf'[S.index] = dep.Item
      /\ \A k \in Index : ItemOf'[k] = ItemOf[k]
  BY <1>1 DEF EntryAdded
<1>3. /\ tail \in Seq(Dependency) /\ Len(queue) \in Nat \ {0} /\ Len(tail) = Len(queue) - 1
      /\ Head(queue) = queue[1]
      /\ \A a \in 1..Len(tail) : a + 1 \in 1..Len(queue) /\ tail[a] = queue[a + 1]
  <2>1. tail = Tail(queue)
    OBVIOUS
  <2> HIDE DEF tail, queue
  <2> QED BY <1>1, <2>1, CGP!PoppedFront
<1>4. /\ K \in Seq(D)
      /\ \A a \in 1..Len(K) : K[a].DependerIndex = S.index /\ K[a].Item \in SharedDepsOf(ItemOf'[S.index])
      /\ \A d \in SharedDepsOf(ItemOf'[S.index]) :
           \E a \in 1..Len(K) : K[a] = [Item |-> d, DependerIndex |-> S.index]
  <2> DEFINE s == S.index
  <2>1. K = Shareds(s) /\ s \in Index' /\ ItemOf'[s] \in Items /\ link \in Links
    BY <1>1, <1>2 DEF TypeInv
  <2> HIDE DEF s, K
  <2>2. /\ K \in Seq(Dependency')
        /\ \A a \in 1..Len(K) : K[a].DependerIndex = s /\ K[a].Item \in SharedDepsOf(ItemOf'[s])
        /\ \A d \in SharedDepsOf(ItemOf'[s]) :
             \E a \in 1..Len(K) : K[a] = [Item |-> d, DependerIndex |-> s]
    BY <2>1, SharedsFacts
  <2> QED BY <2>2 DEF s
<1>5. tail \in Seq(D)
  <2>1. Dependency \subseteq D
    BY <1>2 DEF Dependency
  <2> HIDE DEF tail, D
  <2>2. tail = [a \in 1..Len(tail) |-> tail[a]] /\ Len(tail) \in Nat
    BY <1>3, LenProperties
  <2>3. \A a \in 1..Len(tail) : tail[a] \in D
    BY <1>3, <2>1, ElementOfSeq
  <2> QED BY <2>2, <2>3
<1>6. /\ queue2 \in Seq(D)
      /\ \A a \in 1..Len(tail) : a \in 1..Len(queue2) /\ queue2[a] = tail[a]
      /\ \A a \in 1..Len(K) : Len(tail) + a \in 1..Len(queue2) /\ queue2[Len(tail) + a] = K[a]
      /\ \A a \in 1..Len(queue2) : \/ a \in 1..Len(tail) /\ queue2[a] = tail[a]
                                   \/ \E b \in 1..Len(K) : queue2[a] = K[b]
  <2>1. queue2 = tail \o K
    BY <1>1
  <2> HIDE DEF queue2, tail, K, D
  <2> QED BY <1>4, <1>5, <2>1, JoinedFacts
<1>7. \A a \in 1..Len(queue) : queue[a].DependerIndex \in Index
                               /\ queue[a].Item \in SharedDepsOf(ItemOf[queue[a].DependerIndex])
  <2>1. \A a \in 1..Len(queue) : queue[a] \in Dependency
    BY <1>1, ElementOfSeq
  <2>2. \A a \in 1..Len(queue) : queue[a].DependerIndex \in Index
    BY <2>1 DEF Dependency
  <2> QED BY <2>2 DEF TypeInv
<1>8. \A a \in 1..Len(queue) : queue[a] = Head(queue) \/ \E b \in 1..Len(queue2) : queue2[b] = queue[a]
  <2> SUFFICES ASSUME NEW a \in 1..Len(queue), a # 1 PROVE \E b \in 1..Len(queue2) : queue2[b] = queue[a]
    BY <1>3
  <2>1. a - 1 \in 1..Len(tail) /\ (a - 1) + 1 = a
    BY <1>3
  <2>2. tail[a - 1] = queue[(a - 1) + 1]
    BY <1>3, <2>1
  <2> HIDE DEF tail, queue2
  <2>3. a - 1 \in 1..Len(queue2) /\ queue2[a - 1] = queue[a]
    BY <1>6, <2>1, <2>2
  <2> QED BY <2>3
<1> HIDE DEF tail, K, D, queue2, queue
<1>9. \A a \in 1..Len(queue2) : queue2[a].Item \in SharedDepsOf(ItemOf'[queue2[a].DependerIndex])
  <2> SUFFICES ASSUME NEW a \in 1..Len(queue2)
               PROVE  queue2[a].Item \in SharedDepsOf(ItemOf'[queue2[a].DependerIndex])
    OBVIOUS
  <2>1. CASE a \in 1..Len(tail) /\ queue2[a] = tail[a]
    <3>1. a + 1 \in 1..Len(queue) /\ queue2[a] = queue[a + 1]
      BY <1>3, <2>1
    <3> QED BY <1>2, <1>7, <3>1
  <2>2. CASE \E b \in 1..Len(K) : queue2[a] = K[b]
    BY <1>4, <2>2
  <2> QED BY <1>6, <2>1, <2>2
<1>10. \A d \in SharedDepsOf(ItemOf'[S.index]) :
         \E a \in 1..Len(queue2) : queue2[a] = [Item |-> d, DependerIndex |-> S.index]
  <2> SUFFICES ASSUME NEW d \in SharedDepsOf(ItemOf'[S.index])
               PROVE  \E a \in 1..Len(queue2) : queue2[a] = [Item |-> d, DependerIndex |-> S.index]
    OBVIOUS
  <2>1. PICK a \in 1..Len(K) : K[a] = [Item |-> d, DependerIndex |-> S.index]
    BY <1>4
  <2>2. Len(tail) + a \in 1..Len(queue2) /\ queue2[Len(tail) + a] = K[a]
    BY <1>6
  <2> QED BY <2>1, <2>2
<1> QED BY <1>6, <1>8, <1>9, <1>10 DEF D, queue2, queue

LEMMA HandledShared ==
  ASSUME TypeInv, SharedInv, HandleSharedDependency
  PROVE  TypeInv' /\ SharedInv'
<1> DEFINE dep == Head(SharedDepQueue)
           item == dep.Item
           from == dep.DependerIndex
           S == LinkEntry(dep.Item, TRUE)
           EntriesOf(A) == {k \in Index' : ItemOf'[k] \in A}
<1>1. dep = Head(SharedDepQueue) /\ S = LinkEntry(dep.Item, TRUE)
  OBVIOUS
<1> HIDE DEF dep, S
<1>2. /\ item \in Items /\ item \in Shared /\ from \in Index /\ item \in SharedDepsOf(ItemOf[from])
      /\ EntryAdded(item, S) /\ \A k \in Index' \ Index : EntryList'[k].IsSharedDep
      /\ phase = "Shared" /\ phase' = phase /\ link' = link /\ InferredDependSets' = S.infer
      /\ EntryConstraintGraph' = [S.graph EXCEPT ![S.index] = @ \cup {from}]
  BY <1>1, HandledEntry
<1>3. /\ SharedDepQueue' \in Seq(Dependency')
      /\ \A a \in 1..Len(SharedDepQueue') :
           SharedDepQueue'[a].Item \in SharedDepsOf(ItemOf'[SharedDepQueue'[a].DependerIndex])
      /\ \A a \in 1..Len(SharedDepQueue) :
           \/ SharedDepQueue[a] = dep
           \/ \E b \in 1..Len(SharedDepQueue') : SharedDepQueue'[b] = SharedDepQueue[a]
      /\ \A d \in SharedDepsOf(ItemOf'[S.index]) :
           \E a \in 1..Len(SharedDepQueue') : SharedDepQueue'[a] = [Item |-> d, DependerIndex |-> S.index]
  BY <1>1, HandledQueue
<1> HIDE DEF item, from
<1>4. /\ Index \subseteq Index' /\ S.index \in Index' /\ ItemOf'[S.index] = item
      /\ \A k \in Index : ItemOf'[k] = ItemOf[k] /\ EntryList'[k] = EntryList[k]
      /\ \A k \in Index' : k \in Index \/ (k = S.index /\ item \notin EntryItems)
      /\ item \in EntryItems => S.index \in Index
      /\ item \notin EntryItems => S.index \notin Index
      /\ EntryItems' = EntryItems \cup {item}
      /\ \A j, k \in Index' : ItemOf'[j] = ItemOf'[k] => j = k
      /\ EntryList' \in Seq([Item : Items, IsSharedDep : BOOLEAN])
  BY <1>2 DEF EntryAdded
<1>5. /\ S.infer \in [Index' -> SUBSET SUBSET Index]
      /\ \A k \in Index : S.infer[k] = InferredDependSets[k]
      /\ \A k \in Index' \ Index : S.infer[k] = {}
      /\ S.graph \in [Index' -> SUBSET Index]
      /\ \A k \in Index : S.graph[k] = EntryConstraintGraph[k]
      /\ \A k \in Index' \ Index : S.graph[k] = {}
  BY <1>2 DEF EntryAdded
<1>6. /\ Linked' = Linked /\ Shared' = Shared /\ Lists' = Lists
      /\ \A x : (SharedDepsOf(x))' = SharedDepsOf(x) /\ (Listed(x))' = Listed(x)
  BY <1>2, SameProject
<1>7. /\ Linked \subseteq EntryItems /\ EntryItems \subseteq Linked \cup Shared
      /\ \A k \in Index : ItemOf[k] \in EntryItems
      /\ \A x \in Linked : Listed(x) \subseteq Linked
  <2>1. \A x \in Linked : Listed(x) \subseteq Linked
    BY LinkedFacts DEF TypeInv, Listed
  <2> QED BY <2>1, EntryFacts DEF SharedInv
<1>8. \A k \in Index' : EntryConstraintGraph'[k] = S.graph[k] \cup (IF k = S.index THEN {from} ELSE {})
  BY <1>2, <1>5
<1>9. TypeInv'
  <2>1. InferredDependSets' \in [Index' -> SUBSET SUBSET Index']
    BY <1>2, <1>4, <1>5
  <2>2. EntryConstraintGraph' \in [Index' -> SUBSET Index']
    BY <1>2, <1>4, <1>5
  <2>3. \A a \in 1..Len(SharedDepQueue') :
          (SharedDepQueue[a].Item \in SharedDepsOf(ItemOf[SharedDepQueue[a].DependerIndex]))'
    BY <1>2, <1>3 DEF SharedDepsOf
  <2>4. SharedDepQueue' \in (Seq(Dependency))'
    BY <1>3
  <2> QED BY <1>2, <1>4, <2>1, <2>2, <2>3, <2>4 DEF TypeInv
<1>10. \A k \in Index' : EntryList'[k].IsSharedDep <=> ItemOf'[k] \notin Linked
  <2> SUFFICES ASSUME NEW k \in Index' PROVE EntryList'[k].IsSharedDep <=> ItemOf'[k] \notin Linked
    OBVIOUS
  <2>1. CASE k \in Index
    BY <1>4, <2>1 DEF SharedInv
  <2>2. CASE k \notin Index
    BY <1>2, <1>4, <1>7, <2>2
  <2> QED BY <2>1, <2>2
<1>11. ASSUME NEW j \in Index', NEW k \in Index'
       PROVE  /\ j \in EntryConstraintGraph'[k] =>
                   \/ ItemOf'[j] \in Linked /\ ItemOf'[k] \in Listed(ItemOf'[j])
                   \/ ItemOf'[k] \in SharedDepsOf(ItemOf'[j])
              /\ ItemOf'[j] \in Linked /\ ItemOf'[k] \in Listed(ItemOf'[j]) => j \in EntryConstraintGraph'[k]
  <2>1. ASSUME j \in EntryConstraintGraph'[k]
        PROVE  \/ ItemOf'[j] \in Linked /\ ItemOf'[k] \in Listed(ItemOf'[j])
               \/ ItemOf'[k] \in SharedDepsOf(ItemOf'[j])
    <3>1. CASE j \in S.graph[k]
      <4>1. k \in Index /\ j \in Index /\ j \in EntryConstraintGraph[k]
        BY <1>5, <3>1
      <4> QED BY <1>4, <4>1 DEF SharedInv
    <3>2. CASE k = S.index /\ j = from
      BY <1>2, <1>4, <3>2
    <3> QED BY <1>8, <2>1, <3>1, <3>2
  <2>2. ASSUME ItemOf'[j] \in Linked, ItemOf'[k] \in Listed(ItemOf'[j])
        PROVE  j \in EntryConstraintGraph'[k]
    <3>1. ItemOf'[k] \in Linked
      BY <1>7, <2>2
    <3>2. j \in Index /\ k \in Index
      BY <1>4, <1>7, <2>2, <3>1
    <3>3. j \in EntryConstraintGraph[k]
      BY <1>4, <2>2, <3>2 DEF SharedInv
    <3> QED BY <1>5, <1>8, <3>2, <3>3
  <2> QED BY <2>1, <2>2
<1>12. ASSUME NEW j \in Index', NEW d \in SharedDepsOf(ItemOf'[j])
       PROVE  \/ \E a \in 1..Len(SharedDepQueue') : SharedDepQueue'[a] = [Item |-> d, DependerIndex |-> j]
              \/ \E k \in Index' : ItemOf'[k] = d /\ j \in EntryConstraintGraph'[k]
  <2>1. CASE j \in Index
    <3>1. \/ \E a \in 1..Len(SharedDepQueue) : SharedDepQueue[a] = [Item |-> d, DependerIndex |-> j]
          \/ \E k \in Index : ItemOf[k] = d /\ j \in EntryConstraintGraph[k]
      BY <1>4, <1>12, <2>1 DEF SharedInv
    <3>2. CASE \E k \in Index : ItemOf[k] = d /\ j \in EntryConstraintGraph[k]
      BY <1>4, <1>5, <1>8, <3>2
    <3>3. CASE \E a \in 1..Len(SharedDepQueue) : SharedDepQueue[a] = [Item |-> d, DependerIndex |-> j]
      <4>1. PICK a \in 1..Len(SharedDepQueue) : SharedDepQueue[a] = [Item |-> d, DependerIndex |-> j]
        BY <3>3
      <4>2. CASE SharedDepQueue[a] = dep
        <5>1. dep = [Item |-> d, DependerIndex |-> j]
          BY <4>1, <4>2
        <5>2. item = d /\ from = j
          BY <5>1 DEF item, from
        <5> QED BY <1>4, <1>8, <5>2
      <4>3. CASE \E b \in 1..Len(SharedDepQueue') : SharedDepQueue'[b] = SharedDepQueue[a]
        BY <4>1, <4>3
      <4> QED BY <1>3, <4>2, <4>3
    <3> QED BY <3>1, <3>2, <3>3
  <2>2. CASE j \notin Index
    BY <1>3, <1>4, <1>12, <2>2
  <2> QED BY <2>1, <2>2
<1>13. ASSUME NEW k \in Index'
       PROVE  InferredDependSets'[k] =
                IF ItemOf'[k] \in Linked \ link.known
                THEN {EntriesOf(FollowSet(ItemOf'[k], list)) : list \in {l \in Lists : ItemOf'[k] \in Range(l)}}
                ELSE {}
  <2>1. CASE k \in Index
    <3> DEFINE x == ItemOf[k]
               Ls == {l \in Lists : x \in Range(l)}
    <3>1. ItemOf'[k] = x /\ InferredDependSets'[k] = InferredDependSets[k]
      BY <1>2, <1>4, <1>5, <2>1
    <3>2. InferredDependSets[k] =
            IF x \in Linked \ link.known THEN {Entries(FollowSet(x, list)) : list \in Ls} ELSE {}
      BY <2>1 DEF SharedInv
    <3>3. ASSUME NEW list \in Ls PROVE EntriesOf(FollowSet(x, list)) = Entries(FollowSet(x, list))
      <4> DEFINE A == FollowSet(x, list)
      <4>1. A \subseteq EntryItems
        <5>1. list \in Lists
          OBVIOUS
        <5> HIDE DEF x
        <5>2. A \subseteq Linked
          BY <5>1, FollowSetInList DEF TypeInv
        <5> QED BY <1>7, <5>2
      <4> HIDE DEF A
      <4>2. EntriesOf(A) = Entries(A)
        BY <1>4, <4>1 DEF Entries
      <4> QED BY <4>2 DEF A
    <3> HIDE DEF x, Ls, EntriesOf
    <3>4. {EntriesOf(FollowSet(x, list)) : list \in Ls} = {Entries(FollowSet(x, list)) : list \in Ls}
      BY <3>3
    <3> QED BY <3>1, <3>2, <3>4 DEF Ls
  <2>2. CASE k \notin Index
    <3>1. InferredDependSets'[k] = {} /\ ItemOf'[k] \notin Linked
      BY <1>2, <1>4, <1>5, <1>7, <2>2
    <3> QED BY <3>1
  <2> QED BY <2>1, <2>2
<1>14. SharedInv'
  <2>1. Linked' \subseteq EntryItems' /\ EntryItems' \subseteq Linked' \cup Shared'
    BY <1>2, <1>4, <1>6, <1>7
  <2>2. \A k \in Index' : EntryList'[k].IsSharedDep <=> ItemOf'[k] \notin Linked'
    BY <1>6, <1>10
  <2>3. \A j, k \in Index' :
          /\ j \in EntryConstraintGraph'[k] =>
               \/ ItemOf'[j] \in Linked' /\ ItemOf'[k] \in (Listed(ItemOf[j]))'
               \/ ItemOf'[k] \in (SharedDepsOf(ItemOf[j]))'
          /\ ItemOf'[j] \in Linked' /\ ItemOf'[k] \in (Listed(ItemOf[j]))' => j \in EntryConstraintGraph'[k]
    BY <1>2, <1>6, <1>11 DEF Listed, SharedDepsOf
  <2>4. \A j \in Index' : \A d \in (SharedDepsOf(ItemOf[j]))' :
          \/ \E a \in 1..Len(SharedDepQueue') : SharedDepQueue'[a] = [Item |-> d, DependerIndex |-> j]
          \/ \E k \in Index' : ItemOf'[k] = d /\ j \in EntryConstraintGraph'[k]
    BY <1>2, <1>12 DEF SharedDepsOf
  <2>5. \A k \in Index' : InferredDependSets'[k] =
          IF ItemOf'[k] \in Linked' \ link'.known
          THEN {EntriesOf(FollowSet(ItemOf'[k], list)) : list \in {l \in Lists' : ItemOf'[k] \in Range(l)}}
          ELSE {}
    <3> HIDE DEF EntriesOf
    <3>1. link' = link /\ Linked' = Linked /\ Lists' = Lists
      BY <1>2, <1>6
    <3> QED BY <1>13, <3>1, Zenon
  <2> QED BY <2>1, <2>2, <2>3, <2>4, <2>5 DEF SharedInv, Entries
<1> QED BY <1>9, <1>14

---------------------------------------------------------------------------
(* The graph to be ordered.                                                 *)
ListsOf(G, g) == \A k \in DOMAIN G : G[k] = {g[k][a] : a \in 1..Len(g[k])}

LEMMA CleanFacts ==
  ASSUME NEW n \in Nat, NEW G \in [1..n -> SUBSET (1..n)],
         NEW g, g = [k \in 1..Len(G) |-> Ascending(G[k])]
  PROVE  /\ g \in Seq(Seq(Nat)) /\ Len(g) = n /\ g \in [1..n -> Seq(1..n)]
         /\ ListsOf(G, g)
<1>1. Len(G) = n
  OBVIOUS
<1>2. ASSUME NEW k \in 1..n
      PROVE  /\ g[k] \in Seq(1..n) /\ g[k] \in Seq(Nat)
             /\ G[k] = {g[k][a] : a \in 1..Len(g[k])}
  <2> DEFINE S == G[k]
             s == g[k]
  <2>1. S \in SUBSET (1..n) /\ s = Ascending(S)
    BY <1>1
  <2> HIDE DEF S, s
  <2>2. /\ s \in Seq(S) /\ \A x \in S : \E a \in 1..Len(s) : s[a] = x
    <3>1. IsFiniteSet(S)
      <4>1. IsFiniteSet(1..n)
        BY FS_Interval
      <4> QED BY <2>1, <4>1, FS_Subset
    <3>2. S \in SUBSET Nat
      BY <2>1
    <3> QED BY <2>1, <3>1, <3>2, AscendingFacts
  <2>3. /\ \A a \in 1..Len(s) : s[a] \in S
        /\ Len(s) \in Nat /\ s = [a \in 1..Len(s) |-> s[a]]
    BY <2>2, ElementOfSeq, LenProperties
  <2>4. S = {s[a] : a \in 1..Len(s)}
    BY <2>2, <2>3
  <2>5. \A x \in S : x \in 1..n /\ x \in Nat
    BY <2>1
  <2>6. s \in Seq(1..n)
    BY <2>3, <2>5
  <2>7. s \in Seq(Nat)
    BY <2>3, <2>5
  <2> QED BY <2>4, <2>6, <2>7 DEF S, s
<1>3. g = [k \in 1..n |-> g[k]] /\ Len(g) = n
  BY <1>1
<1>4. g \in Seq(Seq(Nat))
  <2> DEFINE D == Seq(Nat)
  <2>1. \A k \in 1..n : g[k] \in D
    BY <1>2
  <2> HIDE DEF D
  <2>2. g \in [1..n -> D]
    BY <1>3, <2>1
  <2>3. g \in Seq(D)
    BY <2>2
  <2> QED BY <2>3 DEF D
<1>5. ListsOf(G, g)
  BY <1>2 DEF ListsOf
<1> QED BY <1>3, <1>2, <1>4, <1>5

LEMMA CommonFacts ==
  ASSUME TypeInv, SharedInv, NEW j \in Index, NEW k \in Index
  PROVE  k \in Common(j) <=> /\ ItemOf[j] \in Linked \ link.known /\ ItemOf[k] \in Linked
                             /\ \A list \in Lists : ItemOf[j] \in Range(list) =>
                                   ItemOf[k] \in FollowSet(ItemOf[j], list)
<1> DEFINE x == ItemOf[j]
           Ls == {l \in Lists : x \in Range(l)}
<1>1. InferredDependSets[j] =
        IF x \in Linked \ link.known THEN {Entries(FollowSet(x, list)) : list \in Ls} ELSE {}
  BY DEF SharedInv
<1>2. CASE x \notin Linked \ link.known
  <2>1. Common(j) = {}
    BY <1>1, <1>2 DEF Common
  <2> QED BY <1>2, <2>1
<1>3. CASE x \in Linked \ link.known
  <2>1. PICK l \in Ls : TRUE
    BY <1>3, InSomeList DEF TypeInv
  <2>2. InferredDependSets[j] # {}
    BY <1>1, <1>3, <2>1
  <2>3. k \in Common(j) <=> \A S \in InferredDependSets[j] : k \in S
    BY <2>2 DEF Common
  <2>4. \A list : k \in Entries(FollowSet(x, list)) <=> ItemOf[k] \in FollowSet(x, list)
    BY DEF Entries
  <2> DEFINE E == [list \in Ls |-> Entries(FollowSet(x, list))]
  <2>5. InferredDependSets[j] = {E[list] : list \in Ls}
    BY <1>1, <1>3
  <2>6. \A list \in Ls : k \in E[list] <=> ItemOf[k] \in FollowSet(x, list)
    BY <2>4
  <2>7. l \in Lists /\ l \in Ls
    BY <2>1
  <2> HIDE DEF E, Ls, x
  <2>8. k \in Common(j) <=> \A list \in Ls : ItemOf[k] \in FollowSet(x, list)
    BY <2>3, <2>5, <2>6
  <2>9. ItemOf[k] \in FollowSet(x, l) => ItemOf[k] \in Linked
    BY <2>7, FollowSetInList DEF TypeInv
  <2> QED BY <1>3, <2>7, <2>8, <2>9 DEF Ls, x
<1> QED BY <1>2, <1>3

LEMMA Inferred ==
  ASSUME TypeInv, SharedInv, ccg!Unconstructed, InferDependencies
  PROVE  TypeInv' /\ GraphExact' /\ CGP!Inv'
<1>1. /\ phase = "Shared" /\ SharedDepQueue = <<>> /\ phase' = "Components"
      /\ EntryConstraintGraph' =
           [k \in Index |-> EntryConstraintGraph[k] \cup {j \in Index : k \in Common(j)}]
      /\ UNCHANGED <<link, EntryList, SharedDepQueue, InferredDependSets, ccgVars>>
  BY DEF InferDependencies, Index
<1>2. /\ Index' = Index /\ ItemOf' = ItemOf /\ EntryItems' = EntryItems /\ Dependency' = Dependency
      /\ Linked' = Linked /\ Shared' = Shared /\ Precedes' = Precedes
      /\ \A x : (SharedDepsOf(x))' = SharedDepsOf(x)
  BY <1>1, SameProject, SameEntries
<1>3. EntryConstraintGraph' \in [Index -> SUBSET Index]
  <2> SUFFICES ASSUME NEW k \in Index PROVE EntryConstraintGraph'[k] \in SUBSET Index
    BY <1>1
  <2>1. EntryConstraintGraph[k] \in SUBSET Index
    BY DEF TypeInv
  <2> QED BY <1>1, <2>1
<1>4. TypeInv'
  <2>1. \A a \in 1..Len(SharedDepQueue') :
          (SharedDepQueue[a].Item \in SharedDepsOf(ItemOf[SharedDepQueue[a].DependerIndex]))'
    BY <1>1, <1>2 DEF TypeInv, SharedDepsOf
  <2> QED BY <1>1, <1>2, <1>3, <2>1 DEF TypeInv
<1>5. \A j \in Index : \A d \in SharedDepsOf(ItemOf[j]) :
        \E k \in Index : ItemOf[k] = d /\ j \in EntryConstraintGraph[k]
  BY <1>1 DEF SharedInv
<1>6. /\ \A k \in Index : ItemOf[k] \in EntryItems /\ ItemOf[k] \in Items
      /\ EntryItems \subseteq Items
  BY EntryFacts
<1>7. EntryItems = Linked \cup Shared
  <2>1. Linked \subseteq EntryItems /\ EntryItems \subseteq Linked \cup Shared
    BY DEF SharedInv
  <2>2. \A x \in Linked \cup EntryItems : SharedDepsOf(x) \subseteq EntryItems
    <3> SUFFICES ASSUME NEW x \in EntryItems, NEW d \in SharedDepsOf(x) PROVE d \in EntryItems
      BY <2>1
    <3>1. PICK j \in Index : x = ItemOf[j]
      BY DEF EntryItems
    <3>2. PICK k \in Index : ItemOf[k] = d
      BY <1>5, <3>1
    <3> QED BY <1>6, <3>2
  <2>3. EntryItems \in SUBSET Items
    BY <1>6
  <2>4. Shared \subseteq EntryItems
    BY <2>2, <2>3, SharedFacts DEF TypeInv
  <2> QED BY <2>1, <2>4
<1>8. ASSUME NEW j \in Index, NEW k \in Index
      PROVE  j \in EntryConstraintGraph'[k] <=> <<ItemOf[j], ItemOf[k]>> \in Precedes
  <2> DEFINE x == ItemOf[j]
             y == ItemOf[k]
  <2>1. <<x, y>> \in Precedes <=>
          \/ x \in Linked /\ y \in Linked /\ y \in Listed(x)
          \/ x \in Linked \cup Shared /\ y \in Shared /\ y \in SharedDepsOf(x)
          \/ /\ x \in Linked \ link.known /\ y \in Linked
             /\ \A list \in Lists : x \in Range(list) => y \in FollowSet(x, list)
    <3> HIDE DEF x, y
    <3> QED BY DEF Precedes
  <2>2. j \in EntryConstraintGraph'[k] <=> j \in EntryConstraintGraph[k] \/ k \in Common(j)
    BY <1>1
  <2>3. k \in Common(j) <=> /\ x \in Linked \ link.known /\ y \in Linked
                            /\ \A list \in Lists : x \in Range(list) => y \in FollowSet(x, list)
    BY CommonFacts
  <2>4. x \in Linked \cup Shared /\ y \in Linked \cup Shared
    BY <1>6, <1>7
  <2>5. /\ x \in Linked => Listed(x) \subseteq Linked
        /\ SharedDepsOf(x) \subseteq Shared
    BY <2>4, LinkedFacts, SharedFacts DEF TypeInv, Listed
  <2>6. j \in EntryConstraintGraph[k] => \/ x \in Linked /\ y \in Listed(x)
                                         \/ y \in SharedDepsOf(x)
    BY DEF SharedInv
  <2>7. x \in Linked /\ y \in Listed(x) => j \in EntryConstraintGraph[k]
    BY DEF SharedInv
  <2>8. y \in SharedDepsOf(x) => j \in EntryConstraintGraph[k]
    <3> SUFFICES ASSUME y \in SharedDepsOf(x) PROVE j \in EntryConstraintGraph[k]
      OBVIOUS
    <3>1. PICK m \in Index : ItemOf[m] = y /\ j \in EntryConstraintGraph[m]
      BY <1>5
    <3>2. m = k
      BY <3>1 DEF TypeInv
    <3> QED BY <3>1, <3>2
  <2> HIDE DEF x, y
  <2>9. <<x, y>> \in Precedes <=> j \in EntryConstraintGraph'[k]
    BY <2>1, <2>2, <2>3, <2>4, <2>5, <2>6, <2>7, <2>8
  <2> QED BY <2>9 DEF x, y
<1>9. GraphExact'
  <2>1. \A k \in Index' : EntryList'[k].IsSharedDep <=> ItemOf'[k] \notin Linked'
    BY <1>1, <1>2 DEF SharedInv
  <2>2. \A j, k \in Index' : j \in EntryConstraintGraph'[k] <=> <<ItemOf'[j], ItemOf'[k]>> \in Precedes'
    BY <1>2, <1>8
  <2> QED BY <1>2, <1>7, <2>1, <2>2 DEF GraphExact
<1>10. CGP!GraphInv'
  <2> DEFINE g == CleanConstraintGraph'
             G == EntryConstraintGraph'
             n == Len(EntryList)
  <2>1. g = [k \in 1..Len(G) |-> Ascending(G[k])]
    BY DEF CleanConstraintGraph, Ascending
  <2>2. n \in Nat /\ G \in [1..n -> SUBSET (1..n)]
    BY <1>3, EntryFacts DEF Index
  <2> HIDE DEF g, G, n
  <2>3. g \in Seq(Seq(Nat)) /\ Len(g) = n /\ g \in [1..n -> Seq(1..n)]
    BY <2>1, <2>2, CleanFacts
  <2>4. g \in [1..Len(g) -> Seq(1..Len(g))]
    BY <2>3
  <2> QED BY <2>3, <2>4 DEF CGP!GraphInv, g
<1>11. CGP!Unconstructed' /\ pc' = "new"
  BY <1>1 DEF ccg!Unconstructed, CGP!Unconstructed, ccgVars
<1>12. CGP!Inv'
  BY <1>10, <1>11 DEF CGP!Inv, CGP!Constructed
<1> QED BY <1>4, <1>9, <1>12

---------------------------------------------------------------------------
(* A component on the link line.                                            *)
OnceOrTwice(S, e) ==
  /\ \A x \in S : S = {x} => \E p \in 1..Len(e) : {r \in 1..Len(e) : e[r] = x} = {p}
  /\ \A x \in S : S # {x} => \E p, q \in 1..Len(e) : p # q /\ {r \in 1..Len(e) : e[r] = x} = {p, q}
  /\ \A x, y \in S : x # y => \E p, q \in 1..Len(e) : p < q /\ e[p] = x /\ e[q] = y

LEMMA EmittedFacts ==
  ASSUME NEW S \in SUBSET Nat, IsFiniteSet(S), S # {}, NEW e, e = Emitted(S)
  PROVE  e \in Seq(S) /\ Len(e) \in Nat /\ OnceOrTwice(S, e)
<1> DEFINE s == Ascending(S)
           n == Len(s)
<1>1. s = Ascending(S)
  OBVIOUS
<1>2. e = IF Cardinality(S) = 1 THEN s ELSE s \o s
  BY DEF Emitted
<1> HIDE DEF s
<1>3. /\ Cardinality(S) \in Nat /\ s \in Seq(S) /\ Len(s) = Cardinality(S)
      /\ \A x \in S : \E a \in 1..Len(s) : s[a] = x
      /\ \A a, b \in 1..Len(s) : s[a] = s[b] => a = b
  BY <1>1, AscendingFacts
<1>4. Cardinality(S) = 1 <=> \E x : S = {x}
  BY FS_Singleton
<1>5. CASE Cardinality(S) = 1
  <2>1. PICK z : S = {z}
    BY <1>4, <1>5
  <2>2. e = s /\ Len(s) = 1
    BY <1>2, <1>3, <1>5
  <2>3. s[1] = z /\ s \in Seq(S)
    BY <1>3, <2>1, <2>2, ElementOfSeq
  <2>4. {r \in 1..Len(e) : e[r] = z} = {1} /\ 1 \in 1..Len(e)
    BY <2>2, <2>3
  <2>5. \A x \in S : S = {x} /\ x = z
    BY <2>1
  <2>6. \A x \in S : \E p \in 1..Len(e) : {r \in 1..Len(e) : e[r] = x} = {p}
    BY <2>4, <2>5
  <2> QED BY <2>2, <2>3, <2>5, <2>6 DEF OnceOrTwice
<1>6. CASE Cardinality(S) # 1
  <2>1. e = s \o s
    BY <1>2, <1>6
  <2>2. /\ e \in Seq(S) /\ Len(e) \in Nat /\ n \in Nat
        /\ \A a \in 1..n : a \in 1..Len(e) /\ e[a] = s[a]
        /\ \A a \in 1..n : n + a \in 1..Len(e) /\ e[n + a] = s[a]
    BY <1>3, <2>1, JoinedFacts
  <2>3. Len(e) = n + n
    <3>1. s \in Seq(S)
      BY <1>3
    <3> QED BY ONLY <2>1, <3>1, ConcatProperties
  <2>4. \A r \in 1..Len(e) : r \in 1..n \/ (r - n \in 1..n /\ n + (r - n) = r)
    BY <2>2, <2>3
  <2>5. ASSUME NEW x \in S
        PROVE  \E p, q \in 1..Len(e) : p # q /\ {r \in 1..Len(e) : e[r] = x} = {p, q}
    <3>1. PICK a \in 1..n : s[a] = x
      BY <1>3
    <3>2. /\ a \in 1..Len(e) /\ n + a \in 1..Len(e) /\ a # n + a
          /\ e[a] = x /\ e[n + a] = x
      BY <2>2, <3>1
    <3>3. ASSUME NEW r \in 1..Len(e), e[r] = x PROVE r = a \/ r = n + a
      <4>1. CASE r \in 1..n
        <5>1. s[r] = s[a]
          BY <2>2, <3>1, <3>3, <4>1
        <5> QED BY <1>3, <3>1, <4>1, <5>1
      <4>2. CASE r - n \in 1..n /\ n + (r - n) = r
        <5>1. e[n + (r - n)] = s[r - n]
          BY <2>2, <4>2
        <5>2. s[r - n] = s[a]
          BY <3>1, <3>3, <4>2, <5>1
        <5>3. r - n = a
          BY <1>3, <3>1, <4>2, <5>2
        <5> QED BY <2>2, <3>1, <4>2, <5>3
      <4> QED BY <2>4, <4>1, <4>2
    <3> HIDE DEF n
    <3>4. {r \in 1..Len(e) : e[r] = x} = {a, n + a}
      BY <3>2, <3>3
    <3> QED BY <3>2, <3>4
  <2>6. \A x \in S : S # {x}
    BY <1>4, <1>6
  <2>7. ASSUME NEW x \in S, NEW y \in S
        PROVE  \E p, q \in 1..Len(e) : p < q /\ e[p] = x /\ e[q] = y
    <3>1. PICK a \in 1..n : s[a] = x
      BY <1>3
    <3>2. PICK b \in 1..n : s[b] = y
      BY <1>3
    <3>3. a \in 1..Len(e) /\ n + b \in 1..Len(e) /\ a < n + b /\ e[a] = x /\ e[n + b] = y
      BY <2>2, <3>1, <3>2
    <3> QED BY <3>3
  <2> QED BY <2>2, <2>5, <2>6, <2>7 DEF OnceOrTwice
<1> QED BY <1>5, <1>6 DEF OnceOrTwice

(* The steps of ComponentGraph are those its proofs are about.              *)
LEMMA SameComponentGraph ==
  ASSUME ccg!Next
  PROVE  CGP!Next /\ CleanConstraintGraph' = CleanConstraintGraph
<1>1. \/ ccg!Construct \/ ccg!StartWalk \/ ccg!SkipNode \/ ccg!EndTarjan
      \/ ccg!IgnoreEdge \/ ccg!VisitDestination \/ ccg!UpdateRoot
      \/ ccg!ReturnUnderRoot \/ ccg!FindComponent \/ ccg!TransferEdges
  BY DEF ccg!Next
<1>2. ccg!Construct => CGP!Construct /\ CleanConstraintGraph' = CleanConstraintGraph
  BY DEF ccg!Construct, CGP!Construct, ccg!Node, CGP!Node
<1>3. ccg!StartWalk => CGP!StartWalk /\ CleanConstraintGraph' = CleanConstraintGraph
  BY DEF ccg!StartWalk, CGP!StartWalk, ccg!EnterVisit, CGP!EnterVisit
<1>4. ccg!SkipNode => CGP!SkipNode /\ CleanConstraintGraph' = CleanConstraintGraph
  BY DEF ccg!SkipNode, CGP!SkipNode, ccg!walk, CGP!walk, ccg!found, CGP!found
<1>5. ccg!EndTarjan => CGP!EndTarjan /\ CleanConstraintGraph' = CleanConstraintGraph
  BY DEF ccg!EndTarjan, CGP!EndTarjan, ccg!walk, CGP!walk, ccg!found, CGP!found
<1>6. ccg!Here = CGP!Here /\ ccg!There = CGP!There /\ ccg!Call = CGP!Call
  BY DEF ccg!Here, CGP!Here, ccg!There, CGP!There, ccg!Call, CGP!Call
<1>7. (ccg!FollowsEdge <=> CGP!FollowsEdge) /\ (ccg!NextEdge <=> CGP!NextEdge)
      /\ (ccg!EdgesFollowed <=> CGP!EdgesFollowed)
  BY <1>6 DEF ccg!FollowsEdge, CGP!FollowsEdge, ccg!NextEdge, CGP!NextEdge,
     ccg!EdgesFollowed, CGP!EdgesFollowed
<1>8. \A n : ccg!ByEarlierWalk(n) <=> CGP!ByEarlierWalk(n)
  BY DEF ccg!ByEarlierWalk, CGP!ByEarlierWalk
<1>9. ccg!IgnoreEdge => CGP!IgnoreEdge /\ CleanConstraintGraph' = CleanConstraintGraph
  BY <1>6, <1>7, <1>8 DEF ccg!IgnoreEdge, CGP!IgnoreEdge, ccg!walk, CGP!walk, ccg!found, CGP!found
<1>10. ccg!VisitDestination => CGP!VisitDestination /\ CleanConstraintGraph' = CleanConstraintGraph
  BY <1>6, <1>7 DEF ccg!VisitDestination, CGP!VisitDestination, ccg!EnterVisit, CGP!EnterVisit
<1>11. ccg!UpdateRoot => CGP!UpdateRoot /\ CleanConstraintGraph' = CleanConstraintGraph
  BY <1>6, <1>7, <1>8 DEF ccg!UpdateRoot, CGP!UpdateRoot, ccg!BetterRoot, CGP!BetterRoot,
     ccg!walk, CGP!walk, ccg!found, CGP!found
<1>12. ccg!ReturnUnderRoot => CGP!ReturnUnderRoot /\ CleanConstraintGraph' = CleanConstraintGraph
  BY <1>6, <1>7 DEF ccg!ReturnUnderRoot, CGP!ReturnUnderRoot, ccg!walk, CGP!walk, ccg!found, CGP!found
<1>13. ccg!Depth = CGP!Depth /\ ccg!Popped = CGP!Popped /\ ccg!Node = CGP!Node
  BY <1>6 DEF ccg!Depth, CGP!Depth, ccg!Popped, CGP!Popped, ccg!Node, CGP!Node
<1>14. ccg!FindComponent => CGP!FindComponent /\ CleanConstraintGraph' = CleanConstraintGraph
  BY <1>6, <1>7, <1>13 DEF ccg!FindComponent, CGP!FindComponent, ccg!walk, CGP!walk
<1>15. \A c : ccg!OutgoingEdges(c) = CGP!OutgoingEdges(c)
  BY <1>13 DEF ccg!OutgoingEdges, CGP!OutgoingEdges, ccg!Successors, CGP!Successors
<1>16. ccg!TransferEdges => CGP!TransferEdges /\ CleanConstraintGraph' = CleanConstraintGraph
  BY <1>15 DEF ccg!TransferEdges, CGP!TransferEdges, ccg!walk, CGP!walk, ccg!found, CGP!found
<1> QED BY <1>1, <1>2, <1>3, <1>4, <1>5, <1>9, <1>10, <1>11, <1>12, <1>14, <1>16 DEF CGP!Next

---------------------------------------------------------------------------
(* The components of the constraint graph.                                  *)
LEMMA CleanGraph ==
  ASSUME TypeInv
  PROVE  /\ Len(EntryList) \in Nat /\ Index = 1..Len(EntryList)
         /\ CGP!Node = Index /\ Len(CleanConstraintGraph) = Len(EntryList)
         /\ \A n \in Index : CGP!Successors(n) = EntryConstraintGraph[n]
<1> DEFINE g == CleanConstraintGraph
           G == EntryConstraintGraph
           n == Len(EntryList)
<1>1. g = [k \in 1..Len(G) |-> Ascending(G[k])]
  BY DEF CleanConstraintGraph
<1>2. n \in Nat /\ G \in [1..n -> SUBSET (1..n)]
  BY EntryFacts DEF TypeInv, Index
<1>6. Index = 1..n
  BY DEF Index
<1> HIDE DEF g, G, n
<1>3. /\ Len(g) = n /\ g \in [1..n -> Seq(1..n)]
      /\ \A k \in 1..n : G[k] = {g[k][a] : a \in 1..Len(g[k])}
  <2>1. Len(g) = n /\ g \in [1..n -> Seq(1..n)]
    BY <1>1, <1>2, CleanFacts
  <2>2. ListsOf(G, g)
    BY <1>1, <1>2, CleanFacts
  <2>3. DOMAIN G = 1..n
    BY <1>2
  <2> QED BY <2>1, <2>2, <2>3 DEF ListsOf
<1>4. CGP!Node = DOMAIN g
  BY DEF CGP!Node, g
<1>5. \A k : CGP!Successors(k) = {g[k][a] : a \in 1..Len(g[k])}
  BY DEF CGP!Successors, g
<1> QED BY <1>2, <1>3, <1>4, <1>5, <1>6 DEF g, G, n

LEMMA ComponentsComputed ==
  ASSUME TypeInv, CGP!Inv, pc = "done"
  PROVE  /\ Len(Components) \in Nat /\ Len(ComponentGraph) = Len(Components)
         /\ CGP!GraphInv /\ CGP!Node = Index
         /\ \A n \in Index : CGP!Succ[n] = EntryConstraintGraph[n]
         /\ \A c \in 1..Len(Components) :
              /\ Components[c] # {} /\ Components[c] \subseteq Index /\ IsFiniteSet(Components[c])
              /\ ComponentGraph[c] \subseteq 1..(c - 1)
         /\ \A n \in Index :
              /\ TarjanComponents[n] \in 1..Len(Components)
              /\ Components[TarjanComponents[n]] = CGP!Mutual[n]
              /\ \A m \in EntryConstraintGraph[n] :
                   m \in Index /\ TarjanComponents[m] \in 1..TarjanComponents[n]
              /\ \A c \in 1..Len(Components) : n \in Components[c] <=> TarjanComponents[n] = c
<1>1. CGP!GraphInv /\ CGP!WalkingInv
  BY DEF CGP!Inv, CGP!Constructed
<1>2. /\ CGP!Node = Index /\ Index = 1..Len(EntryList) /\ Len(EntryList) \in Nat
      /\ Len(CleanConstraintGraph) = Len(EntryList)
      /\ \A n \in Index : CGP!Successors(n) = EntryConstraintGraph[n]
  BY CleanGraph
<1>3. \A n \in Index : CGP!Succ[n] = EntryConstraintGraph[n]
  BY <1>1, <1>2, CGP!SuccessorsAreNodes
<1>4. /\ Len(Components) \in Nat
      /\ \A c \in 1..Len(Components) :
           /\ Components[c] # {} /\ Components[c] \subseteq Index
           /\ \A n \in Index : n \in Components[c] <=> TarjanComponents[n] = c
      /\ \A n \in Index : TarjanComponents[n] # 0 =>
           /\ TarjanComponents[n] \in 1..Len(Components)
           /\ Components[TarjanComponents[n]] = CGP!Mutual[n]
           /\ \A m \in EntryConstraintGraph[n] : m \in Index /\ TarjanComponents[m] \in 1..TarjanComponents[n]
  BY <1>1, <1>2, <1>3, CGP!ComponentFacts
<1>5. \A n \in Index : TarjanComponents[n] # 0
  <2> SUFFICES ASSUME NEW n \in Index, TarjanComponents[n] = 0 PROVE FALSE
    OBVIOUS
  <2>1. calls = <<>> /\ i > Len(CleanConstraintGraph) /\ CGP!Held = {}
    BY <1>1 DEF CGP!WalkingInv, CGP!EndInv, CGP!CallInv
  <2>2. n \in 1..Len(CleanConstraintGraph) /\ i \in Nat /\ Len(CleanConstraintGraph) \in Nat
    BY <1>1, <1>2 DEF CGP!WalkingInv, CGP!TypeInv
  <2>3. n < i
    BY <2>1, <2>2
  <2>4. TarjanVisited[n] > 0
    BY <1>1, <1>2, <2>3 DEF CGP!WalkingInv, CGP!WalkInv
  <2> QED BY <1>2, <2>1, <2>4 DEF CGP!Held
<1>6. ComponentGraph = [c \in 1..Len(Components) |-> CGP!OutgoingEdges(c)]
  BY <1>1 DEF CGP!WalkingInv, CGP!EndInv
<1>7. \A c \in 1..Len(Components) : ComponentGraph[c] \subseteq 1..(c - 1)
  <2>1. \A c \in 1..Len(Components) : CGP!OutgoingEdges(c) \subseteq 1..(c - 1)
    BY <1>1, CGP!OutgoingFacts
  <2> QED BY <1>6, <2>1
<1>8. \A c \in 1..Len(Components) : IsFiniteSet(Components[c])
  <2>1. IsFiniteSet(Index)
    BY <1>2, FS_Interval
  <2> QED BY <1>4, <2>1, FS_Subset
<1>9. Len(ComponentGraph) = Len(Components)
  BY <1>4, <1>6
<1> QED BY <1>1, <1>2, <1>3, <1>4, <1>5, <1>7, <1>8, <1>9

LEMMA SameGraph ==
  ASSUME TypeInv, GraphExact, CGP!Inv,
         UNCHANGED <<link, EntryList, SharedDepQueue, InferredDependSets, EntryConstraintGraph>>,
         phase' \in {"Target", "AddLinkEntries", "BFS", "Shared", "Components", "Order", "done"},
         UNCHANGED ccgVars \/ ccg!Next
  PROVE  TypeInv' /\ GraphExact' /\ CGP!Inv'
<1>1. TypeInv'
  BY SameTypes
<1>2. /\ Index' = Index /\ ItemOf' = ItemOf /\ EntryItems' = EntryItems
      /\ Linked' = Linked /\ Shared' = Shared /\ Precedes' = Precedes
  BY SameProject, SameEntries
<1>3. GraphExact'
  BY <1>2 DEF GraphExact
<1>4. CleanConstraintGraph' = CleanConstraintGraph
  BY DEF CleanConstraintGraph, Ascending
<1>5. CASE UNCHANGED ccgVars
  <2>1. UNCHANGED CGP!vars
    BY <1>4, <1>5 DEF CGP!vars, CGP!walk, CGP!found, ccgVars
  <2> QED BY <1>1, <1>3, <2>1, CGP!NextInv
<1>6. CASE ccg!Next
  BY <1>1, <1>3, <1>6, SameComponentGraph, CGP!NextInv
<1> QED BY <1>5, <1>6

---------------------------------------------------------------------------
(* The components are listed.                                               *)
LEMMA SameListing ==
  ASSUME LineInv, UNCHANGED <<EntryList, FinalLinkEntries, TarjanComponents, Components>>,
         Listing' = Listing, next' \in 1..(Len(Components) + 1),
         ComponentVisited' = 1..(next' - 1),
         \/ visits' = <<>>
         \/ (/\ next' > 1
             /\ \E S \in SUBSET (1..(next' - 2)) : visits' = <<[component |-> next' - 1, edges |-> S]>>)
  PROVE  LineInv'
<1>1. Index' = Index /\ Places' = Places /\ ComponentAt' = ComponentAt /\ PlacesOf' = PlacesOf
  <2>1. Index' = Index /\ Places' = Places
    BY DEF Index, Places
  <2> QED BY <2>1 DEF ComponentAt, PlacesOf
<1>2. \A p \in Places' : ComponentAt'[p] <= Listing'
  BY <1>1 DEF LineInv
<1>3. \A p, q \in Places' : p <= q => ComponentAt'[p] <= ComponentAt'[q]
  BY <1>1 DEF LineInv
<1>4. \A k \in Index' : TarjanComponents'[k] <= Listing' =>
        IF Components'[TarjanComponents'[k]] = {k}
        THEN \E p \in Places' : PlacesOf'[k] = {p}
        ELSE \E p, q \in Places' : p # q /\ PlacesOf'[k] = {p, q}
  <2> SUFFICES ASSUME NEW k \in Index, TarjanComponents[k] <= Listing
               PROVE  IF Components[TarjanComponents[k]] = {k}
                      THEN \E p \in Places : PlacesOf[k] = {p}
                      ELSE \E p, q \in Places : p # q /\ PlacesOf[k] = {p, q}
    BY <1>1
  <2> QED BY DEF LineInv
<1>5. \A j, k \in Index' :
        TarjanComponents'[j] = TarjanComponents'[k] /\ j # k /\ TarjanComponents'[k] <= Listing'
          => \E p, q \in Places' : p < q /\ FinalLinkEntries'[p] = j /\ FinalLinkEntries'[q] = k
  BY <1>1 DEF LineInv
<1>6. FinalLinkEntries' \in Seq(Index')
  BY <1>1 DEF LineInv
<1> QED BY <1>2, <1>3, <1>4, <1>5, <1>6 DEF LineInv

LEMMA SameLine ==
  ASSUME LineInv, UNCHANGED <<EntryList, order, TarjanComponents, Components>>
  PROVE  LineInv'
<1>1. Listing' = Listing
  BY DEF Listing, order
<1> QED BY <1>1, SameListing DEF LineInv, order

LEMMA NothingListed ==
  ASSUME TypeInv, CGP!Inv, pc = "done", NotOrdered
  PROVE  LineInv
<1>1. Len(Components) \in Nat /\ \A k \in Index : TarjanComponents[k] \in 1..Len(Components)
  BY ComponentsComputed
<1>2. Listing = 0 /\ next = 1 /\ visits = <<>> /\ FinalLinkEntries = <<>> /\ ComponentVisited = {}
  BY DEF NotOrdered, Listing
<1>3. \A k \in Index : ~(TarjanComponents[k] <= Listing)
  BY <1>1, <1>2
<1>4. Places = {}
  BY <1>2 DEF Places
<1>5. next \in 1..(Len(Components) + 1) /\ ComponentVisited = 1..(next - 1)
  BY <1>1, <1>2
<1>6. FinalLinkEntries \in Seq(Index)
  BY <1>2
<1> QED BY <1>2, <1>3, <1>4, <1>5, <1>6 DEF LineInv

LEMMA NextComponent ==
  ASSUME TypeInv, CGP!Inv, pc = "done", LineInv, OrderLinkEntires
  PROVE  LineInv' /\ Listing' = Listing
<1>1. /\ visits = <<>> /\ next <= Len(ComponentGraph) /\ next' = next + 1 /\ VisitComponent(next, <<>>)
      /\ UNCHANGED <<EntryList, FinalLinkEntries, TarjanComponents, Components, ComponentGraph>>
  BY DEF OrderLinkEntires, entries, ccgVars
<1>2. /\ Len(Components) \in Nat /\ Len(ComponentGraph) = Len(Components)
      /\ \A c \in 1..Len(Components) : ComponentGraph[c] \subseteq 1..(c - 1)
  BY ComponentsComputed
<1>3. next \in 1..Len(Components) /\ ComponentVisited = 1..(next - 1)
  BY <1>1, <1>2 DEF LineInv
<1>4. next \notin ComponentVisited
  BY <1>3
<1>5. /\ ComponentVisited' = ComponentVisited \cup {next}
      /\ visits' = <<[component |-> next, edges |-> ComponentGraph[next]]>> \o <<>>
  BY <1>1, <1>4 DEF VisitComponent
<1>6. visits' = <<[component |-> next, edges |-> ComponentGraph[next]]>>
  <2> DEFINE r == [component |-> next, edges |-> ComponentGraph[next]]
  <2> HIDE DEF r
  <2>1. <<r>> \in Seq({r})
    OBVIOUS
  <2>2. <<r>> \o <<>> = <<r>>
    BY <2>1, ConcatEmptySeq
  <2> QED BY <1>5, <2>2 DEF r
<1>7. ComponentVisited' = 1..(next' - 1) /\ next' \in 1..(Len(Components) + 1) /\ next' > 1
      /\ next' - 1 = next /\ next' - 2 = next - 1
  BY <1>1, <1>2, <1>3, <1>5
<1>8. ComponentGraph[next] \in SUBSET (1..(next' - 2))
  BY <1>2, <1>3, <1>7
<1>9. visits' # <<>>
  BY <1>6
<1>10. Listing' = Listing
  BY <1>1, <1>3, <1>9 DEF Listing
<1>11. \E S \in SUBSET (1..(next' - 2)) : visits' = <<[component |-> next' - 1, edges |-> S]>>
  BY <1>6, <1>7, <1>8
<1> QED BY <1>1, <1>7, <1>10, <1>11, SameListing

LEMMA OneEdgeLess ==
  ASSUME NEW b, NEW S, NEW c, NEW v, v = [component |-> b, edges |-> S],
         NEW e, e = [v EXCEPT !.edges = @ \ {c}]
  PROVE  e = [component |-> b, edges |-> S \ {c}]
<1>1. v \in [component : {b}, edges : {S}]
  OBVIOUS
<1>2. e \in [component : {b}, edges : {S \ {c}}]
  BY <1>1
<1>3. e.component = b /\ e.edges = S \ {c}
  BY <1>2
<1>4. e = [component |-> e.component, edges |-> e.edges]
  BY <1>2
<1> QED BY <1>3, <1>4

LEMMA NextNeighbor ==
  ASSUME LineInv, VisitNeighbor
  PROVE  LineInv' /\ Listing' = Listing
<1>1. /\ visits # <<>>
      /\ UNCHANGED <<EntryList, next, FinalLinkEntries, TarjanComponents, Components>>
  BY DEF VisitNeighbor, entries, ccgVars
<1>2. PICK c \in Head(visits).edges :
        VisitComponent(c, <<[Head(visits) EXCEPT !.edges = @ \ {c}]>> \o Tail(visits))
  BY DEF VisitNeighbor
<1>3. next > 1 /\ next \in Nat /\ ComponentVisited = 1..(next - 1)
  BY <1>1 DEF LineInv
<1>4. PICK S \in SUBSET (1..(next - 2)) : visits = <<[component |-> next - 1, edges |-> S]>>
  BY <1>1 DEF LineInv
<1>5. /\ Head(visits) = [component |-> next - 1, edges |-> S] /\ Tail(visits) = <<>>
      /\ Head(visits).edges = S
  BY <1>4
<1>6. c \in 1..(next - 2)
  BY <1>2, <1>5
<1>7. c \in ComponentVisited
  BY <1>3, <1>6
<1>8. /\ ComponentVisited' = ComponentVisited
      /\ visits' = <<[Head(visits) EXCEPT !.edges = @ \ {c}]>> \o Tail(visits)
  BY <1>2, <1>7 DEF VisitComponent
<1>9. [Head(visits) EXCEPT !.edges = @ \ {c}] = [component |-> next - 1, edges |-> S \ {c}]
  <2> DEFINE v == Head(visits)
             e == [v EXCEPT !.edges = @ \ {c}]
  <2>1. v = [component |-> next - 1, edges |-> S] /\ e = [v EXCEPT !.edges = @ \ {c}]
    BY <1>5
  <2> HIDE DEF v, e
  <2>2. e = [component |-> next - 1, edges |-> S \ {c}]
    BY <2>1, OneEdgeLess
  <2> QED BY <2>2 DEF v, e
<1>10. visits' = <<[component |-> next - 1, edges |-> S \ {c}]>>
  <2> DEFINE r == [component |-> next - 1, edges |-> S \ {c}]
  <2>1. visits' = <<r>> \o <<>>
    BY <1>5, <1>8, <1>9
  <2> HIDE DEF r
  <2>2. <<r>> \in Seq({r})
    OBVIOUS
  <2>3. <<r>> \o <<>> = <<r>>
    BY <2>2, ConcatEmptySeq
  <2> QED BY <2>1, <2>3 DEF r
<1>11. Listing' = Listing
  BY <1>1, <1>10 DEF Listing
<1>12. S \ {c} \in SUBSET (1..(next' - 2))
  BY <1>1
<1> QED BY <1>1, <1>3, <1>8, <1>10, <1>11, <1>12, SameListing DEF LineInv

\* Component c is put behind what has been listed, f; what is listed is g.
LEMMA EmittedLine ==
  ASSUME TypeInv, CGP!Inv, pc = "done", LineInv, EmitComponent
  PROVE  LineInv'
<1> DEFINE c == next - 1
           C == Components[c]
           e == Emitted(C)
           f == FinalLinkEntries
           g == FinalLinkEntries'
           T == TarjanComponents
<1>1. /\ visits # <<>> /\ g = f \o Emitted(Components[Head(visits).component])
      /\ visits' = Tail(visits)
      /\ UNCHANGED <<EntryList, next, ComponentVisited, TarjanComponents, Components>>
  BY DEF EmitComponent, entries, ccgVars
<1>2. /\ next > 1 /\ next \in 1..(Len(Components) + 1) /\ ComponentVisited = 1..(next - 1)
      /\ \E S \in SUBSET (1..(next - 2)) : visits = <<[component |-> next - 1, edges |-> S]>>
  BY <1>1 DEF LineInv
<1>3. Head(visits).component = c /\ visits' = <<>>
  <2>1. PICK S \in SUBSET (1..(next - 2)) : visits = <<[component |-> next - 1, edges |-> S]>>
    BY <1>2
  <2> QED BY <1>1, <2>1
<1>4. g = f \o e
  BY <1>1, <1>3
<1>5. /\ Len(Components) \in Nat
      /\ \A d \in 1..Len(Components) :
           Components[d] # {} /\ Components[d] \subseteq Index /\ IsFiniteSet(Components[d])
      /\ \A k \in Index : /\ T[k] \in 1..Len(Components)
                          /\ \A d \in 1..Len(Components) : k \in Components[d] <=> T[k] = d
  BY ComponentsComputed
<1>6. /\ c \in 1..Len(Components) /\ c \in Nat /\ Listing = c - 1 /\ Listing' = c
      /\ next = c + 1
  <2>1. next \in Nat /\ c \in 1..Len(Components) /\ c \in Nat /\ next = c + 1
    BY <1>2, <1>5
  <2>2. Listing = c - 1
    BY <1>1, <2>1 DEF Listing
  <2>3. Listing' = c
    BY <1>1, <1>3, <2>1 DEF Listing
  <2> QED BY <2>1, <2>2, <2>3
<1> HIDE DEF c, C, T
<1>7. C \in SUBSET Nat /\ IsFiniteSet(C) /\ C # {} /\ C \subseteq Index
  BY <1>5, <1>6 DEF C, Index
<1>8. e = Emitted(C)
  OBVIOUS
<1> HIDE DEF e
<1>9. e \in Seq(C) /\ Len(e) \in Nat /\ OnceOrTwice(C, e)
  BY <1>7, <1>8, EmittedFacts
<1>10. f \in Seq(Index) /\ e \in Seq(Index) /\ \A r \in 1..Len(e) : e[r] \in C /\ T[e[r]] = c
  <2>1. \A r \in 1..Len(e) : e[r] \in C
    BY <1>9, ElementOfSeq
  <2>2. \A k \in C : T[k] = c
    BY <1>5, <1>6, <1>7 DEF C
  <2>3. e \in Seq(Index)
    <3>1. Len(e) \in Nat /\ e = [r \in 1..Len(e) |-> e[r]]
      BY <1>9, LenProperties
    <3>2. \A r \in 1..Len(e) : e[r] \in Index
      BY <1>7, <2>1
    <3> QED BY <3>1, <3>2
  <2> QED BY <2>1, <2>2, <2>3 DEF LineInv
<1> DEFINE m == Len(f)
           n == Len(e)
<1>11. /\ m \in Nat /\ n \in Nat /\ Len(g) = m + n /\ g \in Seq(Index)
       /\ \A p \in 1..m : g[p] = f[p]
       /\ \A r \in 1..n : g[m + r] = e[r]
  <2>1. /\ g \in Seq(Index) /\ Len(g) = m + n
        /\ \A p \in 1..(m + n) : g[p] = IF p <= m THEN f[p] ELSE e[p - m]
    BY <1>4, <1>10, ConcatProperties
  <2>2. m \in Nat /\ n \in Nat
    BY <1>10, LenProperties
  <2>3. \A p \in 1..m : g[p] = f[p]
    BY <2>1, <2>2
  <2>4. \A r \in 1..n : m + r \in 1..(m + n) /\ ~(m + r <= m) /\ (m + r) - m = r
    BY <2>2
  <2>5. \A r \in 1..n : g[m + r] = e[r]
    BY <2>1, <2>4
  <2> QED BY <2>1, <2>2, <2>3, <2>5
<1>12. /\ Places = 1..m /\ Places' = 1..(m + n) /\ Index' = Index
       /\ ComponentAt = [p \in 1..m |-> T[f[p]]] /\ ComponentAt' = [p \in 1..(m + n) |-> T[g[p]]]
  <2>1. Places = 1..m /\ Places' = 1..(m + n) /\ Index' = Index
    BY <1>1, <1>11 DEF Places, Index
  <2>2. TarjanComponents' = TarjanComponents
    BY <1>1
  <2> QED BY <2>1, <2>2 DEF ComponentAt, T
<1> DEFINE At == ComponentAt'
<1>13. /\ \A p \in 1..m : At[p] = ComponentAt[p] /\ At[p] <= c - 1 /\ At[p] \in Nat
       /\ \A r \in 1..n : At[m + r] = c
  <2>1. \A p \in 1..m : p \in 1..(m + n) /\ At[p] = ComponentAt[p]
    BY <1>11, <1>12
  <2>2. \A p \in 1..m : ComponentAt[p] <= c - 1
    BY <1>6, <1>12 DEF LineInv
  <2>3. \A p \in 1..m : f[p] \in Index
    BY <1>10, ElementOfSeq
  <2>4. \A p \in 1..m : ComponentAt[p] \in Nat
    BY <1>5, <1>12, <2>3
  <2>5. \A r \in 1..n : m + r \in 1..(m + n)
    BY <1>11
  <2>6. \A r \in 1..n : At[m + r] = c
    BY <1>10, <1>11, <1>12, <2>5
  <2> QED BY <2>1, <2>2, <2>4, <2>6
<1> HIDE DEF f, g, m, n, At
<1>14. \A p \in 1..(m + n) : p \in 1..m \/ \E r \in 1..n : p = m + r
  <2> SUFFICES ASSUME NEW p \in 1..(m + n), p \notin 1..m PROVE \E r \in 1..n : p = m + r
    OBVIOUS
  <2>1. p - m \in 1..n /\ p = m + (p - m)
    BY <1>11
  <2> QED BY <2>1
<1>15. \A p \in 1..(m + n) : At[p] <= c
  <2> SUFFICES ASSUME NEW p \in 1..(m + n) PROVE At[p] <= c
    OBVIOUS
  <2>1. CASE p \in 1..m
    <3>1. At[p] <= c - 1 /\ At[p] \in Nat
      BY <1>13, <2>1
    <3> QED BY <1>6, <3>1
  <2>2. CASE \E r \in 1..n : p = m + r
    <3>1. At[p] = c
      BY <1>13, <2>2
    <3> QED BY <1>6, <3>1
  <2> QED BY <1>14, <2>1, <2>2
<1>16. \A p, q \in 1..(m + n) : p <= q => At[p] <= At[q]
  <2> SUFFICES ASSUME NEW p \in 1..(m + n), NEW q \in 1..(m + n), p <= q PROVE At[p] <= At[q]
    OBVIOUS
  <2>1. CASE q \in 1..m
    <3>1. p \in 1..m
      BY <1>11, <2>1
    <3>2. ComponentAt[p] <= ComponentAt[q]
      BY <1>12, <2>1, <3>1 DEF LineInv
    <3> QED BY <1>13, <2>1, <3>1, <3>2
  <2>2. CASE \E r \in 1..n : q = m + r
    <3>1. At[q] = c
      BY <1>13, <2>2
    <3> QED BY <1>15, <3>1
  <2> QED BY <1>14, <2>1, <2>2
<1>17. \A k \in Index : /\ PlacesOf[k] = {p \in 1..m : f[p] = k}
                        /\ PlacesOf'[k] = {p \in 1..(m + n) : g[p] = k}
  BY <1>12 DEF PlacesOf, f, g
<1>18. ASSUME NEW k \in Index, T[k] <= c
       PROVE  IF Components[T[k]] = {k} THEN \E p \in 1..(m + n) : PlacesOf'[k] = {p}
              ELSE \E p, q \in 1..(m + n) : p # q /\ PlacesOf'[k] = {p, q}
  <2>1. CASE T[k] <= c - 1
    <3>1. \A r \in 1..n : e[r] # k
      <4>1. \A r \in 1..n : T[e[r]] = c
        BY <1>10 DEF n
      <4>2. T[k] # c
        BY <1>5, <1>6, <2>1
      <4> QED BY <4>1, <4>2
    <3>2. \A r \in 1..n : g[m + r] # k
      BY <1>11, <3>1
    <3>3. \A p : p \in 1..(m + n) /\ g[p] = k <=> p \in 1..m /\ f[p] = k
      <4>1. \A p \in 1..m : p \in 1..(m + n) /\ g[p] = f[p]
        BY <1>11
      <4>2. \A p \in 1..(m + n) : g[p] = k => p \in 1..m
        BY <1>14, <3>2
      <4> QED BY <4>1, <4>2
    <3>4. PlacesOf'[k] = PlacesOf[k]
      BY <1>17, <3>3
    <3>5. IF Components[T[k]] = {k} THEN \E p \in 1..m : PlacesOf[k] = {p}
          ELSE \E p, q \in 1..m : p # q /\ PlacesOf[k] = {p, q}
      BY <1>6, <1>12, <2>1 DEF LineInv, T
    <3>6. \A p \in 1..m : p \in 1..(m + n)
      BY <1>11
    <3> QED BY <3>4, <3>5, <3>6
  <2>2. CASE T[k] = c
    <3>1. k \in C /\ Components[T[k]] = C
      BY <1>5, <1>6, <2>2 DEF C
    <3>2. \A p \in 1..m : f[p] # k
      <4> SUFFICES ASSUME NEW p \in 1..m, f[p] = k PROVE FALSE
        OBVIOUS
      <4>1. ComponentAt[p] = c
        BY <1>12, <2>2
      <4>2. ComponentAt[p] <= c - 1
        BY <1>13
      <4> QED BY <1>6, <4>1, <4>2
    <3>3. ASSUME NEW p PROVE p \in PlacesOf'[k] <=> \E r \in 1..n : e[r] = k /\ p = m + r
      <4>1. \A r \in 1..n : m + r \in 1..(m + n) /\ g[m + r] = e[r]
        BY <1>11
      <4>2. p \in 1..(m + n) /\ g[p] = k => \E r \in 1..n : e[r] = k /\ p = m + r
        BY <1>11, <1>14, <3>2, <4>1
      <4> QED BY <1>17, <4>1, <4>2
    <3>4. CASE C = {k}
      <4>1. PICK r \in 1..n : {s \in 1..n : e[s] = k} = {r}
        BY <1>9, <3>1, <3>4 DEF n, OnceOrTwice
      <4>2. \A s \in 1..n : e[s] = k <=> s = r
        BY <4>1
      <4>3. PlacesOf'[k] = {m + r}
        BY <3>3, <4>2
      <4>4. m + r \in 1..(m + n)
        BY <1>11
      <4> QED BY <3>1, <3>4, <4>3, <4>4
    <3>5. CASE C # {k}
      <4>1. PICK r, t \in 1..n : r # t /\ {s \in 1..n : e[s] = k} = {r, t}
        BY <1>9, <3>1, <3>5 DEF n, OnceOrTwice
      <4>2. \A s \in 1..n : e[s] = k <=> s = r \/ s = t
        BY <4>1
      <4>3. PlacesOf'[k] = {m + r, m + t}
        BY <3>3, <4>2
      <4>4. m + r \in 1..(m + n) /\ m + t \in 1..(m + n) /\ m + r # m + t
        BY <1>11, <4>1
      <4> QED BY <3>1, <3>5, <4>3, <4>4
    <3> QED BY <3>4, <3>5
  <2>3. T[k] <= c - 1 \/ T[k] = c
    BY <1>5, <1>6, <1>18
  <2> QED BY <2>1, <2>2, <2>3
<1>19. ASSUME NEW j \in Index, NEW k \in Index, T[j] = T[k], j # k, T[k] <= c
       PROVE  \E p, q \in 1..(m + n) : p < q /\ g[p] = j /\ g[q] = k
  <2>1. CASE T[k] <= c - 1
    <3>1. \E p, q \in 1..m : p < q /\ f[p] = j /\ f[q] = k
      BY <1>6, <1>12, <1>19, <2>1 DEF LineInv, T, f
    <3>2. \A p \in 1..m : p \in 1..(m + n) /\ g[p] = f[p]
      BY <1>11
    <3> QED BY <3>1, <3>2
  <2>2. CASE T[k] = c
    <3>1. j \in C /\ k \in C
      BY <1>5, <1>6, <1>19, <2>2 DEF C
    <3>2. PICK r, t \in 1..n : r < t /\ e[r] = j /\ e[t] = k
      BY <1>9, <1>19, <3>1 DEF n, OnceOrTwice
    <3>3. m + r \in 1..(m + n) /\ m + t \in 1..(m + n) /\ m + r < m + t
      BY <1>11, <3>2
    <3>4. g[m + r] = j /\ g[m + t] = k
      BY <1>11, <3>2
    <3> QED BY <3>3, <3>4
  <2>3. T[k] <= c - 1 \/ T[k] = c
    BY <1>5, <1>6, <1>19
  <2> QED BY <2>1, <2>2, <2>3
<1>20. \A p \in Places' : ComponentAt'[p] <= Listing'
  BY <1>6, <1>12, <1>15 DEF At
<1>21. \A p, q \in Places' : p <= q => ComponentAt'[p] <= ComponentAt'[q]
  BY <1>12, <1>16 DEF At
<1>22. \A k \in Index' : TarjanComponents'[k] <= Listing' =>
         IF Components'[TarjanComponents'[k]] = {k}
         THEN \E p \in Places' : PlacesOf'[k] = {p}
         ELSE \E p, q \in Places' : p # q /\ PlacesOf'[k] = {p, q}
  <2> SUFFICES ASSUME NEW k \in Index, T[k] <= c
               PROVE  IF Components[T[k]] = {k} THEN \E p \in 1..(m + n) : PlacesOf'[k] = {p}
                      ELSE \E p, q \in 1..(m + n) : p # q /\ PlacesOf'[k] = {p, q}
    BY <1>1, <1>6, <1>12 DEF T
  <2> QED BY <1>18
<1>23. \A j, k \in Index' :
         TarjanComponents'[j] = TarjanComponents'[k] /\ j # k /\ TarjanComponents'[k] <= Listing'
           => \E p, q \in Places' : p < q /\ FinalLinkEntries'[p] = j /\ FinalLinkEntries'[q] = k
  <2> SUFFICES ASSUME NEW j \in Index', NEW k \in Index', TarjanComponents'[j] = TarjanComponents'[k],
                      j # k, TarjanComponents'[k] <= Listing'
               PROVE  \E p, q \in Places' : p < q /\ FinalLinkEntries'[p] = j /\ FinalLinkEntries'[q] = k
    OBVIOUS
  <2>1. j \in Index /\ k \in Index /\ T[j] = T[k] /\ T[k] <= c
    BY <1>1, <1>6, <1>12 DEF T
  <2>2. \E p, q \in 1..(m + n) : p < q /\ g[p] = j /\ g[q] = k
    BY <1>19, <2>1
  <2> QED BY <1>12, <2>2 DEF g
<1>24. next' \in 1..(Len(Components') + 1) /\ ComponentVisited' = 1..(next' - 1)
  BY <1>1, <1>2
<1>25. FinalLinkEntries' \in Seq(Index')
  BY <1>11, <1>12 DEF g
<1> QED BY <1>3, <1>20, <1>21, <1>22, <1>23, <1>24, <1>25 DEF LineInv

---------------------------------------------------------------------------
(* The invariant holds initially, and every step keeps it.                  *)
LEMMA InitInv ==
  ASSUME Init
  PROVE  IInv
<1>1. /\ link \in Links /\ EntryList = <<>> /\ BFSQueue = <<>> /\ depender = 0 /\ libs = <<>>
      /\ DOMAIN dependSets = {} /\ SharedDepQueue = <<>> /\ InferredDependSets = <<>>
      /\ EntryConstraintGraph = <<>> /\ phase = "Target" /\ NotOrdered /\ ccg!Unconstructed
  BY DEF Init, NoSets, NotOrdered
<1>2. Index = {} /\ EntryItems = {} /\ Waiting = {} /\ Depender = Target
  <2>1. Index = {}
    BY <1>1 DEF Index
  <2>2. Waiting = {}
    BY <1>1 DEF Waiting
  <2> QED BY <1>1, <2>1, <2>2 DEF EntryItems, Depender
<1>3. TypeInv
  <2>1. EntryList \in Seq([Item : Items, IsSharedDep : BOOLEAN])
    BY <1>1
  <2>2. SharedDepQueue \in Seq(Dependency) /\ Len(SharedDepQueue) = 0
    BY <1>1
  <2>3. InferredDependSets \in [Index -> SUBSET SUBSET Index]
    BY <1>1, <1>2
  <2>4. EntryConstraintGraph \in [Index -> SUBSET Index]
    BY <1>1, <1>2
  <2> QED BY <1>1, <1>2, <2>1, <2>2, <2>3, <2>4 DEF TypeInv
<1>4. QueueInv
  BY <1>1, <1>2 DEF QueueInv
<1>5. SaidInv
  <2>1. Followed = {}
    BY <1>1, <1>2 DEF Followed
  <2>2. Said[Target] = {}
    BY <1>1, <1>2, <2>1 DEF Said
  <2> QED BY <1>2, <2>2 DEF SaidInv
<1>6. SetsInv
  BY <1>1, <1>2 DEF SetsInv
<1> QED BY <1>1, <1>3, <1>4, <1>5, <1>6 DEF IInv, CollectInv

LEMMA CollectSteps ==
  ASSUME IInv,
         FollowTarget \/ FollowLinkEntry \/ SkipTarget \/ AddLinkEntry \/ StoreDependSets \/ EndOfBFS
  PROVE  IInv'
<1>1. /\ phase \in {"Target", "AddLinkEntries", "BFS"}
      /\ UNCHANGED <<order, ccgVars>>
  BY DEF FollowTarget, FollowLinkEntry, SkipTarget, AddLinkEntry, StoreDependSets, EndOfBFS
<1>2. TypeInv /\ CollectInv /\ NotOrdered /\ ccg!Unconstructed
  BY <1>1 DEF IInv
<1>3. NotOrdered' /\ (ccg!Unconstructed)'
  BY <1>1, <1>2 DEF NotOrdered, ccg!Unconstructed, order, ccgVars
<1>4. CASE EndOfBFS
  <2>1. phase' = "Shared" /\ BFSQueue' = <<>>
    BY <1>4 DEF EndOfBFS, entries
  <2>2. TypeInv' /\ SharedInv'
    BY <1>2, <1>4, EndedBFS
  <2> QED BY <1>3, <2>1, <2>2 DEF IInv
<1>5. CASE ~EndOfBFS
  <2>1. phase' \in {"Target", "AddLinkEntries", "BFS"}
    BY <1>1, <1>5 DEF FollowTarget, FollowLinkEntry, SkipTarget, AddLinkEntry, StoreDependSets
  <2>2. FollowTarget => TypeInv' /\ CollectInv'
    BY <1>2, FollowedTarget
  <2>3. FollowLinkEntry => TypeInv' /\ CollectInv'
    BY <1>2, FollowedEntry
  <2>4. SkipTarget => TypeInv' /\ CollectInv'
    BY <1>2, SkippedTarget
  <2>5. AddLinkEntry => TypeInv' /\ CollectInv'
    BY <1>2, AddedTypes, AddedSaidInv, AddedSetsInv DEF CollectInv
  <2>6. StoreDependSets => TypeInv' /\ CollectInv'
    BY <1>2, StoredSets
  <2> QED BY <1>3, <1>5, <2>1, <2>2, <2>3, <2>4, <2>5, <2>6 DEF IInv
<1> QED BY <1>4, <1>5

LEMMA SharedSteps ==
  ASSUME IInv, HandleSharedDependency \/ InferDependencies
  PROVE  IInv'
<1>1. phase = "Shared" /\ UNCHANGED <<order, ccgVars>> /\ BFSQueue' = BFSQueue
  BY DEF HandleSharedDependency, InferDependencies
<1>2. TypeInv /\ SharedInv /\ NotOrdered /\ ccg!Unconstructed /\ BFSQueue = <<>>
  BY <1>1 DEF IInv
<1>3. NotOrdered' /\ (ccg!Unconstructed)'
  BY <1>1, <1>2 DEF NotOrdered, ccg!Unconstructed, order, ccgVars
<1>4. CASE HandleSharedDependency
  <2>1. phase' = "Shared"
    BY <1>1, <1>4 DEF HandleSharedDependency
  <2>2. TypeInv' /\ SharedInv'
    BY <1>2, <1>4, HandledShared
  <2> QED BY <1>1, <1>2, <1>3, <2>1, <2>2 DEF IInv
<1>5. CASE InferDependencies
  <2>1. phase' = "Components"
    BY <1>5 DEF InferDependencies
  <2>2. TypeInv' /\ GraphExact' /\ CGP!Inv'
    BY <1>2, <1>5, Inferred
  <2> QED BY <1>1, <1>2, <1>3, <2>1, <2>2 DEF IInv
<1> QED BY <1>4, <1>5

LEMMA ComponentSteps ==
  ASSUME IInv, IdentifyComponents \/ ComponentsIdentified
  PROVE  IInv'
<1>1. /\ phase = "Components"
      /\ UNCHANGED <<link, EntryList, BFSQueue, SharedDepQueue, InferredDependSets,
                     EntryConstraintGraph, order>>
      /\ UNCHANGED ccgVars \/ ccg!Next
      /\ phase' \in {"Components", "Order"}
  BY DEF IdentifyComponents, ComponentsIdentified, entries
<1>2. TypeInv /\ GraphExact /\ CGP!Inv /\ NotOrdered /\ BFSQueue = <<>>
  BY <1>1 DEF IInv
<1>3. TypeInv' /\ GraphExact' /\ CGP!Inv'
  BY <1>1, <1>2, SameGraph
<1>4. NotOrdered'
  BY <1>1, <1>2 DEF NotOrdered, order
<1>5. CASE IdentifyComponents
  <2>1. phase' = "Components"
    BY <1>1, <1>5 DEF IdentifyComponents
  <2> QED BY <1>1, <1>2, <1>3, <1>4, <2>1 DEF IInv
<1>6. CASE ComponentsIdentified
  <2>1. phase' = "Order" /\ pc = "done" /\ UNCHANGED ccgVars
    BY <1>6 DEF ComponentsIdentified
  <2>2. LineInv
    BY <1>2, <2>1, NothingListed
  <2>3. LineInv' /\ pc' = "done"
    BY <1>1, <2>1, <2>2, SameLine DEF ccgVars
  <2> QED BY <1>1, <1>2, <1>3, <2>1, <2>3 DEF IInv
<1> QED BY <1>5, <1>6

LEMMA OrderSteps ==
  ASSUME IInv, OrderLinkEntires \/ VisitNeighbor \/ EmitComponent \/ LineComplete
  PROVE  IInv'
<1>1. /\ phase = "Order" /\ phase' \in {"Order", "done"}
      /\ UNCHANGED <<link, EntryList, BFSQueue, SharedDepQueue, InferredDependSets,
                     EntryConstraintGraph, ccgVars>>
  BY DEF OrderLinkEntires, VisitNeighbor, EmitComponent, LineComplete, entries
<1>2. TypeInv /\ GraphExact /\ CGP!Inv /\ pc = "done" /\ LineInv /\ BFSQueue = <<>>
  BY <1>1 DEF IInv
<1>3. TypeInv' /\ GraphExact' /\ CGP!Inv'
  BY <1>1, <1>2, SameGraph
<1>4. pc' = "done"
  BY <1>1, <1>2 DEF ccgVars
<1>5. LineComplete => LineInv'
  BY <1>1, <1>2, SameLine DEF LineComplete, ccgVars
<1>6. LineInv'
  BY <1>2, <1>5, NextComponent, NextNeighbor, EmittedLine
<1>7. phase' = "done" => visits' = <<>> /\ next' = Len(Components') + 1
  <2> SUFFICES ASSUME phase' = "done" PROVE visits' = <<>> /\ next' = Len(Components') + 1
    OBVIOUS
  <2>1. LineComplete
    BY <1>1 DEF OrderLinkEntires, VisitNeighbor, EmitComponent
  <2>2. visits = <<>> /\ next > Len(ComponentGraph) /\ visits' = visits /\ next' = next
        /\ Components' = Components
    BY <2>1 DEF LineComplete, order, ccgVars
  <2>3. Len(Components) \in Nat /\ Len(ComponentGraph) = Len(Components)
    BY <1>2, ComponentsComputed
  <2>4. next \in 1..(Len(Components) + 1)
    BY <1>2 DEF LineInv
  <2>5. next = Len(Components) + 1
    BY <2>2, <2>3, <2>4
  <2> QED BY <2>2, <2>5
<1> QED BY <1>1, <1>2, <1>3, <1>4, <1>6, <1>7 DEF IInv

LEMMA SameCollecting ==
  ASSUME CollectInv, UNCHANGED <<link, EntryList, BFSQueue, depender, libs, dependSets, SharedDepQueue,
                                 InferredDependSets, EntryConstraintGraph, phase>>
  PROVE  CollectInv'
<1>1. /\ Index' = Index /\ ItemOf' = ItemOf /\ EntryItems' = EntryItems
      /\ Linked' = Linked /\ \A x : (SharedDepsOf(x))' = SharedDepsOf(x)
      /\ \A A : (Entries(A))' = Entries(A)
  BY SameProject, SameEntries
<1>2. /\ Depender' = Depender /\ Waiting' = Waiting
  BY <1>1 DEF Depender, Waiting
<1>3. Following' = Following /\ Done' = Done /\ Followed' = Followed
  BY <1>1, <1>2 DEF Following, Done, Followed
<1>4. Said' = Said
  BY <1>1, <1>2, <1>3 DEF Said
<1>5. QueueInv'
  BY <1>1, <1>2, <1>3 DEF CollectInv, QueueInv
<1>6. SaidInv'
  <2>1. \A j \in Index' \ Waiting' : \A d \in (SharedDepsOf(ItemOf[j]))' :
          \E a \in 1..Len(SharedDepQueue') : SharedDepQueue'[a] = [Item |-> d, DependerIndex |-> j]
    BY <1>1, <1>2 DEF CollectInv, SaidInv, SharedDepsOf
  <2> QED BY <1>1, <1>2, <1>4, <2>1 DEF CollectInv, SaidInv
<1>7. SetsInv'
  <2> DEFINE EntriesOf(A) == {k \in Index' : ItemOf'[k] \in A}
  <2>1. \A A : EntriesOf(A) = Entries(A)
    BY <1>1 DEF Entries
  <2>2. link' = link /\ dependSets' = dependSets /\ phase' = phase
        /\ InferredDependSets' = InferredDependSets
    OBVIOUS
  <2> HIDE DEF EntriesOf
  <2>3. \A k \in Index' : InferredDependSets'[k] =
          IF ItemOf'[k] \in link'.known THEN {}
          ELSE {EntriesOf(FollowSet(ItemOf'[k], link'.libraries[x])) :
                  x \in {y \in Followed' : ItemOf'[k] \in Range(link'.libraries[y])}}
    <3>1. \A k \in Index : InferredDependSets[k] =
            IF ItemOf[k] \in link.known THEN {}
            ELSE {Entries(FollowSet(ItemOf[k], link.libraries[x])) :
                    x \in {y \in Followed : ItemOf[k] \in Range(link.libraries[y])}}
      BY DEF CollectInv, SetsInv
    <3>2. \A k \in Index' : InferredDependSets'[k] =
            IF ItemOf'[k] \in link'.known THEN {}
            ELSE {Entries(FollowSet(ItemOf'[k], link'.libraries[x])) :
                    x \in {y \in Followed' : ItemOf'[k] \in Range(link'.libraries[y])}}
      BY ONLY <1>1, <1>3, <2>2, <3>1, Zenon
    <3> QED BY <2>1, <3>2
  <2>4. DOMAIN dependSets' = IF phase' = "AddLinkEntries"
                             THEN EntriesOf((Said[Depender] \ link.known)') ELSE {}
    BY <1>2, <1>4, <2>1, <2>2 DEF CollectInv, SetsInv
  <2>5. \A k \in DOMAIN dependSets' :
          dependSets'[k] = EntriesOf((FollowUpTo(ItemOf[k], Following, Done))')
    <3>1. \A k : (FollowUpTo(ItemOf[k], Following, Done))' = FollowUpTo(ItemOf[k], Following, Done)
      BY <1>1, <1>3 DEF FollowUpTo
    <3> QED BY <2>1, <2>2, <3>1 DEF CollectInv, SetsInv
  <2> QED BY <2>3, <2>4, <2>5 DEF SetsInv, Entries, EntriesOf, FollowUpTo, FollowSet
<1> QED BY <1>5, <1>6, <1>7 DEF CollectInv

LEMMA NextInv ==
  ASSUME IInv, [Next]_vars
  PROVE  IInv'
<1>1. CASE Next
  BY <1>1, CollectSteps, SharedSteps, ComponentSteps, OrderSteps DEF Next
<1>2. CASE UNCHANGED vars
  <2>1. UNCHANGED <<link, EntryList, BFSQueue, depender, libs, dependSets, SharedDepQueue,
                    InferredDependSets, EntryConstraintGraph, order, phase, ccgVars>>
    BY <1>2 DEF vars, entries, adding
  <2>2. /\ Index' = Index /\ ItemOf' = ItemOf /\ EntryItems' = EntryItems
        /\ Linked' = Linked /\ Shared' = Shared /\ Lists' = Lists
        /\ \A x : (SharedDepsOf(x))' = SharedDepsOf(x) /\ (Listed(x))' = Listed(x)
        /\ \A A : (Entries(A))' = Entries(A)
    BY <2>1, SameProject, SameEntries
  <2>3. TypeInv'
    BY <2>1, SameTypes DEF IInv, TypeInv
  <2>4. phase \in {"Target", "AddLinkEntries", "BFS"} => CollectInv'
    BY <2>1, <2>2, SameCollecting DEF IInv
  <2>5. phase = "Shared" => SharedInv'
    BY <2>1, SameShared DEF IInv
  <2>6. phase \in {"Components", "Order", "done"} => GraphExact' /\ CGP!Inv'
    BY <2>1, SameGraph DEF IInv, TypeInv
  <2>7. phase \in {"Order", "done"} => LineInv'
    BY <2>1, SameLine DEF IInv, ccgVars
  <2>8. Len(Components') = Len(Components) /\ pc' = pc /\ visits' = visits /\ next' = next
    BY <2>1 DEF ccgVars, order
  <2>9. phase \notin {"Components", "Order", "done"} => (ccg!Unconstructed)'
    BY <2>1 DEF IInv, ccg!Unconstructed, ccgVars
  <2>10. phase \notin {"Order", "done"} => NotOrdered'
    BY <2>1 DEF IInv, NotOrdered, order
  <2> QED BY <2>1, <2>3, <2>4, <2>5, <2>6, <2>7, <2>8, <2>9, <2>10 DEF IInv
<1> QED BY <1>1, <1>2

LEMMA Invariance == Spec => []IInv
<1>1. Init => IInv
  BY InitInv
<1>2. IInv /\ [Next]_vars => IInv'
  BY NextInv
<1> QED BY <1>1, <1>2, PTL DEF Spec

---------------------------------------------------------------------------
(* What the invariant says of the constraints and of the finished line.     *)
LEMMA ConstrainedEntries ==
  ASSUME TypeInv, GraphExact
  PROVE  \A c \in Precedes : \E j, k \in Index : c = <<ItemOf[j], ItemOf[k]>>
<1>1. Precedes \subseteq (Linked \cup Shared) \X (Linked \cup Shared)
  BY DEF Precedes
<1>2. \A x \in Linked \cup Shared : \E k \in Index : x = ItemOf[k]
  BY DEF GraphExact, EntryItems
<1>3. \A c \in Precedes : c = <<c[1], c[2]>> /\ c[1] \in Linked \cup Shared /\ c[2] \in Linked \cup Shared
  BY <1>1
<1> HIDE DEF Precedes
<1> QED BY <1>2, <1>3

LEMMA LineAtEnd ==
  ASSUME IInv, phase = "done"
  PROVE  /\ FinalLinkEntries \in Seq(Index) /\ Len(FinalLinkEntries) \in Nat
         /\ \A k : k \in Range(FinalLinkEntries) <=> k \in Index
         /\ \A p \in Places : FinalLinkEntries[p] \in Index
         /\ \A k \in Index : PlacesOf[k] = {p \in Places : FinalLinkEntries[p] = k}
         /\ \A j \in Index : \A k \in Index : TarjanComponents[j] < TarjanComponents[k] =>
              \A p \in PlacesOf[j], q \in PlacesOf[k] : p < q
         /\ \A k \in Index :
              IF Components[TarjanComponents[k]] = {k}
              THEN \E p \in Places : PlacesOf[k] = {p}
              ELSE \E p, q \in Places : p # q /\ PlacesOf[k] = {p, q}
         /\ \A j, k \in Index : TarjanComponents[j] = TarjanComponents[k] /\ j # k =>
              \E p \in PlacesOf[j], q \in PlacesOf[k] : p < q
<1> USE DEF IInv
<1>1. TypeInv /\ CGP!Inv /\ pc = "done" /\ LineInv /\ visits = <<>> /\ next = Len(Components) + 1
  OBVIOUS
<1>2. Len(Components) \in Nat /\ \A k \in Index : TarjanComponents[k] \in 1..Len(Components)
  BY <1>1, ComponentsComputed
<1>3. Listing = Len(Components)
  BY <1>1, <1>2 DEF Listing
<1>4. \A k \in Index : TarjanComponents[k] <= Listing /\ TarjanComponents[k] \in Nat
  BY <1>2, <1>3
<1>5. FinalLinkEntries \in Seq(Index) /\ Len(FinalLinkEntries) \in Nat
  BY <1>1, LenProperties DEF LineInv
<1>6. \A p \in Places : FinalLinkEntries[p] \in Index /\ p \in Nat
  BY <1>5, ElementOfSeq DEF Places
<1>7. \A k \in Index : PlacesOf[k] = {p \in Places : FinalLinkEntries[p] = k}
  BY DEF PlacesOf
<1>8. \A k \in Index :
        IF Components[TarjanComponents[k]] = {k}
        THEN \E p \in Places : PlacesOf[k] = {p}
        ELSE \E p, q \in Places : p # q /\ PlacesOf[k] = {p, q}
  BY <1>1, <1>4 DEF LineInv
<1>9. \A k \in Index : \E p \in Places : FinalLinkEntries[p] = k
  <2> SUFFICES ASSUME NEW k \in Index PROVE \E p \in PlacesOf[k] : TRUE
    BY <1>7
  <2> QED BY <1>8
<1>10. \A k : k \in Range(FinalLinkEntries) <=> k \in Index
  <2>1. Range(FinalLinkEntries) = {FinalLinkEntries[p] : p \in Places}
    BY <1>5 DEF Range, Places
  <2> QED BY <1>6, <1>9, <2>1
<1>11. ASSUME NEW j \in Index, NEW k \in Index, TarjanComponents[j] < TarjanComponents[k],
              NEW p \in PlacesOf[j], NEW q \in PlacesOf[k]
       PROVE  p < q
  <2>1. /\ p \in Places /\ q \in Places /\ ComponentAt[p] = TarjanComponents[j]
        /\ ComponentAt[q] = TarjanComponents[k]
    BY <1>7 DEF ComponentAt
  <2>2. q <= p => ComponentAt[q] <= ComponentAt[p]
    BY <1>1, <2>1 DEF LineInv
  <2>3. ~(q <= p)
    BY <1>4, <1>11, <2>1, <2>2
  <2> QED BY <1>6, <2>1, <2>3
<1>12. \A j, k \in Index : TarjanComponents[j] = TarjanComponents[k] /\ j # k =>
         \E p \in PlacesOf[j], q \in PlacesOf[k] : p < q
  BY <1>1, <1>4, <1>7 DEF LineInv
<1> QED BY <1>5, <1>6, <1>7, <1>8, <1>10, <1>11, <1>12

---------------------------------------------------------------------------
(* The values of the variables, for all projects: an item has at most one   *)
(* entry, what refers to entries refers to entries there are, and the line  *)
(* consists of entries.                                                     *)
THEOREM TypeCorrect == Spec => []TypeOK
<1>1. ASSUME IInv PROVE TypeOK
  <2> USE <1>1 DEF IInv
  <2>1. TypeInv /\ Index = 1..Len(EntryList) /\ Dependency = [Item : Items, DependerIndex : Index]
    BY DEF Index, Dependency
  <2>2. \A a, b \in Index : EntryList[a].Item = EntryList[b].Item => a = b
    BY <2>1, EntryFacts DEF TypeInv
  <2>3. BFSQueue \in Seq(Index)
    <3>1. phase \in {"Target", "AddLinkEntries", "BFS"} => BFSQueue \in Seq(Index)
      BY DEF CollectInv, QueueInv
    <3>2. phase \notin {"Target", "AddLinkEntries", "BFS"} => BFSQueue = <<>>
      OBVIOUS
    <3>3. <<>> \in Seq(Index)
      OBVIOUS
    <3> HIDE DEF IInv
    <3> QED BY <3>1, <3>2, <3>3
  <2>4. Len(Components) \in Nat
    <3>1. ccg!Unconstructed => Components = <<>>
      BY DEF ccg!Unconstructed
    <3>2. CGP!Unconstructed => Components = <<>>
      BY DEF CGP!Unconstructed
    <3>3. CGP!WalkingInv /\ CGP!GraphInv => Len(Components) \in Nat
      BY CGP!ComponentFacts
    <3>4. CGP!Inv => CGP!Unconstructed \/ (CGP!WalkingInv /\ CGP!GraphInv)
      BY DEF CGP!Inv
    <3>5. Components = <<>> => Len(Components) \in Nat
      OBVIOUS
    <3> QED BY <2>1, <3>1, <3>2, <3>3, <3>4, <3>5 DEF TypeInv
  <2>5. /\ FinalLinkEntries \in Seq(Index)
        /\ \A a \in 1..Len(visits) : visits[a].component \in ComponentVisited
        /\ ComponentVisited \subseteq 1..Len(Components)
        /\ next \in 1..(Len(Components) + 1)
    <3>1. CASE NotOrdered
      BY <2>4, <3>1 DEF NotOrdered
    <3>2. CASE LineInv
      <4>1. next \in 1..(Len(Components) + 1) /\ ComponentVisited = 1..(next - 1)
        BY <3>2 DEF LineInv
      <4>2. ComponentVisited \subseteq 1..Len(Components)
        BY <2>4, <4>1
      <4>3. \A a \in 1..Len(visits) : visits[a].component \in ComponentVisited
        <5>1. CASE visits = <<>>
          BY <5>1
        <5>2. ASSUME NEW S, next > 1, visits = <<[component |-> next - 1, edges |-> S]>>
              PROVE  \A a \in 1..Len(visits) : visits[a].component \in ComponentVisited
          <6>1. Len(visits) = 1 /\ visits[1].component = next - 1
            BY <5>2
          <6>2. next - 1 \in ComponentVisited
            BY <4>1, <5>2
          <6> QED BY <6>1, <6>2
        <5> QED BY <3>2, <5>1, <5>2 DEF LineInv
      <4> QED BY <3>2, <4>1, <4>2, <4>3 DEF LineInv
    <3>3. NotOrdered \/ LineInv
      OBVIOUS
    <3> HIDE DEF IInv
    <3> QED BY <3>1, <3>2, <3>3
  <2> QED BY <2>1, <2>2, <2>3, <2>5 DEF TypeOK, TypeInv
<1> QED BY <1>1, Invariance, PTL

(* The graph that is ordered has the constraints that the lists of the      *)
(* items, the dependent shared libraries and the intersection of the follow *)
(* sets of unknown items give, and no other, for all projects.              *)
THEOREM ConstraintsCorrect == Spec => []ConstraintsExact
<1>1. ASSUME IInv PROVE ConstraintsExact
  <2> SUFFICES ASSUME phase = "Components"
               PROVE  Precedes = {<<EntryList[p[1]].Item, EntryList[p[2]].Item>> :
                  p \in {q \in (1..Len(EntryList)) \X (1..Len(EntryList)) :
                           q[1] \in EntryConstraintGraph[q[2]]}}
    BY DEF ConstraintsExact
  <2>1. TypeInv /\ GraphExact
    BY <1>1 DEF IInv
  <2>2. \A k \in Index : ItemOf[k] = EntryList[k].Item
    BY <2>1, EntryFacts
  <2>3. \A c \in Precedes : \E j, k \in Index : c = <<ItemOf[j], ItemOf[k]>>
    BY <2>1, ConstrainedEntries
  <2>4. \A c \in Precedes : \E j, k \in Index :
          j \in EntryConstraintGraph[k] /\ c = <<EntryList[j].Item, EntryList[k].Item>>
    BY <2>1, <2>2, <2>3 DEF GraphExact
  <2>5. \A j, k \in Index : j \in EntryConstraintGraph[k] =>
          <<EntryList[j].Item, EntryList[k].Item>> \in Precedes
    BY <2>1, <2>2 DEF GraphExact
  <2> DEFINE Related == {q \in Index \X Index : q[1] \in EntryConstraintGraph[q[2]]}
             Pair(p) == <<EntryList[p[1]].Item, EntryList[p[2]].Item>>
  <2>6. \A c \in Precedes : \E p \in Related : c = Pair(p)
    <3> SUFFICES ASSUME NEW c \in Precedes PROVE \E p \in Related : c = Pair(p)
      OBVIOUS
    <3>1. PICK j \in Index, k \in Index :
            j \in EntryConstraintGraph[k] /\ c = <<EntryList[j].Item, EntryList[k].Item>>
      BY <2>4
    <3>2. <<j, k>> \in Related /\ Pair(<<j, k>>) = <<EntryList[j].Item, EntryList[k].Item>>
      BY <3>1
    <3> HIDE DEF Related, Pair
    <3> QED BY <3>1, <3>2
  <2>7. \A p \in Related : Pair(p) \in Precedes
    <3> SUFFICES ASSUME NEW p \in Related PROVE Pair(p) \in Precedes
      OBVIOUS
    <3>1. p[1] \in Index /\ p[2] \in Index /\ p[1] \in EntryConstraintGraph[p[2]]
      OBVIOUS
    <3> QED BY <2>5, <3>1
  <2>8. Precedes = {Pair(p) : p \in Related}
    <3> HIDE DEF Related, Pair
    <3> QED BY <2>6, <2>7
  <2> QED BY <2>8 DEF Index
<1> QED BY <1>1, Invariance, PTL

(* The line has exactly what is linked, directly or through other items,    *)
(* and what shared libraries need, which alone is marked, for all projects. *)
THEOREM LineCorrect == Spec => []LineIsComplete
<1>1. ASSUME IInv PROVE LineIsComplete
  <2> SUFFICES ASSUME phase = "done"
               PROVE  /\ {EntryList[k].Item : k \in Range(FinalLinkEntries)} = Linked \cup Shared
                      /\ \A k \in 1..Len(EntryList) :
                           EntryList[k].IsSharedDep <=> EntryList[k].Item \notin Linked
    BY DEF LineIsComplete
  <2>1. TypeInv /\ GraphExact
    BY <1>1 DEF IInv
  <2>2. \A k \in Index : ItemOf[k] = EntryList[k].Item
    BY <2>1, EntryFacts
  <2>3. \A k : k \in Range(FinalLinkEntries) <=> k \in Index
    BY <1>1, LineAtEnd
  <2>4. {EntryList[k].Item : k \in Range(FinalLinkEntries)} = EntryItems
    BY <2>2, <2>3 DEF EntryItems
  <2> QED BY <2>1, <2>2, <2>4 DEF GraphExact, Index
<1> QED BY <1>1, Invariance, PTL

---------------------------------------------------------------------------
(* What an item leads to along the constraints are the entries from which   *)
(* the graph, whose edges go the other way, leads to its own.               *)
LEMMA LeadsToFacts ==
  ASSUME IInv, phase = "done", NEW j \in Index, NEW k \in Index
  PROVE  LeadsTo(Precedes, ItemOf[j], ItemOf[k]) <=> j \in CGP!Reach[k]
<1> DEFINE P == Precedes
           R == CGP!Reach
<1>1. TypeInv /\ GraphExact /\ CGP!Inv /\ pc = "done"
  BY DEF IInv
<1>2. /\ CGP!GraphInv /\ CGP!Node = Index
      /\ \A m \in Index : CGP!Succ[m] = EntryConstraintGraph[m] /\ EntryConstraintGraph[m] \subseteq Index
  BY <1>1, ComponentsComputed DEF TypeInv
<1>3. /\ \A m \in Index : ItemOf[m] \in Items
      /\ \A m, l \in Index : ItemOf[m] = ItemOf[l] => m = l
      /\ \A m, l \in Index : m \in EntryConstraintGraph[l] <=> <<ItemOf[m], ItemOf[l]>> \in P
  BY <1>1, EntryFacts DEF TypeInv, GraphExact
<1>4. \A c \in P : \E m, l \in Index : c = <<ItemOf[m], ItemOf[l]>>
  BY <1>1, ConstrainedEntries
<1>5. /\ k \in R[k] /\ R[k] \subseteq Index
      /\ \A m \in R[k] : EntryConstraintGraph[m] \subseteq R[k]
      /\ \A S \in SUBSET Index : CGP!Leads(k, S) => R[k] \subseteq S
  <2>1. \A m \in R[k] : CGP!Succ[m] \subseteq R[k]
    BY <1>2, CGP!ReachFacts
  <2> QED BY <1>2, <2>1, CGP!ReachFacts
<1> HIDE DEF P, R
<1>6. ASSUME j \in R[k], NEW S \in SUBSET Items, ItemOf[j] \in S, ItemOf[k] \notin S,
             \A c \in P : c[1] \in S => c[2] \in S
      PROVE  FALSE
  <2> DEFINE T == {m \in Index : ItemOf[m] \notin S}
  <2>1. \A m \in T : EntryConstraintGraph[m] \subseteq T
    <3> SUFFICES ASSUME NEW m \in T, NEW l \in EntryConstraintGraph[m], ItemOf[l] \in S PROVE FALSE
      BY <1>2
    <3>1. l \in Index /\ m \in Index /\ ItemOf[m] \notin S
      BY <1>2
    <3>2. <<ItemOf[l], ItemOf[m]>> \in P
      BY <1>3, <3>1
    <3>3. <<ItemOf[l], ItemOf[m]>>[1] = ItemOf[l] /\ <<ItemOf[l], ItemOf[m]>>[2] = ItemOf[m]
      OBVIOUS
    <3> QED BY <1>6, <3>1, <3>2, <3>3
  <2>2. T \in SUBSET Index /\ k \in T /\ \A m \in T : CGP!Succ[m] \subseteq T
    BY <1>2, <1>6, <2>1
  <2> HIDE DEF T
  <2>3. CGP!Leads(k, T)
    BY <2>2 DEF CGP!Leads
  <2>4. j \in T
    BY <1>5, <1>6, <2>2, <2>3
  <2> QED BY <1>6, <2>4 DEF T
<1>7. j \in R[k] => LeadsTo(P, ItemOf[j], ItemOf[k])
  BY <1>6 DEF LeadsTo
<1>8. ASSUME j \notin R[k], LeadsTo(P, ItemOf[j], ItemOf[k]) PROVE FALSE
  <2> DEFINE S == Items \ {ItemOf[m] : m \in R[k]}
  <2>1. \A m \in Index : ItemOf[m] \in S <=> m \notin R[k]
    BY <1>3, <1>5
  <2> HIDE DEF S
  <2>2. \A c \in P : c[1] \in S => c[2] \in S
    <3> SUFFICES ASSUME NEW c \in P, c[1] \in S PROVE c[2] \in S
      OBVIOUS
    <3>1. PICK m \in Index, l \in Index : c = <<ItemOf[m], ItemOf[l]>>
      BY <1>4
    <3>2. c[1] = ItemOf[m] /\ c[2] = ItemOf[l] /\ m \in EntryConstraintGraph[l]
      BY <1>3, <3>1
    <3>3. m \notin R[k]
      BY <2>1, <3>2
    <3>4. l \notin R[k]
      BY <1>5, <3>2, <3>3
    <3> QED BY <2>1, <3>2, <3>4
  <2>3. S \in SUBSET Items
    BY DEF S
  <2>4. ItemOf[j] \in S /\ ItemOf[k] \notin S
    BY <1>5, <1>8, <2>1
  <2> QED BY <1>8, <2>2, <2>3, <2>4 DEF LeadsTo
<1>9. j \in R[k] <=> LeadsTo(P, ItemOf[j], ItemOf[k])
  BY <1>7, <1>8
<1> QED BY <1>9 DEF P, R

LEMMA CyclicFacts ==
  ASSUME IInv, phase = "done"
  PROVE  /\ \A j, k \in Index : <<ItemOf[j], ItemOf[k]>> \in Cyclic(Precedes) <=>
                                  j # k /\ TarjanComponents[j] = TarjanComponents[k]
         /\ \A x \in EntryItems, y \in Items : <<x, y>> \in Cyclic(Precedes) => y \in EntryItems
         /\ \A k \in Index : Components[TarjanComponents[k]] = {k} <=>
              \A j \in Index : TarjanComponents[j] = TarjanComponents[k] => j = k
<1> DEFINE P == Precedes
           Q == Cyclic(Precedes)
<1>1. TypeInv /\ GraphExact /\ CGP!Inv /\ pc = "done"
  BY DEF IInv
<1>2. /\ CGP!GraphInv /\ CGP!Node = Index
      /\ \A k \in Index : /\ Components[TarjanComponents[k]] = CGP!Mutual[k]
                          /\ TarjanComponents[k] \in 1..Len(Components)
                          /\ \A c \in 1..Len(Components) : k \in Components[c] <=> TarjanComponents[k] = c
      /\ \A c \in 1..Len(Components) : Components[c] \subseteq Index
  BY <1>1, ComponentsComputed
<1>3. /\ \A m \in Index : ItemOf[m] \in Items /\ ItemOf[m] \in EntryItems
      /\ \A m, l \in Index : ItemOf[m] = ItemOf[l] => m = l
      /\ EntryItems \subseteq Items
  BY <1>1, EntryFacts DEF TypeInv
<1>4. \A c : c \in Q <=> /\ c \in Items \X Items /\ c[1] # c[2]
                         /\ LeadsTo(P, c[1], c[2]) /\ LeadsTo(P, c[2], c[1])
  BY DEF Cyclic
<1> HIDE DEF Q
<1>5. \A x, y \in Items : <<x, y>> \in Q <=> x # y /\ LeadsTo(P, x, y) /\ LeadsTo(P, y, x)
  BY <1>4
<1>6. ASSUME NEW j \in Index, NEW k \in Index
      PROVE  <<ItemOf[j], ItemOf[k]>> \in Q <=> j # k /\ TarjanComponents[j] = TarjanComponents[k]
  <2>1. <<ItemOf[j], ItemOf[k]>> \in Q <=> j # k /\ j \in CGP!Reach[k] /\ k \in CGP!Reach[j]
    BY <1>3, <1>5, LeadsToFacts
  <2>2. j \in CGP!Reach[k] /\ k \in CGP!Reach[j] <=> j \in CGP!Mutual[k]
    BY <1>2 DEF CGP!Mutual
  <2>3. j \in CGP!Mutual[k] <=> TarjanComponents[j] = TarjanComponents[k]
    BY <1>2
  <2> QED BY <2>1, <2>2, <2>3
<1>7. ASSUME NEW x \in EntryItems, NEW y \in Items, <<x, y>> \in Q PROVE y \in EntryItems
  <2>1. LeadsTo(P, x, y) /\ EntryItems \in SUBSET Items
    BY <1>3, <1>5, <1>7
  <2>2. \A c \in P : c[2] \in EntryItems
    <3> SUFFICES ASSUME NEW c \in P PROVE c[2] \in EntryItems
      OBVIOUS
    <3>1. PICK m \in Index, l \in Index : c = <<ItemOf[m], ItemOf[l]>>
      BY <1>1, ConstrainedEntries
    <3> QED BY <1>3, <3>1
  <2> HIDE DEF P
  <2> QED BY <2>1, <2>2 DEF LeadsTo
<1>8. ASSUME NEW k \in Index
      PROVE  Components[TarjanComponents[k]] = {k} <=>
               \A j \in Index : TarjanComponents[j] = TarjanComponents[k] => j = k
  <2>1. /\ \A j \in Index : j \in Components[TarjanComponents[k]] <=> TarjanComponents[j] = TarjanComponents[k]
        /\ Components[TarjanComponents[k]] \subseteq Index
    BY <1>2
  <2> QED BY <2>1
<1> QED BY <1>6, <1>7, <1>8 DEF Q

(* The finished line satisfies every constraint, for all projects: an item  *)
(* that has to precede another does so wherever the two are listed, unless  *)
(* the other has to precede it as well.  Then both are listed twice, so     *)
(* that each is found before and after the other; all else is listed once.  *)
THEOREM LineIsSafe == Spec => []SafeLine
<1>1. ASSUME IInv PROVE SafeLine
  <2> SUFFICES ASSUME phase = "done"
               PROVE  /\ \A c \in Precedes :
                           IF c \in Cyclic(Precedes)
                           THEN \E p \in Positions(c[1]), q \in Positions(c[2]) : p < q
                           ELSE \A p \in Positions(c[1]), q \in Positions(c[2]) : p < q \/ c[1] = c[2]
                      /\ \A x \in Linked \cup Shared :
                           Cardinality(Positions(x)) =
                             IF \E y \in Items : <<x, y>> \in Cyclic(Precedes) THEN 2 ELSE 1
    BY DEF SafeLine
  <2>1. TypeInv /\ GraphExact /\ CGP!Inv /\ pc = "done"
    BY <1>1 DEF IInv
  <2>2. /\ \A k \in Index : PlacesOf[k] = {p \in Places : FinalLinkEntries[p] = k}
        /\ \A p \in Places : FinalLinkEntries[p] \in Index
        /\ \A j \in Index : \A k \in Index : TarjanComponents[j] < TarjanComponents[k] =>
             \A p \in PlacesOf[j], q \in PlacesOf[k] : p < q
        /\ \A k \in Index :
             IF Components[TarjanComponents[k]] = {k}
             THEN \E p \in Places : PlacesOf[k] = {p}
             ELSE \E p, q \in Places : p # q /\ PlacesOf[k] = {p, q}
        /\ \A j, k \in Index : TarjanComponents[j] = TarjanComponents[k] /\ j # k =>
             \E p \in PlacesOf[j], q \in PlacesOf[k] : p < q
    BY <1>1, LineAtEnd
  <2>3. /\ \A m \in Index : ItemOf[m] = EntryList[m].Item /\ ItemOf[m] \in Items /\ ItemOf[m] \in EntryItems
        /\ \A m, l \in Index : ItemOf[m] = ItemOf[l] => m = l
    BY <2>1, EntryFacts DEF TypeInv
  <2>4. \A k \in Index : Positions(ItemOf[k]) = PlacesOf[k]
    <3> SUFFICES ASSUME NEW k \in Index PROVE Positions(ItemOf[k]) = PlacesOf[k]
      OBVIOUS
    <3>1. \A p \in Places : EntryList[FinalLinkEntries[p]].Item = ItemOf[k] <=> FinalLinkEntries[p] = k
      BY <2>2, <2>3
    <3> QED BY <2>2, <3>1 DEF Positions, Places
  <2>5. /\ \A j, k \in Index : <<ItemOf[j], ItemOf[k]>> \in Cyclic(Precedes) <=>
                                 j # k /\ TarjanComponents[j] = TarjanComponents[k]
        /\ \A x \in EntryItems, y \in Items : <<x, y>> \in Cyclic(Precedes) => y \in EntryItems
        /\ \A k \in Index : Components[TarjanComponents[k]] = {k} <=>
             \A j \in Index : TarjanComponents[j] = TarjanComponents[k] => j = k
    BY <1>1, CyclicFacts
  <2>6. \A k \in Index : \A j \in EntryConstraintGraph[k] :
          TarjanComponents[j] \in 1..TarjanComponents[k] /\ TarjanComponents[k] \in Nat
    BY <2>1, ComponentsComputed
  <2> DEFINE P == Precedes
             Q == Cyclic(Precedes)
  <2> HIDE DEF P, Q
  <2>7. ASSUME NEW c \in P
        PROVE  IF c \in Q
               THEN \E p \in Positions(c[1]), q \in Positions(c[2]) : p < q
               ELSE \A p \in Positions(c[1]), q \in Positions(c[2]) : p < q \/ c[1] = c[2]
    <3>1. PICK j \in Index, k \in Index : c = <<ItemOf[j], ItemOf[k]>>
      BY <2>1, ConstrainedEntries DEF P
    <3>2. /\ c[1] = ItemOf[j] /\ c[2] = ItemOf[k] /\ j \in EntryConstraintGraph[k]
          /\ Positions(c[1]) = PlacesOf[j] /\ Positions(c[2]) = PlacesOf[k]
      BY <2>1, <2>4, <3>1 DEF P, GraphExact
    <3>3. c \in Q <=> j # k /\ TarjanComponents[j] = TarjanComponents[k]
      BY <2>5, <3>1 DEF Q
    <3>4. j # k /\ TarjanComponents[j] # TarjanComponents[k] => TarjanComponents[j] < TarjanComponents[k]
      BY <2>6, <3>2
    <3> QED BY <2>2, <3>2, <3>3, <3>4
  <2>8. ASSUME NEW x \in EntryItems
        PROVE  Cardinality(Positions(x)) = IF \E y \in Items : <<x, y>> \in Q THEN 2 ELSE 1
    <3>1. PICK k \in Index : x = ItemOf[k]
      BY DEF EntryItems
    <3>2. Positions(x) = PlacesOf[k]
      BY <2>4, <3>1
    <3>3. (\E y \in Items : <<x, y>> \in Q) <=> Components[TarjanComponents[k]] # {k}
      <4>1. ASSUME NEW y \in Items, <<x, y>> \in Q PROVE Components[TarjanComponents[k]] # {k}
        <5>1. PICK j \in Index : y = ItemOf[j]
          BY <2>5, <4>1 DEF EntryItems, Q
        <5>2. k # j /\ TarjanComponents[k] = TarjanComponents[j]
          BY <2>5, <3>1, <4>1, <5>1 DEF Q
        <5> QED BY <2>5, <5>2
      <4>2. ASSUME Components[TarjanComponents[k]] # {k} PROVE \E y \in Items : <<x, y>> \in Q
        <5>1. PICK j \in Index : TarjanComponents[j] = TarjanComponents[k] /\ j # k
          BY <2>5, <4>2
        <5>2. <<x, ItemOf[j]>> \in Q /\ ItemOf[j] \in Items
          BY <2>3, <2>5, <3>1, <5>1 DEF Q
        <5> QED BY <5>2
      <4> QED BY <4>1, <4>2
    <3>4. CASE Components[TarjanComponents[k]] = {k}
      <4>1. PICK p : PlacesOf[k] = {p}
        BY <2>2, <3>4
      <4>2. Cardinality({p}) = 1
        BY FS_Singleton
      <4> QED BY <3>2, <3>3, <3>4, <4>1, <4>2
    <3>5. CASE Components[TarjanComponents[k]] # {k}
      <4>1. PICK p, q : p # q /\ PlacesOf[k] = {p, q}
        BY <2>2, <3>5
      <4>2. IsFiniteSet({p}) /\ Cardinality({p}) = 1
        BY FS_Singleton
      <4>3. Cardinality({p} \cup {q}) = 2
        BY <4>1, <4>2, FS_AddElement
      <4>4. {p} \cup {q} = {p, q}
        OBVIOUS
      <4> QED BY <3>2, <3>3, <3>5, <4>1, <4>3, <4>4
    <3> QED BY <3>4, <3>5
  <2>9. EntryItems = Linked \cup Shared
    BY <2>1 DEF GraphExact
  <2> QED BY <2>7, <2>8, <2>9 DEF P, Q
<1> QED BY <1>1, Invariance, PTL

---------------------------------------------------------------------------
(* If every entry comes after those that must precede it, each is a         *)
(* component, and the components are in the order of the entries.           *)
InOrder == \A k \in Index : EntryConstraintGraph[k] \subseteq 1..k

OrderKept ==
  /\ phase \in {"Components", "Order", "done"} => CGP!OrderInv
  /\ phase \in {"Order", "done"} /\ InOrder => FinalLinkEntries = [k \in 1..Listing |-> k]

LEMMA EntriesInOrder ==
  ASSUME TypeInv, CGP!Inv, CGP!OrderInv, pc = "done", InOrder
  PROVE  Len(Components) = Len(EntryList) /\ \A k \in Index : Components[k] = {k}
<1>1. /\ CGP!GraphInv /\ CGP!Node = Index /\ \A n \in Index : CGP!Succ[n] = EntryConstraintGraph[n]
  BY ComponentsComputed
<1>2. CGP!Backward
  BY <1>1 DEF InOrder, CGP!Backward
<1>3. Len(CleanConstraintGraph) = Len(EntryList)
  BY CleanGraph
<1> QED BY <1>1, <1>2, <1>3, CGP!ComponentsInOrder

LEMMA EmittedInOrder ==
  ASSUME TypeInv, CGP!Inv, CGP!OrderInv, pc = "done", LineInv, InOrder,
         FinalLinkEntries = [k \in 1..Listing |-> k], EmitComponent
  PROVE  FinalLinkEntries' = [k \in 1..Listing' |-> k]
<1> DEFINE c == next - 1
           e == Emitted({next - 1})
           f == FinalLinkEntries
           g == FinalLinkEntries'
<1>1. /\ visits # <<>> /\ g = f \o Emitted(Components[Head(visits).component])
      /\ visits' = Tail(visits) /\ next' = next
  BY DEF EmitComponent
<1>2. /\ next > 1 /\ next \in 1..(Len(Components) + 1)
      /\ \E S \in SUBSET (1..(next - 2)) : visits = <<[component |-> next - 1, edges |-> S]>>
  BY <1>1 DEF LineInv
<1>3. Head(visits).component = c /\ visits' = <<>>
  <2>1. PICK S \in SUBSET (1..(next - 2)) : visits = <<[component |-> next - 1, edges |-> S]>>
    BY <1>2
  <2> QED BY <1>1, <2>1
<1>4. Len(EntryList) \in Nat /\ Len(Components) = Len(EntryList) /\ \A k \in Index : Components[k] = {k}
  BY EntryFacts, EntriesInOrder
<1>5. c \in Index /\ c \in Nat
  BY <1>2, <1>4 DEF Index
<1>6. Listing = c - 1 /\ Listing' = c
  <2>1. next \in Nat
    BY <1>2, <1>4
  <2>2. Listing = c - 1
    BY <1>1, <2>1 DEF Listing
  <2>3. Listing' = c
    BY <1>1, <1>3, <2>1 DEF Listing
  <2> QED BY <2>2, <2>3
<1>7. g = f \o e
  BY <1>1, <1>3, <1>4, <1>5
<1>8. e = Emitted({c})
  OBVIOUS
<1> HIDE DEF c, e
<1>9. /\ e \in Seq(Nat) /\ Len(e) = 1 /\ e[1] = c
  <2> DEFINE S == {c}
  <2>1. S \in SUBSET Nat /\ IsFiniteSet(S) /\ Cardinality(S) = 1
    BY <1>5, FS_Singleton
  <2>2. e = Ascending(S)
    BY <1>8, <2>1 DEF Emitted
  <2>3. \A x \in S : x = c
    OBVIOUS
  <2> HIDE DEF S
  <2>4. e \in Seq(S) /\ Len(e) = Cardinality(S)
    BY <2>1, <2>2, AscendingFacts
  <2>5. Len(e) = 1 /\ e[1] \in S
    BY <2>1, <2>4, ElementOfSeq
  <2>6. e \in Seq(Nat)
    <3>1. Len(e) \in Nat /\ e = [a \in 1..Len(e) |-> e[a]] /\ \A a \in 1..Len(e) : e[a] \in S
      BY <2>4, LenProperties, ElementOfSeq
    <3>2. \A a \in 1..Len(e) : e[a] \in Nat
      BY <2>1, <3>1
    <3> QED BY <3>1, <3>2
  <2> QED BY <2>3, <2>5, <2>6
<1>10. f = [k \in 1..(c - 1) |-> k] /\ f \in Seq(Nat) /\ Len(f) = c - 1
  <2>1. f = [k \in 1..(c - 1) |-> k]
    BY <1>6
  <2>2. c - 1 \in Nat
    BY <1>5 DEF Index
  <2> HIDE DEF f
  <2> QED BY <2>1, <2>2
<1> HIDE DEF f, g
<1>11. /\ g \in Seq(Nat) /\ Len(g) = c
       /\ \A k \in 1..c : g[k] = IF k <= c - 1 THEN f[k] ELSE e[k - (c - 1)]
  <2>1. /\ g \in Seq(Nat) /\ Len(g) = Len(f) + Len(e)
        /\ \A k \in 1..(Len(f) + Len(e)) : g[k] = IF k <= Len(f) THEN f[k] ELSE e[k - Len(f)]
    BY <1>7, <1>9, <1>10, ConcatProperties
  <2>2. Len(f) + Len(e) = c
    <3>1. Len(f) = c - 1 /\ Len(e) = 1 /\ c \in Nat
      BY <1>5, <1>9, <1>10
    <3> QED BY ONLY <3>1
  <2> QED BY <1>10, <2>1, <2>2
<1>12. \A k \in 1..c : g[k] = k
  <2> SUFFICES ASSUME NEW k \in 1..c PROVE g[k] = k
    OBVIOUS
  <2>1. CASE k <= c - 1
    <3>1. g[k] = f[k] /\ k \in 1..(c - 1)
      BY <1>5, <1>11, <2>1
    <3> QED BY <1>10, <3>1
  <2>2. CASE ~(k <= c - 1)
    <3>1. k = c /\ k - (c - 1) = 1
      BY <1>5, <2>2
    <3> QED BY <1>9, <1>11, <2>2, <3>1
  <2> QED BY <2>1, <2>2
<1>13. g = [k \in 1..c |-> k]
  BY <1>11, <1>12
<1> QED BY <1>6, <1>13 DEF g

LEMMA NextOrderKept ==
  ASSUME IInv, OrderKept, [Next]_vars
  PROVE  OrderKept'
<1> USE DEF IInv
<1>1. CASE phase \in {"Target", "AddLinkEntries", "BFS", "Shared"}
  <2>1. phase' \notin {"Order", "done"} /\ (phase' = "Components" => InferDependencies)
    BY <1>1 DEF Next, vars, FollowTarget, FollowLinkEntry, EndOfBFS, SkipTarget, AddLinkEntry,
       StoreDependSets, HandleSharedDependency, InferDependencies, IdentifyComponents,
       ComponentsIdentified, OrderLinkEntires, VisitNeighbor, EmitComponent, LineComplete
  <2>2. phase' = "Components" => ~CGP!Constructed'
    <3>1. InferDependencies => pc' = pc
      BY DEF InferDependencies, ccgVars
    <3>2. pc = "new"
      BY <1>1 DEF ccg!Unconstructed
    <3> QED BY <2>1, <3>1, <3>2 DEF CGP!Constructed
  <2> QED BY <2>1, <2>2 DEF OrderKept, CGP!OrderInv
<1>2. CASE phase \in {"Components", "Order", "done"}
  <2>1. TypeInv /\ CGP!Inv /\ CGP!OrderInv
    BY <1>2 DEF OrderKept
  <2>2. /\ UNCHANGED <<EntryList, EntryConstraintGraph>>
        /\ UNCHANGED ccgVars \/ ccg!Next
    BY <1>2 DEF Next, vars, entries, FollowTarget, FollowLinkEntry, EndOfBFS, SkipTarget, AddLinkEntry,
       StoreDependSets, HandleSharedDependency, InferDependencies, IdentifyComponents,
       ComponentsIdentified, OrderLinkEntires, VisitNeighbor, EmitComponent, LineComplete
  <2>3. CGP!OrderInv'
    <3>1. CleanConstraintGraph' = CleanConstraintGraph
      BY <2>2 DEF CleanConstraintGraph, Ascending
    <3>2. UNCHANGED ccgVars => UNCHANGED CGP!vars
      BY <3>1 DEF CGP!vars, CGP!walk, CGP!found, ccgVars
    <3>3. CGP!Next \/ UNCHANGED CGP!vars
      BY <2>2, <3>2, SameComponentGraph
    <3> QED BY <2>1, <3>3, CGP!NextOrder
  <2>4. InOrder' = InOrder
    BY <2>2 DEF InOrder, Index
  <2>5. CASE phase = "Components"
    <3>1. phase' = "Order" => FinalLinkEntries' = <<>> /\ Listing' = 0
      <4>1. NotOrdered
        BY <2>5
      <4>2. phase' = "Order" => UNCHANGED order
        BY <2>5 DEF Next, vars, FollowTarget, FollowLinkEntry, EndOfBFS, SkipTarget, AddLinkEntry,
           StoreDependSets, HandleSharedDependency, InferDependencies, IdentifyComponents,
           ComponentsIdentified, OrderLinkEntires, VisitNeighbor, EmitComponent, LineComplete
      <4> QED BY <4>1, <4>2 DEF NotOrdered, order, Listing
    <3>2. phase' # "done"
      BY <2>5 DEF Next, vars, FollowTarget, FollowLinkEntry, EndOfBFS, SkipTarget, AddLinkEntry,
         StoreDependSets, HandleSharedDependency, InferDependencies, IdentifyComponents,
         ComponentsIdentified, OrderLinkEntires, VisitNeighbor, EmitComponent, LineComplete
    <3>3. [k \in 1..0 |-> k] = <<>>
      OBVIOUS
    <3> QED BY <2>3, <3>1, <3>2, <3>3 DEF OrderKept
  <2>6. CASE phase \in {"Order", "done"}
    <3>1. pc = "done" /\ LineInv
      BY <2>6
    <3> SUFFICES ASSUME InOrder PROVE FinalLinkEntries' = [k \in 1..Listing' |-> k]
      BY <2>3, <2>4 DEF OrderKept
    <3>2. FinalLinkEntries = [k \in 1..Listing |-> k]
      BY <2>6 DEF OrderKept
    <3>3. CASE EmitComponent
      BY <2>1, <3>1, <3>2, <3>3, EmittedInOrder
    <3>4. CASE ~EmitComponent
      <4>1. FinalLinkEntries' = FinalLinkEntries
        BY <2>6, <3>4 DEF Next, vars, order, FollowTarget, FollowLinkEntry, EndOfBFS, SkipTarget,
           AddLinkEntry, StoreDependSets, HandleSharedDependency, InferDependencies, IdentifyComponents,
           ComponentsIdentified, OrderLinkEntires, VisitNeighbor, LineComplete
      <4>2. Listing' = Listing
        <5>1. OrderLinkEntires \/ VisitNeighbor => Listing' = Listing
          BY <2>1, <3>1, NextComponent, NextNeighbor
        <5>2. CASE ~OrderLinkEntires /\ ~VisitNeighbor
          <6>1. UNCHANGED order
            BY <2>6, <3>4, <5>2 DEF Next, vars, FollowTarget, FollowLinkEntry, EndOfBFS, SkipTarget,
               AddLinkEntry, StoreDependSets, HandleSharedDependency, InferDependencies,
               IdentifyComponents, ComponentsIdentified, LineComplete
          <6> QED BY <6>1 DEF order, Listing
        <5> QED BY <5>1, <5>2
      <4> QED BY <3>2, <4>1, <4>2
    <3> QED BY <3>3, <3>4
  <2> QED BY <1>2, <2>5, <2>6
<1> QED BY <1>1, <1>2 DEF TypeInv

(* "This should preserve the original order when no constraints disallow    *)
(* it" (cmComputeLinkDepends.cxx:709), for all projects.                    *)
THEOREM SafeOrderKept == Spec => []KeepsSafeOrder
<1>1. Init => OrderKept
  BY DEF Init, OrderKept
<1>2. IInv /\ OrderKept /\ [Next]_vars => OrderKept'
  BY NextOrderKept
<1>3. ASSUME IInv, OrderKept PROVE KeepsSafeOrder
  <2> SUFFICES ASSUME phase = "done", \A k \in 1..Len(EntryList) : EntryConstraintGraph[k] \subseteq 1..k
               PROVE  FinalLinkEntries = [k \in 1..Len(EntryList) |-> k]
    BY DEF KeepsSafeOrder
  <2>1. /\ TypeInv /\ CGP!Inv /\ CGP!OrderInv /\ pc = "done" /\ InOrder
        /\ visits = <<>> /\ next = Len(Components) + 1
    BY <1>3 DEF IInv, OrderKept, InOrder, Index
  <2>2. Len(Components) = Len(EntryList) /\ Len(EntryList) \in Nat
    BY <2>1, EntriesInOrder, EntryFacts
  <2>3. Listing = Len(EntryList)
    BY <2>1, <2>2 DEF Listing
  <2> QED BY <1>3, <2>1, <2>3 DEF OrderKept
<1> QED BY <1>1, <1>2, <1>3, Invariance, PTL DEF Spec
=============================================================================
