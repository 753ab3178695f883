----------------------- MODULE OrderDirectoriesProofs -----------------------
(* Proofs about OrderDirectories, for any directories, lists and libraries. *)
EXTENDS OrderDirectories, SequenceTheorems, TLAPS

(* What the sequence operators of the actions return.                       *)
LEMMA Pushed ==
  ASSUME NEW S, NEW s \in Seq(S), NEW e \in S, NEW t, t = Append(s, e)
  PROVE  /\ t \in Seq(S) /\ Len(s) \in Nat /\ Len(t) = Len(s) + 1
         /\ t[Len(t)] = e /\ \A a \in 1..Len(s) : t[a] = s[a] /\ a # Len(t)
  BY AppendProperties, LenProperties

LEMMA Popped ==
  ASSUME NEW S, NEW s \in Seq(S), s # <<>>, NEW t, t = SubSeq(s, 1, Len(s) - 1)
  PROVE  /\ t \in Seq(S) /\ Len(s) \in Nat \ {0} /\ Len(t) = Len(s) - 1
         /\ \A a \in 1..Len(t) : t[a] = s[a]
<1>1. Len(s) \in Nat \ {0}
  BY EmptySeq
<1>2. \A a \in 1..(Len(s) - 1) : s[a] \in S
  BY <1>1, ElementOfSeq
<1> DEFINE n == Len(s) - 1
<1>3. n \in Nat /\ n = Len(s) - 1 /\ t = SubSeq(s, 1, n) /\ \A a \in 1..n : s[a] \in S
  BY <1>1, <1>2
<1> HIDE DEF n
<1>4. /\ SubSeq(s, 1, n) \in Seq(S)
      /\ Len(SubSeq(s, 1, n)) = IF 1 <= n THEN n - 1 + 1 ELSE 0
      /\ \A a \in 1..(n - 1 + 1) : SubSeq(s, 1, n)[a] = s[1 + a - 1]
  BY <1>3, SubSeqProperties
<1>5. t \in Seq(S) /\ Len(t) = n
  BY <1>3, <1>4
<1>6. \A a \in 1..n : 1 + a - 1 = a /\ a \in 1..(n - 1 + 1)
  BY <1>3
<1> QED BY <1>1, <1>3, <1>4, <1>5, <1>6

LEMMA InRange ==
  ASSUME NEW S, NEW s \in Seq(S)
  PROVE  /\ Range(s) \subseteq S
         /\ \A x : x \in Range(s) <=> \E a \in 1..Len(s) : s[a] = x
  BY LenProperties DEF Range

LEMMA RangePushed ==
  ASSUME NEW S, NEW s \in Seq(S), NEW e \in S
  PROVE  Range(Append(s, e)) = Range(s) \cup {e}
<1> DEFINE t == Append(s, e)
<1>1. /\ t \in Seq(S) /\ Len(s) \in Nat /\ Len(t) = Len(s) + 1
      /\ t[Len(t)] = e /\ \A a \in 1..Len(s) : t[a] = s[a]
  BY Pushed
<1>2. DOMAIN t = 1..Len(t) /\ DOMAIN s = 1..Len(s)
  BY <1>1, LenProperties
<1> HIDE DEF t
<1>3. 1..Len(t) = (1..Len(s)) \cup {Len(t)}
  BY <1>1
<1> QED BY <1>1, <1>2, <1>3 DEF Range, t

Injective(s) == \A a, b \in 1..Len(s) : s[a] = s[b] => a = b

LEMMA InjectivePushed ==
  ASSUME NEW S, NEW s \in Seq(S), NEW e \in S, Injective(s), e \notin Range(s)
  PROVE  Injective(Append(s, e))
<1> DEFINE t == Append(s, e)
<1>1. /\ t \in Seq(S) /\ Len(s) \in Nat /\ Len(t) = Len(s) + 1
      /\ t[Len(t)] = e /\ \A a \in 1..Len(s) : t[a] = s[a]
  BY Pushed
<1>2. \A a \in 1..Len(s) : s[a] # e
  BY InRange
<1> HIDE DEF t
<1>3. \A a \in 1..Len(t) : a \in 1..Len(s) \/ a = Len(t)
  BY <1>1
<1>4. Injective(t)
  BY <1>1, <1>2, <1>3 DEF Injective
<1> QED BY <1>4 DEF t

(* Where a directory stands.                                                *)
LEMMA PositionIs ==
  ASSUME NEW S, NEW s \in Seq(S), Injective(s), NEW k \in 1..Len(s)
  PROVE  Position(s, s[k]) = k
  BY DEF Position, Injective

---------------------------------------------------------------------------
(* Reachable, of a graph.                                                   *)
Reach(G, n) == {m \in DOMAIN G :
                  \A S \in SUBSET DOMAIN G : n \in S /\ (\A x \in S : G[x] \subseteq S) => m \in S}

LEMMA ReachIs == \A n : Before!Reachable(n) = Reach(ConflictGraph, n)
  BY DEF Before!Reachable, Before!Closed, Before!Nodes, Reach

LEMMA ReachSteps ==
  ASSUME NEW G, NEW n \in DOMAIN G, \A x \in DOMAIN G : G[x] \subseteq DOMAIN G
  PROVE  /\ n \in Reach(G, n)
         /\ \A m \in Reach(G, n) : G[m] \subseteq Reach(G, n)
  BY DEF Reach

---------------------------------------------------------------------------
(* What has been collected.                                                 *)
OfLibraries == {e[2].directory : e \in Emmitted}
OfEntries(n) == {ConstraintEntries[j].directory : j \in 1..n}
OfUser(n) == {UserDirectories[j] : j \in 1..n} \ ImplicitDirectories

CollectInv ==
  /\ Injective(OriginalDirectories)
  /\ OfEntries(Len(ConstraintEntries)) = OfLibraries \ ImplicitDirectories
  /\ pc = "adding" => OriginalDirectories = <<>> /\ i = 1
  /\ pc = "user" => /\ Range(OriginalDirectories) = OfUser(i - 1)
                    /\ i <= Len(UserDirectories) + 1
  /\ pc = "constraints" =>
       /\ Range(OriginalDirectories) = OfUser(Len(UserDirectories)) \cup OfEntries(i - 1)
       /\ i <= Len(ConstraintEntries) + 1
  /\ Walking =>
       /\ Range(OriginalDirectories)
            = OfUser(Len(UserDirectories)) \cup OfEntries(Len(ConstraintEntries))
       /\ ConflictGraph = [k \in Index |-> ConflictsOf(k)]

LEMMA InitCollect == Init => TypeOK /\ CollectInv
<1> SUFFICES ASSUME Init PROVE TypeOK /\ CollectInv
  OBVIOUS
<1>1. \A S : <<>> \in Seq(S)
  BY EmptySeq
<1>2. Len(<<>>) = 0
  BY EmptySeq
<1>3. TypeOK
  <2>1. ListsOK
    BY <1>1, InputAssumption DEF Init, ListsOK
  <2>2. WalkOK
    BY <1>1 DEF Init, WalkOK, Walking
  <2> QED BY <2>1, <2>2 DEF TypeOK
<1>4. CollectInv
  BY <1>2 DEF Init, CollectInv, Walking, Injective, OfEntries, OfLibraries
<1> QED BY <1>3, <1>4

LEMMA AddLibraryCollect ==
  ASSUME TypeOK, CollectInv, NEW kind \in Kinds, NEW l \in Libraries, AddLibrary(kind, l)
  PROVE  TypeOK' /\ CollectInv'
<1> USE DEF AddLibrary, input, graph, walk
<1>1. pc = "adding" /\ ~Walking /\ ~Walking'
  BY DEF Walking
<1>2. CASE <<kind, l>> \in Emmitted \/ l.directory \in ImplicitDirectories
  <2>1. ConstraintEntries' = ConstraintEntries
    BY <1>2
  <2>2. OfLibraries' \ ImplicitDirectories = OfLibraries \ ImplicitDirectories
    BY <1>2 DEF OfLibraries
  <2>3. OfEntries(Len(ConstraintEntries))' = OfEntries(Len(ConstraintEntries))
    BY <2>1 DEF OfEntries
  <2>4. TypeOK'
    BY <1>1, <2>1 DEF TypeOK, ListsOK, WalkOK, Calls, Index
  <2> QED BY <1>1, <2>1, <2>2, <2>3, <2>4 DEF CollectInv
<1>3. CASE ~(<<kind, l>> \in Emmitted \/ l.directory \in ImplicitDirectories)
  <2>1. ConstraintEntries' = Append(ConstraintEntries, l) /\ ConstraintEntries \in Seq(Libraries)
    BY <1>3 DEF TypeOK, ListsOK
  <2>2. /\ ConstraintEntries' \in Seq(Libraries) /\ Len(ConstraintEntries) \in Nat
        /\ Len(ConstraintEntries') = Len(ConstraintEntries) + 1
        /\ ConstraintEntries'[Len(ConstraintEntries')] = l
        /\ \A a \in 1..Len(ConstraintEntries) : ConstraintEntries'[a] = ConstraintEntries[a]
    BY <2>1, Pushed
  <2>3. 1..Len(ConstraintEntries') = (1..Len(ConstraintEntries)) \cup {Len(ConstraintEntries')}
    BY <2>2
  <2>4. OfEntries(Len(ConstraintEntries))' = OfEntries(Len(ConstraintEntries)) \cup {l.directory}
    BY <2>2, <2>3 DEF OfEntries
  <2>5. OfLibraries' = OfLibraries \cup {l.directory}
    BY DEF OfLibraries
  <2>6. TypeOK'
    BY <1>1, <2>2 DEF TypeOK, ListsOK, WalkOK, Calls, Index
  <2> QED BY <1>1, <1>3, <2>4, <2>5, <2>6 DEF CollectInv
<1> QED BY <1>2, <1>3

LEMMA AddDirectoryCollect ==
  ASSUME OriginalDirectories \in Seq(Dirs), Injective(OriginalDirectories), NEW d \in Dirs,
         AddOriginalDirectory(d)
  PROVE  /\ OriginalDirectories' \in Seq(Dirs) /\ Injective(OriginalDirectories')
         /\ Range(OriginalDirectories') = Range(OriginalDirectories) \cup {d}
<1>1. CASE d \in Range(OriginalDirectories)
  BY <1>1 DEF AddOriginalDirectory
<1>2. CASE d \notin Range(OriginalDirectories)
  BY <1>2, AppendProperties, RangePushed, InjectivePushed DEF AddOriginalDirectory
<1> QED BY <1>1, <1>2
LEMMA OneMore ==
  ASSUME NEW n \in Nat \ {0}
  PROVE  1..((n + 1) - 1) = (1..(n - 1)) \cup {n}
  OBVIOUS

(* The steps before the walks leave these alone.                            *)
LEMMA NotWalking ==
  ASSUME WalkOK, ~Walking, ~Walking',
         UNCHANGED <<WalkId, CycleDiagnosed, OrderedDirectories, calls>>
  PROVE  WalkOK'
<1>1. \A S : <<>> \in Seq(S)
  BY EmptySeq
<1> QED BY <1>1 DEF WalkOK, Walking

Same ==
  /\ OfEntries(Len(ConstraintEntries))' = OfEntries(Len(ConstraintEntries))
  /\ OfUser(Len(UserDirectories))' = OfUser(Len(UserDirectories))
  /\ OfLibraries' = OfLibraries
  /\ \A n : OfEntries(n)' = OfEntries(n) /\ OfUser(n)' = OfUser(n)

LEMMA SameInputs ==
  ASSUME UNCHANGED input PROVE Same
  BY DEF input, Same, OfEntries, OfUser, OfLibraries

LEMMA CollectCollect ==
  ASSUME TypeOK, CollectInv, Collect
  PROVE  TypeOK' /\ CollectInv'
<1> USE DEF Collect, input, graph, walk
<1>1. TypeOK'
  BY NotWalking DEF TypeOK, ListsOK, Walking
<1>2. Range(OriginalDirectories) = {} /\ OfUser(i - 1) = {} /\ i = 1
  <2>1. OriginalDirectories = <<>> /\ i = 1
    BY DEF CollectInv
  <2>2. Range(<<>>) = {}
    BY DEF Range
  <2> QED BY <2>1, <2>2 DEF OfUser
<1>3. Len(UserDirectories) \in Nat /\ ~Walking'
  BY DEF TypeOK, ListsOK, Walking
<1>4. Same
  BY SameInputs
<1> QED BY <1>1, <1>2, <1>3, <1>4 DEF CollectInv, Same

LEMMA UserCollect ==
  ASSUME TypeOK, CollectInv, CollectUserDirectory
  PROVE  TypeOK' /\ CollectInv'
<1> USE DEF CollectUserDirectory, input, graph, walk
<1>1. /\ ~Walking /\ ~Walking' /\ i \in Nat \ {0} /\ OriginalDirectories \in Seq(Dirs)
      /\ Len(UserDirectories) \in Nat /\ UserDirectories[i] \in Dirs
      /\ Injective(OriginalDirectories)
      /\ Range(OriginalDirectories) = OfUser(i - 1)
  BY DEF Walking, TypeOK, ListsOK, CollectInv
<1>2. i \in 1..Len(UserDirectories) /\ i' = i + 1
  BY <1>1
<1>3. OfUser(i' - 1) = OfUser(i - 1) \cup ({UserDirectories[i]} \ ImplicitDirectories)
  <2>1. 1..(i' - 1) = (1..(i - 1)) \cup {i}
    BY <1>1, <1>2, OneMore
  <2> QED BY <2>1 DEF OfUser
<1>4. /\ OriginalDirectories' \in Seq(Dirs) /\ Injective(OriginalDirectories')
      /\ Range(OriginalDirectories') = OfUser(i' - 1)
  <2>1. CASE UserDirectories[i] \in ImplicitDirectories
    BY <1>1, <1>3, <2>1
  <2>2. CASE UserDirectories[i] \notin ImplicitDirectories
    BY <1>1, <1>3, <2>2, AddDirectoryCollect
  <2> QED BY <2>1, <2>2
<1>5. WalkOK'
  BY <1>1, NotWalking DEF TypeOK
<1>6. ListsOK'
  BY <1>1, <1>4 DEF TypeOK, ListsOK
<1>7. Same
  BY SameInputs
<1>8. OfUser(i - 1)' = OfUser(i' - 1) /\ i' <= Len(UserDirectories) + 1
  BY <1>1, <1>2 DEF OfUser
<1> QED BY <1>1, <1>4, <1>5, <1>6, <1>7, <1>8 DEF TypeOK, CollectInv, Same, Walking

LEMMA UserCollectedCollect ==
  ASSUME TypeOK, CollectInv, UserCollected
  PROVE  TypeOK' /\ CollectInv'
<1> USE DEF UserCollected, input, graph, walk
<1>1. /\ ~Walking /\ ~Walking' /\ Len(UserDirectories) \in Nat /\ i \in Nat
      /\ Len(ConstraintEntries) \in Nat
  BY DEF Walking, TypeOK, ListsOK
<1>2. TypeOK'
  BY <1>1, NotWalking DEF TypeOK, ListsOK
<1>3. i - 1 = Len(UserDirectories) /\ Range(OriginalDirectories) = OfUser(Len(UserDirectories))
  BY <1>1 DEF CollectInv
<1>4. OfEntries(i - 1)' = {}
  BY DEF OfEntries
<1>5. Same
  BY SameInputs
<1> QED BY <1>1, <1>2, <1>3, <1>4, <1>5 DEF CollectInv, Same

LEMMA ConstraintCollect ==
  ASSUME TypeOK, CollectInv, CollectConstraintDirectory
  PROVE  TypeOK' /\ CollectInv'
<1> USE DEF CollectConstraintDirectory, input, graph, walk
<1> DEFINE d == ConstraintEntries[i].directory
<1>1. /\ ~Walking /\ ~Walking' /\ i \in Nat \ {0} /\ OriginalDirectories \in Seq(Dirs)
      /\ Len(ConstraintEntries) \in Nat /\ d \in Dirs
      /\ Injective(OriginalDirectories)
      /\ Range(OriginalDirectories) = OfUser(Len(UserDirectories)) \cup OfEntries(i - 1)
  BY DEF Walking, TypeOK, ListsOK, CollectInv, Libraries
<1>2. OfEntries(i - 1)' = OfEntries(i - 1) \cup {d}
  <2>1. 1..(i' - 1) = (1..(i - 1)) \cup {i}
    BY <1>1, OneMore
  <2> QED BY <2>1 DEF OfEntries
<1>3. /\ OriginalDirectories' \in Seq(Dirs) /\ Injective(OriginalDirectories')
      /\ Range(OriginalDirectories') = Range(OriginalDirectories) \cup {d}
  BY <1>1, AddDirectoryCollect
<1>4. WalkOK'
  BY <1>1, NotWalking DEF TypeOK
<1>5. ListsOK'
  BY <1>1, <1>3 DEF TypeOK, ListsOK
<1>6. Same
  BY SameInputs
<1> HIDE DEF d
<1>7. i' <= Len(ConstraintEntries') + 1
  BY <1>1
<1> QED BY <1>1, <1>2, <1>3, <1>4, <1>5, <1>6, <1>7 DEF TypeOK, CollectInv, Same

LEMMA ConflictsCollect ==
  ASSUME TypeOK, CollectInv, FindConflicts
  PROVE  TypeOK' /\ CollectInv'
<1> USE DEF FindConflicts, input, graph, walk
<1>1. /\ ~Walking /\ Walking' /\ i \in Nat \ {0} /\ Len(ConstraintEntries) \in Nat
      /\ OriginalDirectories \in Seq(Dirs) /\ Len(OriginalDirectories) \in Nat
  BY DEF Walking, TypeOK, ListsOK
<1>2. i - 1 = Len(ConstraintEntries)
  BY <1>1 DEF CollectInv
<1>3. ListsOK'
  BY DEF TypeOK, ListsOK
<1>4. \A k : ConflictsOf(k) \subseteq Index
  BY DEF ConflictsOf, Index
<1>5. ConflictGraph' = [k \in Index |-> ConflictsOf(k)] /\ Index' = Index
  BY DEF Index
<1>6. WalkOK'
  <2>1. ConflictGraph' \in [Index -> SUBSET Index]
    BY <1>4, <1>5
  <2>2. WalkId = 0 /\ DirectoryVisited' \in [Index -> 0..WalkId]
    BY <1>1 DEF TypeOK, WalkOK, Index
  <2>3. calls = <<>> /\ OrderedDirectories = <<>> /\ ~CycleDiagnosed /\ CycleDiagnosed \in BOOLEAN
    BY <1>1 DEF TypeOK, WalkOK
  <2>4. \A S : <<>> \in Seq(S)
    BY EmptySeq
  <2> QED BY <1>1, <1>5, <2>1, <2>2, <2>3, <2>4 DEF WalkOK
<1>7. \A k : ConflictsOf(k)' = ConflictsOf(k)
  BY DEF ConflictsOf
<1>8. Same
  BY SameInputs
<1>9. ConflictGraph' = [k \in Index |-> ConflictsOf(k)]'
  BY <1>5, <1>7
<1> QED BY <1>1, <1>2, <1>3, <1>6, <1>8, <1>9 DEF TypeOK, CollectInv, Same, Walking
---------------------------------------------------------------------------
(* The walks.                                                               *)
OnStack(k) == \E a \in 1..Len(calls) : calls[a].dir = k
Emitted(k) == OriginalDirectories[k] \in Range(OrderedDirectories)
Precedes(m, k) ==
  \E p, q \in 1..Len(OrderedDirectories) :
    /\ p < q
    /\ OrderedDirectories[p] = OriginalDirectories[m]
    /\ OrderedDirectories[q] = OriginalDirectories[k]
Seen(a) == ConflictGraph[calls[a].dir] \ calls[a].clist

(* The visited directories are those on the stack, by the walk in progress, *)
(* and those emitted.                                                       *)
Marks ==
  /\ \A k \in Index : DirectoryVisited[k] > 0 <=> OnStack(k) \/ Emitted(k)
  /\ \A k \in Index : ~(OnStack(k) /\ Emitted(k))
  /\ \A a, b \in 1..Len(calls) : calls[a].dir = calls[b].dir => a = b
  /\ \A a \in 1..Len(calls) : DirectoryVisited[calls[a].dir] = WalkId
  /\ \A k \in Index : k < i => DirectoryVisited[k] > 0
  /\ Range(OrderedDirectories) \subseteq Range(OriginalDirectories)
  /\ Injective(OrderedDirectories)

(* The stack is a path, and what its calls have seen has been visited.      *)
Paths ==
  /\ \A a \in 1..Len(calls) : calls[a].clist \subseteq ConflictGraph[calls[a].dir]
  /\ \A a \in 1..Len(calls) : \A m \in Seen(a) : DirectoryVisited[m] > 0
  /\ \A a, b \in 1..Len(calls) :
       a < b => calls[b].dir \in Reach(ConflictGraph, calls[a].dir)

SafeSoFar ==
  \A k \in Index : Emitted(k) =>
    \A m \in ConflictGraph[k] : Precedes(m, k) \/ k \in Reach(ConflictGraph, m)

(* Without a diagnosis no walk has met itself.                              *)
Undiagnosed ==
  ~CycleDiagnosed =>
    /\ \A k \in Index : Emitted(k) => \A m \in ConflictGraph[k] : Precedes(m, k)
    /\ \A a \in 1..Len(calls) : \A m \in Seen(a) :
         Emitted(m) \/ (a < Len(calls) /\ calls[a + 1].dir = m)

(* If the order is safe as it is, every walk is a single visit.             *)
SafeAsItIs == \A k \in Index : \A m \in ConflictGraph[k] : m < k
InOrder ==
  SafeAsItIs =>
    /\ ~CycleDiagnosed
    /\ Len(calls) <= 1 /\ Len(OrderedDirectories) + Len(calls) = i - 1
    /\ calls # <<>> => calls[1].dir = i - 1
    /\ \A p \in 1..Len(OrderedDirectories) : OrderedDirectories[p] = OriginalDirectories[p]
    /\ \A k \in Index : DirectoryVisited[k] = IF k < i THEN k ELSE 0

WalkInv == Walking => Marks /\ Paths /\ SafeSoFar /\ Undiagnosed /\ InOrder

LEMMA ConflictsWalk ==
  ASSUME TypeOK, FindConflicts
  PROVE  WalkInv'
<1> USE DEF FindConflicts, input
<1>1. /\ calls' = <<>> /\ OrderedDirectories' = <<>> /\ ~CycleDiagnosed' /\ WalkId' = 0 /\ i' = 1
      /\ Len(OriginalDirectories) \in Nat /\ OriginalDirectories' = OriginalDirectories
      /\ DirectoryVisited' = [k \in Index |-> 0] /\ Index' = Index
  BY DEF TypeOK, ListsOK, WalkOK, Walking, Index
<1>2. Len(<<>>) = 0 /\ Range(<<>>) = {}
  BY EmptySeq DEF Range
<1>3. \A k : ~OnStack(k)' /\ ~Emitted(k)'
  BY <1>1, <1>2 DEF OnStack, Emitted
<1>4. \A k \in Index : k \in Nat \ {0}
  BY <1>1 DEF Index
<1>5. Marks'
  BY <1>1, <1>2, <1>3, <1>4 DEF Marks, Injective
<1>6. Paths' /\ SafeSoFar' /\ Undiagnosed'
  BY <1>1, <1>2, <1>3 DEF Paths, SafeSoFar, Undiagnosed
<1>7. InOrder'
  BY <1>1, <1>2, <1>4 DEF InOrder
<1> QED BY <1>5, <1>6, <1>7 DEF WalkInv

(* The visit of the directory k in walk w from the calls outer, which have  *)
(* taken k from what is left to visit.                                      *)
Visit(k, w, outer) ==
  /\ Walking /\ k \in Index /\ w \in Nat /\ WalkId <= w
  /\ outer \in Seq(Calls) /\ Len(outer) = Len(calls)
  /\ \A a \in 1..Len(calls) :
       /\ outer[a].dir = calls[a].dir
       /\ outer[a].clist = IF a = Len(calls) THEN calls[a].clist \ {k} ELSE calls[a].clist
  /\ calls # <<>> => w = WalkId /\ i' = i /\ k \in Last.clist
  /\ calls = <<>> => w = WalkId + 1 /\ i' = i + 1 /\ k = i
  /\ VisitDirectory(k, w, outer)
  /\ WalkId' = w
  /\ UNCHANGED <<input, graph, OrderedDirectories, pc>>

LEMMA StartIsVisit ==
  ASSUME TypeOK, StartWalk
  PROVE  Visit(i, WalkId + 1, <<>>)
<1>1. /\ Walking /\ i \in Index /\ WalkId + 1 \in Nat /\ calls = <<>> /\ WalkId <= WalkId + 1
  BY DEF StartWalk, Ordering, Walking, TypeOK, ListsOK, WalkOK, Index
<1>2. <<>> \in Seq(Calls) /\ Len(<<>>) = 0
  BY EmptySeq
<1>3. \A a \in 1..Len(calls) : FALSE
  BY <1>1, <1>2
<1>4. /\ VisitDirectory(i, WalkId + 1, <<>>) /\ WalkId' = WalkId + 1 /\ i' = i + 1
      /\ UNCHANGED <<input, graph, OrderedDirectories, pc>>
  BY DEF StartWalk
<1> QED BY <1>1, <1>2, <1>3, <1>4 DEF Visit

LEMMA NeighborIsVisit ==
  ASSUME TypeOK, VisitNeighbor
  PROVE  \E k, outer : Visit(k, WalkId, outer)
<1> DEFINE n == Len(calls)
<1>1. /\ Walking /\ WalkId \in Nat /\ calls \in Seq(Calls) /\ calls # <<>>
      /\ n \in 1..Len(calls) /\ calls[n] \in Calls
  <2>1. Walking /\ calls \in Seq(Calls) /\ calls # <<>>
    BY DEF VisitNeighbor, Ordering, Walking, TypeOK, WalkOK
  <2>2. n \in Nat \ {0}
    BY <2>1, EmptySeq
  <2>3. n \in 1..Len(calls) /\ calls[n] \in Calls
    BY <2>1, <2>2, ElementOfSeq
  <2>4. WalkId \in Nat
    BY <2>1 DEF TypeOK, WalkOK, ListsOK
  <2> QED BY <2>1, <2>3, <2>4
<1>2. PICK k \in Last.clist :
        VisitDirectory(k, WalkId, [calls EXCEPT ![Len(calls)].clist = @ \ {k}])
  BY DEF VisitNeighbor
<1> DEFINE frame == [calls[n] EXCEPT !.clist = @ \ {k}]
           outer == [calls EXCEPT ![n] = frame]
<1>3. k \in Index /\ frame \in Calls /\ frame.dir = calls[n].dir
      /\ frame.clist = calls[n].clist \ {k}
  BY <1>1, <1>2 DEF Last, Calls
<1>4. /\ outer \in Seq(Calls) /\ Len(outer) = Len(calls)
      /\ \A a \in 1..Len(calls) : outer[a] = IF a = n THEN frame ELSE calls[a]
  <2> HIDE DEF frame, n
  <2> QED BY <1>1, <1>3, ExceptSeq
<1>5. VisitDirectory(k, WalkId, outer)
  BY <1>2
<1> HIDE DEF outer, frame
<1>6. /\ UNCHANGED <<input, graph, OrderedDirectories, pc>>
      /\ WalkId' = WalkId /\ i' = i /\ WalkId <= WalkId
  BY <1>1 DEF VisitNeighbor
<1>7. \A a \in 1..Len(calls) :
       /\ outer[a].dir = calls[a].dir
       /\ outer[a].clist = IF a = Len(calls) THEN calls[a].clist \ {k} ELSE calls[a].clist
  BY <1>3, <1>4
<1>8. Visit(k, WalkId, outer)
  BY <1>1, <1>2, <1>3, <1>4, <1>5, <1>6, <1>7 DEF Visit
<1> QED BY <1>8
(* What is known in every step of a walk.                                   *)
LEMMA WalkFacts ==
  ASSUME TypeOK, WalkInv, Walking
  PROVE  /\ Len(OriginalDirectories) \in Nat /\ Len(calls) \in Nat /\ WalkId \in Nat
         /\ OriginalDirectories \in Seq(Dirs) /\ OrderedDirectories \in Seq(Dirs)
         /\ Len(OrderedDirectories) \in Nat /\ calls \in Seq(Calls)
         /\ \A a \in 1..Len(calls) : calls[a].dir \in Index /\ calls[a].clist \subseteq Index
         /\ DOMAIN ConflictGraph = Index /\ \A k \in Index : ConflictGraph[k] \subseteq Index
         /\ DirectoryVisited \in [Index -> 0..WalkId] /\ i = WalkId + 1
         /\ calls # <<>> => Len(calls) \in 1..Len(calls) /\ WalkId > 0
         /\ calls = <<>> => Len(calls) = 0
<1>1. /\ OriginalDirectories \in Seq(Dirs) /\ OrderedDirectories \in Seq(Dirs)
      /\ calls \in Seq(Calls) /\ DirectoryVisited \in [Index -> 0..WalkId] /\ WalkId \in Nat
      /\ ConflictGraph \in [Index -> SUBSET Index] /\ i = WalkId + 1
  BY DEF TypeOK, ListsOK, WalkOK
<1>2. \A a \in 1..Len(calls) : calls[a].dir \in Index /\ calls[a].clist \subseteq Index
  <2>1. \A a \in 1..Len(calls) : calls[a] \in Calls
    BY <1>1, ElementOfSeq
  <2> QED BY <2>1 DEF Calls
<1>3. calls # <<>> => Len(calls) \in 1..Len(calls)
  BY <1>1, EmptySeq
<1>4. ASSUME calls # <<>> PROVE WalkId > 0
  <2> DEFINE k == calls[Len(calls)].dir
  <2>1. k \in Index /\ OnStack(k) /\ DirectoryVisited[k] = WalkId
    BY <1>2, <1>3, <1>4 DEF OnStack, WalkInv, Marks
  <2> QED BY <2>1 DEF WalkInv, Marks
<1>5. calls = <<>> => Len(calls) = 0
  BY EmptySeq
<1> QED BY <1>1, <1>2, <1>3, <1>4, <1>5

(* The two outcomes of a visit.                                             *)
Old(k, w, outer) == Visit(k, w, outer) /\ DirectoryVisited[k] > 0
Fresh(k, w, outer) == Visit(k, w, outer) /\ ~(DirectoryVisited[k] > 0)

LEMMA OldFacts ==
  ASSUME TypeOK, WalkInv, NEW k, NEW w, NEW outer, Old(k, w, outer)
  PROVE  /\ calls' \in Seq(Calls) /\ Len(calls') = Len(calls)
         /\ \A a \in 1..Len(calls) :
              /\ calls'[a].dir = calls[a].dir
              /\ calls'[a].clist = IF a = Len(calls) THEN calls[a].clist \ {k} ELSE calls[a].clist
         /\ DirectoryVisited' = DirectoryVisited
         /\ CycleDiagnosed' = (CycleDiagnosed \/ (calls # <<>> /\ DirectoryVisited[k] = WalkId))
<1>1. calls = <<>> => DirectoryVisited[k] # w
  BY WalkFacts DEF Old, Visit
<1>2. calls' = outer /\ DirectoryVisited' = DirectoryVisited
  BY DEF Old, Visit, VisitDirectory
<1>3. CycleDiagnosed' = (CycleDiagnosed \/ (calls # <<>> /\ DirectoryVisited[k] = WalkId))
  BY <1>1 DEF Old, Visit, VisitDirectory
<1> QED BY <1>2, <1>3 DEF Old, Visit

LEMMA FreshFacts ==
  ASSUME TypeOK, WalkInv, NEW k, NEW w, NEW outer, Fresh(k, w, outer)
  PROVE  /\ calls' \in Seq(Calls) /\ Len(calls') = Len(calls) + 1
         /\ \A a \in 1..Len(calls) :
              /\ calls'[a].dir = calls[a].dir
              /\ calls'[a].clist = IF a = Len(calls) THEN calls[a].clist \ {k} ELSE calls[a].clist
         /\ calls'[Len(calls')].dir = k /\ calls'[Len(calls')].clist = ConflictGraph[k]
         /\ DirectoryVisited[k] = 0 /\ DirectoryVisited' = [DirectoryVisited EXCEPT ![k] = w]
         /\ ~OnStack(k) /\ ~Emitted(k)
         /\ CycleDiagnosed' = CycleDiagnosed
<1> DEFINE e == [dir |-> k, clist |-> ConflictGraph[k]]
<1>1. /\ outer \in Seq(Calls) /\ Len(outer) = Len(calls) /\ k \in Index /\ Walking
      /\ calls' = Append(outer, e) /\ DirectoryVisited' = [DirectoryVisited EXCEPT ![k] = w]
  BY DEF Fresh, Visit, VisitDirectory
<1>2. e \in Calls /\ e.dir = k /\ e.clist = ConflictGraph[k]
  BY <1>1, WalkFacts DEF Calls
<1> HIDE DEF e
<1>3. /\ calls' \in Seq(Calls) /\ Len(calls') = Len(calls) + 1 /\ calls'[Len(calls')] = e
      /\ \A a \in 1..Len(calls) : calls'[a] = outer[a]
  BY <1>1, <1>2, Pushed
<1>4. DirectoryVisited[k] = 0
  BY <1>1, WalkFacts DEF Fresh
<1>5. w # 0
  BY <1>1, WalkFacts DEF Fresh, Visit
<1>6. CycleDiagnosed' = CycleDiagnosed
  BY <1>4, <1>5, <1>1 DEF Fresh, Visit, VisitDirectory, TypeOK, WalkOK
<1>7. ~OnStack(k) /\ ~Emitted(k)
  BY <1>1, <1>4 DEF WalkInv, Marks
<1> QED BY <1>1, <1>2, <1>3, <1>4, <1>6, <1>7 DEF Fresh, Visit

LEMMA VisitTypes ==
  ASSUME TypeOK, WalkInv, NEW k, NEW w, NEW outer, Visit(k, w, outer)
  PROVE  TypeOK' /\ Walking'
<1>1. /\ Walking /\ Walking' /\ pc' = pc /\ w \in Nat /\ WalkId <= w /\ WalkId' = w /\ k \in Index
      /\ UNCHANGED <<UserDirectories, ImplicitDirectories, Emmitted, ConstraintEntries,
                     OriginalDirectories, ConflictGraph, OrderedDirectories>>
      /\ i' = w + 1 /\ Index' = Index /\ Calls' = Calls
  BY WalkFacts DEF Visit, input, graph, Walking, Index, Calls
<1>2. pc = "done" => FALSE
  <2> SUFFICES ASSUME pc = "done" PROVE FALSE
    OBVIOUS
  <2>1. calls = <<>> /\ i > Len(OriginalDirectories)
    BY DEF TypeOK, WalkOK
  <2> QED BY <1>1, <2>1, WalkFacts DEF Visit, Index
<1>3. i' <= Len(OriginalDirectories) + 1
  BY <1>1, WalkFacts DEF Visit, Index, TypeOK, WalkOK
<1>4. /\ calls' \in Seq(Calls) /\ CycleDiagnosed' \in BOOLEAN
      /\ DirectoryVisited' \in [Index -> 0..w]
  <2>1. CASE Old(k, w, outer)
    <3>1. DirectoryVisited' \in [Index -> 0..w]
      BY <1>1, <2>1, OldFacts, WalkFacts
    <3> QED BY <2>1, <3>1, OldFacts DEF TypeOK, WalkOK
  <2>2. CASE Fresh(k, w, outer)
    <3>1. DirectoryVisited' \in [Index -> 0..w]
      BY <1>1, <2>2, FreshFacts, WalkFacts
    <3> QED BY <2>2, <3>1, FreshFacts DEF TypeOK, WalkOK
  <2> QED BY <2>1, <2>2 DEF Old, Fresh
<1>5. ListsOK'
  BY <1>1 DEF TypeOK, ListsOK
<1>6. WalkOK'
  BY <1>1, <1>2, <1>3, <1>4 DEF TypeOK, WalkOK
<1> QED BY <1>1, <1>5, <1>6 DEF TypeOK
(* What a visit leaves alone.                                               *)
LEMMA VisitKeeps ==
  ASSUME NEW k, NEW w, NEW outer, Visit(k, w, outer)
  PROVE  /\ UNCHANGED <<OriginalDirectories, ConflictGraph, OrderedDirectories>>
         /\ Index' = Index /\ SafeAsItIs' = SafeAsItIs
         /\ \A m : Emitted(m)' = Emitted(m)
         /\ \A m, n : Precedes(m, n)' = Precedes(m, n)
  BY DEF Visit, graph, Index, SafeAsItIs, Emitted, Precedes

LEMMA VisitMarks ==
  ASSUME TypeOK, WalkInv, NEW k, NEW w, NEW outer, Visit(k, w, outer)
  PROVE  Marks'
<1>1. /\ Walking /\ k \in Index /\ WalkId' = w /\ Marks /\ Len(calls) \in Nat
      /\ calls # <<>> => w = WalkId /\ i' = i
      /\ calls = <<>> => Len(calls) = 0 /\ i' = i + 1 /\ k = i
  BY WalkFacts DEF Visit, WalkInv
<1>2. /\ UNCHANGED <<OriginalDirectories, OrderedDirectories>> /\ Index' = Index
      /\ \A m : Emitted(m)' = Emitted(m)
  BY VisitKeeps
<1>3. CASE Old(k, w, outer)
  <2>1. /\ Len(calls') = Len(calls) /\ \A a \in 1..Len(calls) : calls'[a].dir = calls[a].dir
        /\ DirectoryVisited' = DirectoryVisited /\ DirectoryVisited[k] > 0
    BY <1>3, OldFacts DEF Old
  <2>2. \A m : OnStack(m)' <=> OnStack(m)
    BY <2>1 DEF OnStack
  <2>3. \A a \in 1..Len(calls) : DirectoryVisited'[calls'[a].dir] = WalkId'
    BY <1>1, <2>1 DEF Marks
  <2>4. \A j \in Index : j < i' => DirectoryVisited'[j] > 0
    BY <1>1, <2>1, WalkFacts DEF Marks, Index
  <2> QED BY <1>1, <1>2, <2>1, <2>2, <2>3, <2>4 DEF Marks, Injective
<1>4. CASE Fresh(k, w, outer)
  <2>1. /\ Len(calls') = Len(calls) + 1
        /\ \A a \in 1..Len(calls) : calls'[a].dir = calls[a].dir
        /\ calls'[Len(calls')].dir = k /\ ~OnStack(k) /\ ~Emitted(k)
        /\ DirectoryVisited' = [DirectoryVisited EXCEPT ![k] = w]
    BY <1>4, FreshFacts
  <2>2. /\ \A a \in 1..Len(calls') : a \in 1..Len(calls) \/ a = Len(calls')
        /\ \A a \in 1..Len(calls) : a \in 1..Len(calls') /\ a # Len(calls')
        /\ Len(calls') \in 1..Len(calls')
    BY <1>1, <2>1
  <2>3. \A m : OnStack(m)' <=> OnStack(m) \/ m = k
    BY <2>1, <2>2 DEF OnStack
  <2>4. w > 0 /\ \A j \in Index : DirectoryVisited'[j] = IF j = k THEN w ELSE DirectoryVisited[j]
    BY <1>1, <2>1, WalkFacts DEF Visit
  <2>5. \A a \in 1..Len(calls) : calls[a].dir # k /\ calls[a].dir \in Index
    BY <1>1, <2>1, WalkFacts DEF OnStack
  <2>6. \A a \in 1..Len(calls') : DirectoryVisited'[calls'[a].dir] = WalkId'
    BY <1>1, <2>1, <2>2, <2>4, <2>5 DEF Marks
  <2>7. \A a, b \in 1..Len(calls') : calls'[a].dir = calls'[b].dir => a = b
    BY <1>1, <2>1, <2>2, <2>5 DEF Marks
  <2>8. \A j \in Index : j < i' => DirectoryVisited'[j] > 0
    BY <1>1, <2>4, WalkFacts DEF Marks, Index
  <2>9. \A j \in Index : DirectoryVisited'[j] > 0 <=> OnStack(j)' \/ Emitted(j)'
    BY <1>1, <1>2, <2>3, <2>4 DEF Marks
  <2>10. \A j \in Index : ~(OnStack(j)' /\ Emitted(j)')
    BY <1>1, <1>2, <2>1, <2>3 DEF Marks
  <2>11. /\ Range(OrderedDirectories)' \subseteq Range(OriginalDirectories)'
         /\ Injective(OrderedDirectories)'
    BY <1>1, <1>2 DEF Marks
  <2> QED BY <1>2, <2>6, <2>7, <2>8, <2>9, <2>10, <2>11 DEF Marks
<1> QED BY <1>3, <1>4 DEF Old, Fresh

(* What the calls of the stack have seen after a visit.                     *)
LEMMA VisitSeen ==
  ASSUME TypeOK, WalkInv, NEW k, NEW w, NEW outer, Visit(k, w, outer)
  PROVE  /\ \A a \in 1..Len(calls) : Seen(a)' \subseteq Seen(a) \cup (IF a = Len(calls) THEN {k} ELSE {})
         /\ \A a \in 1..Len(calls') : calls'[a].clist \subseteq ConflictGraph[calls'[a].dir]
         /\ Fresh(k, w, outer) => Seen(Len(calls))' = {}
<1>1. /\ Walking /\ Len(calls) \in Nat /\ UNCHANGED ConflictGraph
      /\ \A a \in 1..Len(calls) : calls[a].clist \subseteq ConflictGraph[calls[a].dir]
  BY WalkFacts, VisitKeeps DEF Visit, WalkInv, Paths
<1>2. \A a \in 1..Len(calls) :
         /\ calls'[a].dir = calls[a].dir
         /\ calls'[a].clist = IF a = Len(calls) THEN calls[a].clist \ {k} ELSE calls[a].clist
  BY OldFacts, FreshFacts DEF Old, Fresh
<1>3. CASE Old(k, w, outer)
  <2>1. Len(calls') = Len(calls) /\ ~Fresh(k, w, outer)
    BY <1>3, OldFacts DEF Old, Fresh
  <2> QED BY <1>1, <1>2, <2>1 DEF Seen
<1>4. CASE Fresh(k, w, outer)
  <2>1. /\ Len(calls') = Len(calls) + 1 /\ calls'[Len(calls')].clist = ConflictGraph[k]
        /\ calls'[Len(calls')].dir = k
    BY <1>4, FreshFacts
  <2>2. \A a \in 1..Len(calls') : a \in 1..Len(calls) \/ a = Len(calls')
    BY <1>1, <2>1
  <2>3. Seen(Len(calls))' = {}
    BY <1>1, <2>1 DEF Seen
  <2> QED BY <1>1, <1>2, <2>1, <2>2, <2>3 DEF Seen
<1> QED BY <1>3, <1>4 DEF Old, Fresh
LEMMA VisitPaths ==
  ASSUME TypeOK, WalkInv, NEW k, NEW w, NEW outer, Visit(k, w, outer)
  PROVE  Paths'
<1>0. /\ Walking /\ k \in Index /\ w \in Nat /\ Paths
      /\ calls # <<>> => w = WalkId /\ k \in calls[Len(calls)].clist
      /\ calls = <<>> => w = WalkId + 1
  BY DEF Visit, WalkInv, Last
<1>1. /\ Walking /\ k \in Index /\ w \in Nat /\ Len(calls) \in Nat /\ UNCHANGED ConflictGraph
      /\ Paths
      /\ calls # <<>> => w = WalkId /\ Len(calls) \in 1..Len(calls) /\ w > 0
                         /\ k \in ConflictGraph[calls[Len(calls)].dir]
      /\ calls = <<>> => Len(calls) = 0 /\ w > 0
      /\ \A a \in 1..Len(calls) : calls[a].dir \in Index
      /\ DOMAIN ConflictGraph = Index /\ \A m \in Index : ConflictGraph[m] \subseteq Index
  BY <1>0, WalkFacts, VisitKeeps DEF Paths
<1>2. \A j \in Index : DirectoryVisited[j] > 0 => DirectoryVisited'[j] > 0
  <2>1. CASE Old(k, w, outer)
    BY <2>1, OldFacts
  <2>2. CASE Fresh(k, w, outer)
    BY <1>1, <2>2, FreshFacts, WalkFacts
  <2> QED BY <2>1, <2>2 DEF Visit, Old, Fresh
<1>3. DirectoryVisited'[k] > 0
  <2>1. CASE Old(k, w, outer)
    BY <2>1, OldFacts DEF Old
  <2>2. CASE Fresh(k, w, outer)
    BY <1>1, <2>2, FreshFacts, WalkFacts
  <2> QED BY <2>1, <2>2 DEF Visit, Old, Fresh
<1>4. \A a \in 1..Len(calls) : \A m \in Seen(a) : m \in Index
  BY <1>1 DEF Seen
<1>5. \A a \in 1..Len(calls) : \A m \in Seen(a)' : DirectoryVisited'[m] > 0
  BY <1>1, <1>2, <1>3, <1>4, VisitSeen DEF Paths
<1>6. CASE Old(k, w, outer)
  <2>1. Len(calls') = Len(calls) /\ \A a \in 1..Len(calls) : calls'[a].dir = calls[a].dir
    BY <1>6, OldFacts
  <2> QED BY <1>1, <1>5, <2>1, VisitSeen DEF Paths
<1>7. CASE Fresh(k, w, outer)
  <2>1. /\ Len(calls') = Len(calls) + 1
        /\ \A a \in 1..Len(calls) : calls'[a].dir = calls[a].dir
        /\ calls'[Len(calls')].dir = k
    BY <1>7, FreshFacts
  <2>2. \A a \in 1..Len(calls') : a \in 1..Len(calls) \/ a = Len(calls')
    BY <1>1, <2>1
  <2>3. \A a \in 1..Len(calls) : k \in Reach(ConflictGraph, calls[a].dir)
    <3> SUFFICES ASSUME NEW a \in 1..Len(calls) PROVE k \in Reach(ConflictGraph, calls[a].dir)
      OBVIOUS
    <3> DEFINE n == Len(calls)
    <3>1. calls # <<>> /\ n \in 1..Len(calls) /\ a <= n
      BY <1>1
    <3>2. calls[n].dir \in Reach(ConflictGraph, calls[a].dir)
      <4>1. CASE a = n
        BY <1>1, <4>1, ReachSteps
      <4>2. CASE a < n
        BY <1>1, <3>1, <4>2 DEF Paths
      <4> QED BY <1>1, <3>1, <4>1, <4>2
    <3>3. ConflictGraph[calls[n].dir] \subseteq Reach(ConflictGraph, calls[a].dir)
      BY <1>1, <3>2, ReachSteps
    <3> QED BY <1>1, <3>1, <3>3
  <2>4. \A a, b \in 1..Len(calls') :
          a < b => calls'[b].dir \in Reach(ConflictGraph, calls'[a].dir)
    <3> SUFFICES ASSUME NEW a \in 1..Len(calls'), NEW b \in 1..Len(calls'), a < b
                 PROVE  calls'[b].dir \in Reach(ConflictGraph, calls'[a].dir)
      OBVIOUS
    <3>1. a \in 1..Len(calls)
      BY <1>1, <2>1
    <3>2. CASE b = Len(calls')
      BY <2>1, <2>3, <3>1, <3>2
    <3>3. CASE b \in 1..Len(calls)
      BY <1>1, <2>1, <3>1, <3>3 DEF Paths
    <3> QED BY <2>2, <3>2, <3>3
  <2>5. \A m \in Seen(Len(calls))' : FALSE
    BY <1>7, VisitSeen
  <2>6. \A a \in 1..Len(calls') : \A m \in Seen(a)' : DirectoryVisited'[m] > 0
    BY <1>5, <2>2, <2>5
  <2> QED BY <1>1, <2>4, <2>6, VisitSeen DEF Paths
<1> QED BY <1>6, <1>7 DEF Old, Fresh, Visit

LEMMA VisitSafe ==
  ASSUME TypeOK, WalkInv, NEW k, NEW w, NEW outer, Visit(k, w, outer)
  PROVE  SafeSoFar'
  BY VisitKeeps DEF Visit, WalkInv, SafeSoFar

LEMMA VisitUndiagnosed ==
  ASSUME TypeOK, WalkInv, NEW k, NEW w, NEW outer, Visit(k, w, outer)
  PROVE  Undiagnosed'
<1> SUFFICES ASSUME ~CycleDiagnosed'
             PROVE  \A a \in 1..Len(calls') : \A m \in Seen(a)' :
                      Emitted(m)' \/ (a < Len(calls') /\ calls'[a + 1].dir = m)
  <2>1. CycleDiagnosed => CycleDiagnosed'
    BY DEF Visit, VisitDirectory
  <2>2. ~CycleDiagnosed' =>
          \A n \in Index' : Emitted(n)' => \A m \in ConflictGraph'[n] : Precedes(m, n)'
    BY <2>1, VisitKeeps DEF Visit, WalkInv, Undiagnosed
  <2> QED BY <2>2 DEF Undiagnosed
<1>1. /\ Walking /\ k \in Index /\ Len(calls) \in Nat /\ Marks
      /\ calls # <<>> => Len(calls) \in 1..Len(calls)
      /\ calls = <<>> => Len(calls) = 0
      /\ \A m : Emitted(m)' = Emitted(m)
  BY WalkFacts, VisitKeeps DEF Visit, WalkInv
<1>2. \A a \in 1..Len(calls) : \A m \in Seen(a) :
         Emitted(m) \/ (a < Len(calls) /\ calls[a + 1].dir = m)
  BY <1>1 DEF Visit, VisitDirectory, WalkInv, Undiagnosed
<1>3. CASE Old(k, w, outer)
  <2>1. /\ Len(calls') = Len(calls) /\ DirectoryVisited[k] > 0
        /\ \A a \in 1..Len(calls) : calls'[a].dir = calls[a].dir
        /\ calls # <<>> => DirectoryVisited[k] # WalkId
    BY <1>3, OldFacts DEF Old
  <2>2. ASSUME calls # <<>> PROVE Emitted(k)
    BY <1>1, <2>1, <2>2 DEF Marks, OnStack
  <2> SUFFICES ASSUME NEW a \in 1..Len(calls), NEW m \in Seen(a)'
               PROVE  Emitted(m) \/ (a < Len(calls) /\ calls[a + 1].dir = m)
    <3>1. \A a \in 1..Len(calls) : a < Len(calls) => a + 1 \in 1..Len(calls)
      BY <1>1
    <3> QED BY <1>1, <2>1, <3>1
  <2>3. calls # <<>>
    BY <1>1
  <2>4. m \in Seen(a) \/ m = k
    BY VisitSeen
  <2> QED BY <1>2, <2>2, <2>3, <2>4
<1>4. CASE Fresh(k, w, outer)
  <2>1. /\ Len(calls') = Len(calls) + 1 /\ calls'[Len(calls')].dir = k
        /\ \A a \in 1..Len(calls) : calls'[a].dir = calls[a].dir
    BY <1>4, FreshFacts
  <2>2. \A m \in Seen(Len(calls))' : FALSE
    BY <1>4, VisitSeen
  <2>3. \A a \in 1..Len(calls') : a \in 1..Len(calls) \/ a = Len(calls')
    BY <1>1, <2>1
  <2> SUFFICES ASSUME NEW a \in 1..Len(calls), NEW m \in Seen(a)'
               PROVE  Emitted(m) \/ (a < Len(calls') /\ calls'[a + 1].dir = m)
    BY <1>1, <2>2, <2>3
  <2>4. a < Len(calls')
    BY <1>1, <2>1
  <2>5. CASE m \in Seen(a)
    <3>1. CASE Emitted(m)
      BY <3>1
    <3>2. CASE a < Len(calls) /\ calls[a + 1].dir = m
      <4>1. a + 1 \in 1..Len(calls)
        BY <1>1, <3>2
      <4> QED BY <2>1, <2>4, <3>2, <4>1
    <3> QED BY <1>2, <2>5, <3>1, <3>2
  <2>6. CASE m \notin Seen(a)
    <3>1. a = Len(calls) /\ m = k
      BY <2>6, VisitSeen
    <3> QED BY <2>1, <2>4, <3>1
  <2> QED BY <2>5, <2>6
<1> QED BY <1>3, <1>4 DEF Old, Fresh, Visit

LEMMA VisitInOrder ==
  ASSUME TypeOK, WalkInv, NEW k, NEW w, NEW outer, Visit(k, w, outer)
  PROVE  InOrder'
<1> SUFFICES ASSUME SafeAsItIs PROVE InOrder'
  BY VisitKeeps DEF InOrder
<1>1. /\ Walking /\ k \in Index /\ Len(calls) \in Nat /\ InOrder
      /\ Len(OrderedDirectories) \in Nat /\ Len(OriginalDirectories) \in Nat
      /\ i = WalkId + 1 /\ WalkId \in Nat /\ DirectoryVisited \in [Index -> 0..WalkId]
      /\ \A m \in Index : m \in Nat \ {0}
      /\ calls # <<>> => Len(calls) \in 1..Len(calls)
  BY WalkFacts DEF Visit, WalkInv, Index
<1>2. /\ UNCHANGED <<OriginalDirectories, OrderedDirectories>> /\ Index' = Index
  BY VisitKeeps
<1>3. CASE calls # <<>>
  <2>1. /\ Len(calls) = 1 /\ calls[1].dir = WalkId
        /\ k \in calls[1].clist /\ i' = i
    BY <1>1, <1>3 DEF Visit, InOrder, Last
  <2>2. WalkId \in Index /\ k \in ConflictGraph[WalkId]
    BY <1>1, <2>1, WalkFacts DEF WalkInv, Paths
  <2>3. k < WalkId /\ DirectoryVisited[k] = k
    <3>1. k < WalkId
      BY <2>2 DEF SafeAsItIs
    <3>2. DirectoryVisited[k] = IF k < i THEN k ELSE 0
      BY <1>1 DEF InOrder
    <3>3. k < i
      BY <1>1, <3>1
    <3> QED BY <3>1, <3>2, <3>3
  <2>4. Old(k, w, outer)
    BY <1>1, <2>3 DEF Old
  <2>5. /\ Len(calls') = 1 /\ calls'[1].dir = calls[1].dir
        /\ DirectoryVisited' = DirectoryVisited
        /\ CycleDiagnosed' = CycleDiagnosed
    BY <1>1, <2>1, <2>3, <2>4, OldFacts DEF TypeOK, WalkOK
  <2> QED BY <1>1, <1>2, <1>3, <2>1, <2>5 DEF InOrder
<1>4. CASE calls = <<>>
  <2>1. k = i /\ i' = i + 1 /\ w = i /\ Len(calls) = 0 /\ DirectoryVisited[i] = 0
    BY <1>1, <1>4, WalkFacts DEF Visit, InOrder
  <2>2. Fresh(k, w, outer)
    BY <2>1 DEF Fresh
  <2>3. /\ Len(calls') = 1 /\ calls'[1].dir = i /\ ~CycleDiagnosed'
        /\ DirectoryVisited' = [DirectoryVisited EXCEPT ![i] = i]
    BY <1>1, <2>1, <2>2, FreshFacts DEF InOrder
  <2>4. \A j \in Index : DirectoryVisited[j] = IF j < i THEN j ELSE 0
    BY <1>1 DEF InOrder
  <2>5. \A j \in Index : DirectoryVisited'[j] = IF j = i THEN i ELSE DirectoryVisited[j]
    BY <1>1, <2>3
  <2>6. \A j \in Index : j < i' <=> j < i \/ j = i
    BY <1>1, <2>1
  <2>7. \A j \in Index : DirectoryVisited'[j] = IF j < i' THEN j ELSE 0
    BY <2>4, <2>5, <2>6
  <2> QED BY <1>1, <1>2, <2>1, <2>3, <2>7 DEF InOrder
<1> QED BY <1>3, <1>4

LEMMA VisitWalk ==
  ASSUME TypeOK, WalkInv, NEW k, NEW w, NEW outer, Visit(k, w, outer)
  PROVE  WalkInv'
  BY VisitMarks, VisitPaths, VisitSafe, VisitUndiagnosed, VisitInOrder DEF WalkInv
(* The end of a visit.                                                      *)
LEMMA EmitFacts ==
  ASSUME TypeOK, WalkInv, EmitDirectory
  PROVE  /\ Walking /\ Walking' /\ Len(calls) \in 1..Len(calls) /\ Last.dir \in Index
         /\ Last.clist = {} /\ pc = "ordering"
         /\ UNCHANGED <<OriginalDirectories, ConflictGraph, DirectoryVisited, WalkId,
                        CycleDiagnosed, i, pc>>
         /\ Index' = Index /\ Calls' = Calls /\ SafeAsItIs' = SafeAsItIs
         /\ calls' \in Seq(Calls) /\ Len(calls') = Len(calls) - 1
         /\ \A a \in 1..Len(calls') : calls'[a] = calls[a] /\ a \in 1..Len(calls) /\ a # Len(calls)
         /\ \A a \in 1..Len(calls) : a \in 1..Len(calls') \/ a = Len(calls)
         /\ OriginalDirectories[Last.dir] \in Dirs
         /\ OrderedDirectories' = Append(OrderedDirectories, OriginalDirectories[Last.dir])
<1>1. /\ Walking /\ Walking' /\ pc = "ordering" /\ calls # <<>> /\ Last.clist = {}
      /\ calls' = SubSeq(calls, 1, Len(calls) - 1)
      /\ OrderedDirectories' = Append(OrderedDirectories, OriginalDirectories[Last.dir])
      /\ UNCHANGED <<OriginalDirectories, ConflictGraph, DirectoryVisited, WalkId,
                     CycleDiagnosed, i, pc>>
  BY DEF EmitDirectory, Ordering, Walking, graph
<1>2. /\ calls \in Seq(Calls) /\ Len(calls) \in 1..Len(calls) /\ Last.dir \in Index
      /\ OriginalDirectories \in Seq(Dirs)
  BY <1>1, WalkFacts DEF Last
<1>3. /\ calls' \in Seq(Calls) /\ Len(calls) \in Nat \ {0} /\ Len(calls') = Len(calls) - 1
      /\ \A a \in 1..Len(calls') : calls'[a] = calls[a]
  <2> DEFINE t == calls'
  <2>1. t = SubSeq(calls, 1, Len(calls) - 1) /\ calls \in Seq(Calls) /\ calls # <<>>
    BY <1>1, <1>2
  <2>2. Len(calls) \in Nat \ {0}
    BY <2>1, EmptySeq
  <2> HIDE DEF t
  <2>3. /\ t \in Seq(Calls) /\ Len(t) = Len(calls) - 1
        /\ \A a \in 1..Len(t) : t[a] = calls[a]
    BY <2>1, Popped, Zenon
  <2> QED BY <2>2, <2>3 DEF t
<1>4. /\ \A a \in 1..Len(calls') : a \in 1..Len(calls) /\ a # Len(calls)
      /\ \A a \in 1..Len(calls) : a \in 1..Len(calls') \/ a = Len(calls)
  BY <1>3
<1>5. OriginalDirectories[Last.dir] \in Dirs
  BY <1>2, ElementOfSeq DEF Index
<1>6. Index' = Index /\ Calls' = Calls /\ SafeAsItIs' = SafeAsItIs
  BY <1>1 DEF Index, Calls, SafeAsItIs
<1> QED BY <1>1, <1>2, <1>3, <1>4, <1>5, <1>6

LEMMA EmitTypes ==
  ASSUME TypeOK, WalkInv, EmitDirectory
  PROVE  TypeOK'
<1>1. OrderedDirectories' \in Seq(Dirs)
  <2>1. /\ OrderedDirectories \in Seq(Dirs) /\ OriginalDirectories[Last.dir] \in Dirs
        /\ OrderedDirectories' = Append(OrderedDirectories, OriginalDirectories[Last.dir])
    BY EmitFacts, WalkFacts
  <2> QED BY <2>1, AppendProperties
<1>2. ListsOK'
  BY EmitFacts DEF TypeOK, ListsOK, EmitDirectory, input
<1>3. WalkOK'
  BY EmitFacts, <1>1 DEF TypeOK, WalkOK
<1> QED BY <1>2, <1>3 DEF TypeOK

(* One more directory is emitted, and follows the others.                   *)
LEMMA EmitOrder ==
  ASSUME TypeOK, CollectInv, WalkInv, EmitDirectory
  PROVE  /\ \A m \in Index : Emitted(m)' <=> Emitted(m) \/ m = Last.dir
         /\ \A m \in Index : OnStack(m)' <=> OnStack(m) /\ m # Last.dir
         /\ OnStack(Last.dir) /\ ~Emitted(Last.dir)
         /\ \A m, n \in Index : Precedes(m, n) => Precedes(m, n)'
         /\ \A m, n \in Index : Emitted(m) /\ n = Last.dir => Precedes(m, n)'
<1> DEFINE k == Last.dir
           d == OriginalDirectories[k]
           n == Len(OrderedDirectories)
<1>1. /\ k \in Index /\ d \in Dirs /\ OrderedDirectories \in Seq(Dirs) /\ Marks
      /\ OrderedDirectories' = Append(OrderedDirectories, d)
      /\ UNCHANGED OriginalDirectories
      /\ Len(calls) \in 1..Len(calls) /\ calls[Len(calls)].dir = k
  BY EmitFacts, WalkFacts DEF WalkInv, Last
<1>2. OnStack(k)
  BY <1>1 DEF OnStack
<1>3. ~Emitted(k)
  BY <1>1, <1>2 DEF Marks
<1> HIDE DEF k, d
<1>4. \A m \in Index : OriginalDirectories[m] = d <=> m = k
  BY <1>1 DEF CollectInv, Injective, Index, d
<1>5. \A m \in Index : Emitted(m)' <=> Emitted(m) \/ m = k
  <2>1. Range(OrderedDirectories') = Range(OrderedDirectories) \cup {d}
    BY <1>1, RangePushed
  <2> QED BY <1>1, <1>4, <2>1 DEF Emitted
<1>6. \A m \in Index : OnStack(m)' <=> OnStack(m) /\ m # k
  <2>1. /\ \A a \in 1..Len(calls') : calls'[a] = calls[a] /\ a \in 1..Len(calls) /\ a # Len(calls)
        /\ \A a \in 1..Len(calls) : a \in 1..Len(calls') \/ a = Len(calls)
    BY EmitFacts
  <2>2. \A a \in 1..Len(calls') : calls[a].dir # k
    BY <1>1, <2>1 DEF Marks
  <2> QED BY <1>1, <2>1, <2>2 DEF OnStack
<1>7. /\ n \in Nat /\ Len(OrderedDirectories') = n + 1 /\ OrderedDirectories'[n + 1] = d
      /\ \A p \in 1..n : OrderedDirectories'[p] = OrderedDirectories[p]
                       /\ p \in 1..(n + 1) /\ p < n + 1
      /\ n + 1 \in 1..(n + 1)
  <2>1. /\ Len(OrderedDirectories') = n + 1 /\ n \in Nat
        /\ OrderedDirectories'[Len(OrderedDirectories')] = d
        /\ \A p \in 1..n : OrderedDirectories'[p] = OrderedDirectories[p]
    BY <1>1, Pushed
  <2> QED BY <2>1
<1> HIDE DEF n
<1>8. \A m, j \in Index : Precedes(m, j) => Precedes(m, j)'
  BY <1>1, <1>7 DEF Precedes, n
<1>9. \A m, j \in Index : Emitted(m) /\ j = k => Precedes(m, j)'
  <2> SUFFICES ASSUME NEW m \in Index, Emitted(m), NEW j \in Index, j = k PROVE Precedes(m, j)'
    OBVIOUS
  <2>1. PICK p \in 1..n : OrderedDirectories[p] = OriginalDirectories[m]
    BY <1>1, InRange DEF Emitted, n
  <2>2. /\ p \in 1..(n + 1) /\ p < n + 1 /\ OrderedDirectories'[p] = OriginalDirectories'[m]
        /\ OrderedDirectories'[n + 1] = OriginalDirectories'[j]
    BY <1>1, <1>7, <2>1 DEF d
  <2> QED BY <1>7, <2>2 DEF Precedes
<1> QED BY <1>2, <1>3, <1>5, <1>6, <1>8, <1>9 DEF k

LEMMA EmitMarks ==
  ASSUME TypeOK, CollectInv, WalkInv, EmitDirectory
  PROVE  Marks'
<1> DEFINE k == Last.dir
           d == OriginalDirectories[k]
<1>1. /\ k \in Index /\ d \in Dirs /\ OrderedDirectories \in Seq(Dirs) /\ Marks
      /\ OrderedDirectories' = Append(OrderedDirectories, d)
      /\ UNCHANGED <<OriginalDirectories, DirectoryVisited, WalkId, i>> /\ Index' = Index
      /\ \A a \in 1..Len(calls') : calls'[a] = calls[a] /\ a \in 1..Len(calls)
      /\ OriginalDirectories \in Seq(Dirs)
  BY EmitFacts, WalkFacts DEF WalkInv
<1>2. /\ \A m \in Index : Emitted(m)' <=> Emitted(m) \/ m = k
      /\ \A m \in Index : OnStack(m)' <=> OnStack(m) /\ m # k
      /\ OnStack(k) /\ ~Emitted(k)
  BY EmitOrder
<1> HIDE DEF k, d
<1>3. d \in Range(OriginalDirectories) /\ d \notin Range(OrderedDirectories)
  BY <1>1, <1>2, InRange DEF d, Index, Emitted
<1>4. /\ Range(OrderedDirectories)' \subseteq Range(OriginalDirectories)'
      /\ Injective(OrderedDirectories)'
  <2>1. Range(OrderedDirectories') = Range(OrderedDirectories) \cup {d}
    BY <1>1, RangePushed
  <2>2. Injective(OrderedDirectories')
    BY <1>1, <1>3, InjectivePushed DEF Marks
  <2> QED BY <1>1, <1>3, <2>1, <2>2 DEF Marks, Injective
<1> QED BY <1>1, <1>2, <1>4 DEF Marks

LEMMA EmitPaths ==
  ASSUME TypeOK, CollectInv, WalkInv, EmitDirectory
  PROVE  Paths' /\ \A a \in 1..Len(calls') : Seen(a)' = Seen(a)
<1>1. /\ Paths /\ UNCHANGED <<ConflictGraph, DirectoryVisited>>
      /\ \A a \in 1..Len(calls') : calls'[a] = calls[a] /\ a \in 1..Len(calls)
  BY EmitFacts DEF WalkInv
<1>2. \A a \in 1..Len(calls') : Seen(a)' = Seen(a)
  BY <1>1 DEF Seen
<1> QED BY <1>1, <1>2 DEF Paths

LEMMA EmitSafe ==
  ASSUME TypeOK, CollectInv, WalkInv, EmitDirectory
  PROVE  SafeSoFar'
<1> DEFINE k == Last.dir
<1>1. /\ k \in Index /\ Last.clist = {} /\ Index' = Index /\ UNCHANGED ConflictGraph
      /\ Len(calls) \in 1..Len(calls) /\ Walking
      /\ Marks /\ Paths /\ SafeSoFar
      /\ DOMAIN ConflictGraph = Index /\ \A m \in Index : ConflictGraph[m] \subseteq Index
  BY EmitFacts, WalkFacts DEF WalkInv
<1>2. /\ \A m \in Index : Emitted(m)' <=> Emitted(m) \/ m = k
      /\ \A m, n \in Index : Precedes(m, n) => Precedes(m, n)'
      /\ \A m, n \in Index : Emitted(m) /\ n = k => Precedes(m, n)'
  BY EmitOrder
<1>3. ASSUME NEW m \in ConflictGraph[k], ~Emitted(m)
      PROVE  k \in Reach(ConflictGraph, m)
  <2>1. m \in Seen(Len(calls)) /\ m \in Index
    BY <1>1 DEF Seen, Last
  <2>2. PICK a \in 1..Len(calls) : calls[a].dir = m
    BY <1>1, <1>3, <2>1 DEF Paths, Marks, OnStack
  <2>3. CASE a = Len(calls)
    BY <1>1, <2>1, <2>2, <2>3, ReachSteps DEF Last
  <2>4. CASE a < Len(calls)
    BY <1>1, <2>2, <2>4 DEF Paths, Last
  <2> QED BY <1>1, <2>3, <2>4
<1> HIDE DEF k
<1>4. ASSUME NEW j \in Index, Emitted(j)', NEW m \in ConflictGraph[j]
      PROVE  Precedes(m, j)' \/ j \in Reach(ConflictGraph, m)
  <2>1. m \in Index
    BY <1>1
  <2>2. CASE j = k
    BY <1>2, <1>3, <1>4, <2>1, <2>2
  <2>3. CASE Emitted(j)
    BY <1>1, <1>2, <1>4, <2>1, <2>3 DEF SafeSoFar
  <2> QED BY <1>2, <1>4, <2>2, <2>3
<1> QED BY <1>1, <1>4 DEF SafeSoFar

LEMMA EmitUndiagnosed ==
  ASSUME TypeOK, CollectInv, WalkInv, EmitDirectory
  PROVE  Undiagnosed'
<1> DEFINE k == Last.dir
<1>1. /\ k \in Index /\ Last.clist = {} /\ Index' = Index
      /\ UNCHANGED <<ConflictGraph, CycleDiagnosed>> /\ Len(calls') = Len(calls) - 1
      /\ Len(calls) \in 1..Len(calls) /\ Len(calls) \in Nat
      /\ \A a \in 1..Len(calls') : calls'[a] = calls[a] /\ a \in 1..Len(calls) /\ a # Len(calls)
      /\ \A a \in 1..Len(calls) : calls[a].dir \in Index
      /\ \A m \in Index : ConflictGraph[m] \subseteq Index
  BY EmitFacts, WalkFacts
<1>2. /\ \A m \in Index : Emitted(m)' <=> Emitted(m) \/ m = k
      /\ \A m, n \in Index : Precedes(m, n) => Precedes(m, n)'
      /\ \A m, n \in Index : Emitted(m) /\ n = k => Precedes(m, n)'
  BY EmitOrder
<1>3. Walking /\ Undiagnosed /\ \A a \in 1..Len(calls') : Seen(a)' = Seen(a)
  BY EmitFacts, EmitPaths DEF WalkInv
<1> SUFFICES ASSUME ~CycleDiagnosed
             PROVE  /\ \A j \in Index : Emitted(j)' => \A m \in ConflictGraph[j] : Precedes(m, j)'
                    /\ \A a \in 1..Len(calls') : \A m \in Seen(a) :
                         Emitted(m)' \/ (a < Len(calls') /\ calls'[a + 1].dir = m)
  BY <1>1, <1>3 DEF Undiagnosed
<1>4. \A m \in ConflictGraph[k] : Emitted(m)
  <2>1. Seen(Len(calls)) = ConflictGraph[k]
    BY <1>1 DEF Seen, Last
  <2> QED BY <1>1, <1>3, <2>1 DEF Undiagnosed
<1>5. calls[Len(calls)].dir = k
  BY DEF Last
<1> HIDE DEF k
<1>6. \A j \in Index : Emitted(j)' => \A m \in ConflictGraph[j] : Precedes(m, j)'
  <2> SUFFICES ASSUME NEW j \in Index, Emitted(j)', NEW m \in ConflictGraph[j]
               PROVE  Precedes(m, j)'
    OBVIOUS
  <2>1. m \in Index
    BY <1>1
  <2>2. CASE j = k
    BY <1>2, <1>4, <2>1, <2>2
  <2>3. CASE Emitted(j)
    BY <1>2, <1>3, <2>1, <2>3 DEF Undiagnosed
  <2> QED BY <1>2, <2>2, <2>3
<1>7. \A a \in 1..Len(calls') : \A m \in Seen(a) :
        Emitted(m)' \/ (a < Len(calls') /\ calls'[a + 1].dir = m)
  <2> SUFFICES ASSUME NEW a \in 1..Len(calls'), NEW m \in Seen(a)
               PROVE  Emitted(m)' \/ (a < Len(calls') /\ calls'[a + 1].dir = m)
    OBVIOUS
  <2>1. m \in Index /\ a \in 1..Len(calls) /\ a < Len(calls)
    BY <1>1 DEF Seen
  <2>2. CASE Emitted(m)
    BY <1>2, <2>1, <2>2
  <2>3. CASE calls[a + 1].dir = m
    <3>1. CASE a + 1 = Len(calls)
      BY <1>2, <1>5, <2>1, <2>3, <3>1
    <3>2. CASE a + 1 # Len(calls)
      <4>1. a < Len(calls') /\ a + 1 \in 1..Len(calls')
        BY <1>1, <2>1, <3>2
      <4> QED BY <1>1, <2>3, <4>1
    <3> QED BY <3>1, <3>2
  <2> QED BY <1>3, <2>1, <2>2, <2>3 DEF Undiagnosed
<1> QED BY <1>6, <1>7

LEMMA EmitInOrder ==
  ASSUME TypeOK, CollectInv, WalkInv, EmitDirectory
  PROVE  InOrder'
<1> SUFFICES ASSUME SafeAsItIs PROVE InOrder'
  BY EmitFacts DEF InOrder
<1> DEFINE n == Len(OrderedDirectories)
<1>0. InOrder /\ i \in Nat /\ OrderedDirectories \in Seq(Dirs) /\ n \in Nat /\ Len(calls) \in Nat
  <2>1. Walking
    BY EmitFacts
  <2> QED BY <2>1, WalkFacts DEF WalkInv
<1>1. /\ Len(calls) \in 1..Len(calls) /\ Len(calls') = Len(calls) - 1 /\ InOrder /\ i \in Nat
      /\ UNCHANGED <<CycleDiagnosed, i, OriginalDirectories, DirectoryVisited>> /\ Index' = Index
      /\ OrderedDirectories \in Seq(Dirs) /\ n \in Nat /\ Len(calls) \in Nat
      /\ OrderedDirectories' = Append(OrderedDirectories, OriginalDirectories[Last.dir])
      /\ OriginalDirectories[Last.dir] \in Dirs
      /\ calls' \in Seq(Calls) /\ calls # <<>>
  BY <1>0, EmitFacts DEF EmitDirectory
<1>2. Len(calls) = 1 /\ Last.dir = i - 1 /\ n = i - 2
  BY <1>1 DEF InOrder, Last
<1>3. /\ Len(OrderedDirectories') = n + 1
      /\ OrderedDirectories'[n + 1] = OriginalDirectories[i - 1]
      /\ \A p \in 1..n : OrderedDirectories'[p] = OrderedDirectories[p]
  <2>1. /\ Len(OrderedDirectories') = n + 1
        /\ OrderedDirectories'[Len(OrderedDirectories')] = OriginalDirectories[Last.dir]
        /\ \A p \in 1..n : OrderedDirectories'[p] = OrderedDirectories[p]
    BY <1>1, Pushed
  <2> QED BY <1>2, <2>1
<1>4. \A p \in 1..Len(OrderedDirectories') : OrderedDirectories'[p] = OriginalDirectories[p]
  <2>1. \A p \in 1..(n + 1) : p \in 1..n \/ p = n + 1
    BY <1>1
  <2>2. \A p \in 1..n : OrderedDirectories'[p] = OriginalDirectories[p]
    BY <1>1, <1>3 DEF InOrder
  <2> QED BY <1>1, <1>2, <1>3, <2>1, <2>2
<1>5. calls' = <<>> /\ Len(calls') = 0
  BY <1>1, <1>2
<1>6. Len(OrderedDirectories') + Len(calls') = i - 1
  BY <1>1, <1>2, <1>3, <1>5
<1>7. ~CycleDiagnosed /\ \A j \in Index : DirectoryVisited[j] = IF j < i THEN j ELSE 0
  BY <1>1 DEF InOrder
<1> HIDE DEF n
<1> QED BY <1>1, <1>4, <1>5, <1>6, <1>7 DEF InOrder

LEMMA EmitWalk ==
  ASSUME TypeOK, CollectInv, WalkInv, EmitDirectory
  PROVE  WalkInv'
  BY EmitMarks, EmitPaths, EmitSafe, EmitUndiagnosed, EmitInOrder DEF WalkInv
---------------------------------------------------------------------------
(* The inductive invariant.                                                 *)
Inv == TypeOK /\ CollectInv /\ WalkInv

LEMMA InitInv == Init => Inv
<1>1. Init => ~Walking
  BY DEF Init, Walking
<1> QED BY <1>1, InitCollect DEF Inv, WalkInv

LEMMA WalkingCollect ==
  ASSUME CollectInv, Walking, Walking', UNCHANGED <<input, graph>>
  PROVE  CollectInv'
<1>1. /\ UNCHANGED <<OriginalDirectories, ConflictGraph, ConstraintEntries, ImplicitDirectories>>
      /\ Index' = Index
      /\ \A k : ConflictsOf(k)' = ConflictsOf(k)
  BY DEF input, graph, Index, ConflictsOf
<1>2. Same
  BY SameInputs
<1>3. pc' \notin {"adding", "user", "constraints"}
  BY DEF Walking
<1> QED BY <1>1, <1>2, <1>3 DEF CollectInv, Same, Injective

LEMMA AllVisitedInv ==
  ASSUME Inv, AllVisited
  PROVE  Inv'
<1>1. /\ Walking /\ Walking' /\ UNCHANGED <<input, graph, walk>> /\ pc' = "done"
      /\ calls = <<>> /\ i > Len(OriginalDirectories)
  BY DEF AllVisited, Ordering, Walking
<1>2. TypeOK'
  BY <1>1 DEF Inv, TypeOK, ListsOK, WalkOK, input, graph, walk, Index, Calls
<1>3. CollectInv'
  BY <1>1, WalkingCollect DEF Inv
<1>4. UNCHANGED <<OriginalDirectories, ConflictGraph, DirectoryVisited, WalkId, CycleDiagnosed,
                  OrderedDirectories, calls, i>>
  BY <1>1 DEF graph, walk
<1>5. /\ \A k : OnStack(k)' = OnStack(k) /\ Emitted(k)' = Emitted(k) /\ Seen(k)' = Seen(k)
      /\ \A m, k : Precedes(m, k)' = Precedes(m, k)
      /\ Index' = Index /\ SafeAsItIs' = SafeAsItIs
  BY <1>4 DEF OnStack, Emitted, Seen, Precedes, Index, SafeAsItIs
<1>6. Marks' /\ Paths' /\ SafeSoFar' /\ Undiagnosed' /\ InOrder'
  BY <1>1, <1>4, <1>5 DEF Inv, WalkInv, Marks, Paths, SafeSoFar, Undiagnosed, InOrder, Injective
<1> QED BY <1>2, <1>3, <1>6 DEF Inv, WalkInv

LEMMA NextInv == Inv /\ [Next]_vars => Inv'
<1> SUFFICES ASSUME Inv, [Next]_vars PROVE Inv'
  OBVIOUS
<1>1. TypeOK /\ CollectInv /\ WalkInv
  BY DEF Inv
<1>2. ASSUME NEW kind \in Kinds, NEW l \in Libraries, AddLibrary(kind, l) PROVE Inv'
  <2>1. ~Walking'
    BY <1>2 DEF AddLibrary, Walking
  <2>2. TypeOK' /\ CollectInv'
    BY <1>1, <1>2, AddLibraryCollect
  <2> QED BY <2>1, <2>2 DEF Inv, WalkInv
<1>3. CASE Collect
  <2>1. ~Walking'
    BY <1>3 DEF Collect, Walking
  <2> QED BY <1>1, <1>3, <2>1, CollectCollect DEF Inv, WalkInv
<1>4. CASE CollectUserDirectory
  <2>1. ~Walking'
    BY <1>4 DEF CollectUserDirectory, Walking
  <2> QED BY <1>1, <1>4, <2>1, UserCollect DEF Inv, WalkInv
<1>5. CASE UserCollected
  <2>1. ~Walking'
    BY <1>5 DEF UserCollected, Walking
  <2> QED BY <1>1, <1>5, <2>1, UserCollectedCollect DEF Inv, WalkInv
<1>6. CASE CollectConstraintDirectory
  <2>1. ~Walking'
    BY <1>6 DEF CollectConstraintDirectory, Walking
  <2> QED BY <1>1, <1>6, <2>1, ConstraintCollect DEF Inv, WalkInv
<1>7. CASE FindConflicts
  BY <1>1, <1>7, ConflictsCollect, ConflictsWalk DEF Inv
<1>8. ASSUME NEW k, NEW w, NEW outer, Visit(k, w, outer) PROVE Inv'
  <2>1. Walking /\ Walking' /\ UNCHANGED <<input, graph>>
    BY <1>1, <1>8, VisitTypes DEF Visit
  <2> QED BY <1>1, <1>8, <2>1, VisitTypes, VisitWalk, WalkingCollect DEF Inv
<1>9. CASE StartWalk
  BY <1>1, <1>8, <1>9, StartIsVisit
<1>10. CASE VisitNeighbor
  BY <1>1, <1>8, <1>10, NeighborIsVisit
<1>11. CASE EmitDirectory
  <2>1. Walking /\ Walking' /\ UNCHANGED <<input, graph>>
    BY <1>1, <1>11, EmitFacts DEF EmitDirectory
  <2> QED BY <1>1, <1>11, <2>1, EmitTypes, EmitWalk, WalkingCollect DEF Inv
<1>12. CASE AllVisited
  BY <1>12, AllVisitedInv DEF Inv
<1>13. CASE UNCHANGED vars
  <2>1. UNCHANGED <<UserDirectories, ImplicitDirectories, Emmitted, ConstraintEntries,
                    OriginalDirectories, ConflictGraph, DirectoryVisited, WalkId, CycleDiagnosed,
                    OrderedDirectories, calls, i, pc>>
    BY <1>13 DEF vars, input, graph, walk
  <2>2. TypeOK'
    BY <1>1, <2>1 DEF TypeOK, ListsOK, WalkOK, Index, Calls, Walking
  <2>3. CollectInv'
    BY <1>1, <2>1 DEF CollectInv, OfEntries, OfUser, OfLibraries, Index, ConflictsOf, Walking,
                      Injective
  <2>4. WalkInv'
    <3>1. /\ \A k : OnStack(k)' = OnStack(k) /\ Emitted(k)' = Emitted(k) /\ Seen(k)' = Seen(k)
          /\ \A m, k : Precedes(m, k)' = Precedes(m, k)
          /\ Index' = Index /\ SafeAsItIs' = SafeAsItIs /\ Walking' = Walking
      BY <2>1 DEF OnStack, Emitted, Seen, Precedes, Index, SafeAsItIs, Walking
    <3> QED BY <1>1, <2>1, <3>1
            DEF WalkInv, Marks, Paths, SafeSoFar, Undiagnosed, InOrder, Injective
  <2> QED BY <2>2, <2>3, <2>4 DEF Inv
<1> QED BY <1>2, <1>3, <1>4, <1>5, <1>6, <1>7, <1>9, <1>10, <1>11, <1>12, <1>13
        DEF Next, GetOrderedDirectories

LEMMA Invariance == Spec => []Inv
  BY InitInv, NextInv, PTL DEF Spec

---------------------------------------------------------------------------
(* The lists, the graph, the marks and the stack keep their types.          *)
THEOREM TypeCorrect == Spec => []TypeOK
<1>1. Inv => TypeOK
  BY DEF Inv
<1> QED BY <1>1, Invariance, PTL

(* What has been found out when the last walk has ended.                    *)
LEMMA DoneFacts ==
  ASSUME Inv, pc = "done"
  PROVE  /\ Walking /\ calls = <<>>
         /\ OriginalDirectories \in Seq(Dirs) /\ OrderedDirectories \in Seq(Dirs)
         /\ Injective(OriginalDirectories) /\ Injective(OrderedDirectories)
         /\ \A k \in Index : Emitted(k)
         /\ Range(OrderedDirectories) = Range(OriginalDirectories)
         /\ DOMAIN ConflictGraph = Index /\ \A k \in Index : ConflictGraph[k] \subseteq Index
         /\ ConflictGraph = [k \in Index |-> ConflictsOf(k)]
<1>1. /\ Walking /\ calls = <<>> /\ i > Len(OriginalDirectories)
      /\ TypeOK /\ WalkInv /\ CollectInv /\ Marks
  BY DEF Inv, TypeOK, WalkOK, Walking, WalkInv
<1>2. /\ OriginalDirectories \in Seq(Dirs) /\ OrderedDirectories \in Seq(Dirs)
      /\ Len(OriginalDirectories) \in Nat /\ Len(calls) = 0 /\ i \in Nat
      /\ DOMAIN ConflictGraph = Index /\ \A k \in Index : ConflictGraph[k] \subseteq Index
  BY <1>1, WalkFacts
<1>3. \A k \in Index : k < i
  BY <1>1, <1>2 DEF Index
<1>4. \A k \in Index : Emitted(k)
  BY <1>1, <1>2, <1>3 DEF Marks, OnStack
<1>5. Range(OriginalDirectories) \subseteq Range(OrderedDirectories)
  BY <1>2, <1>4, InRange DEF Emitted, Index
<1> QED BY <1>1, <1>2, <1>4, <1>5 DEF CollectInv, Marks

(* The constraints are the edges of the conflict graph.                     *)
LEMMA ConstraintIsEdge ==
  ASSUME Inv, pc = "done"
  PROVE  /\ \A c \in Constraints :
              /\ At(c[1]) \in Index /\ OriginalDirectories[At(c[1])] = c[1]
              /\ At(c[2]) \in Index /\ OriginalDirectories[At(c[2])] = c[2]
              /\ At(c[1]) \in ConflictGraph[At(c[2])]
         /\ \A k \in Index : \A m \in ConflictGraph[k] :
              \E c \in Constraints : At(c[1]) = m /\ At(c[2]) = k
<1>1. /\ OriginalDirectories \in Seq(Dirs) /\ Injective(OriginalDirectories)
      /\ ConflictGraph = [k \in Index |-> ConflictsOf(k)]
  BY DoneFacts
<1>2. \A k \in Index : At(OriginalDirectories[k]) = k
  BY <1>1, PositionIs DEF At, Index
<1>3. \A d \in Range(OriginalDirectories) :
        At(d) \in Index /\ OriginalDirectories[At(d)] = d
  <2>1. \A d \in Range(OriginalDirectories) : \E k \in Index : OriginalDirectories[k] = d
    BY <1>1, InRange DEF Index
  <2> QED BY <1>2, <2>1
<1>4. \A l \in Range(ConstraintEntries) : l.directory \in Range(OriginalDirectories)
  <2>1. /\ OfEntries(Len(ConstraintEntries)) \subseteq Range(OriginalDirectories)
        /\ ConstraintEntries \in Seq(Libraries)
    BY DoneFacts DEF Inv, CollectInv, TypeOK, ListsOK
  <2> QED BY <2>1, InRange DEF OfEntries
<1>5. ASSUME NEW c \in Constraints
      PROVE  /\ At(c[1]) \in Index /\ OriginalDirectories[At(c[1])] = c[1]
             /\ At(c[2]) \in Index /\ OriginalDirectories[At(c[2])] = c[2]
             /\ At(c[1]) \in ConflictGraph[At(c[2])]
  <2>1. PICK l \in Range(ConstraintEntries) :
          c[1] = l.directory /\ c[2] \in l.conflicts /\ c[2] \in Range(OriginalDirectories)
    BY DEF Constraints
  <2>2. /\ At(c[1]) \in Index /\ OriginalDirectories[At(c[1])] = c[1]
        /\ At(c[2]) \in Index /\ OriginalDirectories[At(c[2])] = c[2]
    BY <1>3, <1>4, <2>1
  <2>3. At(c[1]) \in ConflictsOf(At(c[2]))
    BY <2>1, <2>2 DEF ConflictsOf, Index
  <2> QED BY <1>1, <2>2, <2>3
<1>6. ASSUME NEW k \in Index, NEW m \in ConflictGraph[k]
      PROVE  \E c \in Constraints : At(c[1]) = m /\ At(c[2]) = k
  <2>1. m \in Index /\ m \in ConflictsOf(k)
    BY <1>1 DEF ConflictsOf, Index
  <2>2. PICK l \in Range(ConstraintEntries) :
          l.directory = OriginalDirectories[m] /\ OriginalDirectories[k] \in l.conflicts
    BY <2>1 DEF ConflictsOf
  <2>3. OriginalDirectories[k] \in Range(OriginalDirectories)
    BY <1>1, InRange DEF Index
  <2>4. <<OriginalDirectories[m], OriginalDirectories[k]>> \in Constraints
    BY <2>2, <2>3 DEF Constraints
  <2> QED BY <1>2, <2>1, <2>4
<1> QED BY <1>5, <1>6
(* Every library is found in its own directory, unless its constraint is    *)
(* part of a cycle, and the search path is complete, for any libraries.     *)
THEOREM OrderIsSafe == Spec => []SafeOrder
<1>1. ASSUME Inv, pc = "done"
      PROVE  /\ Range(OrderedDirectories)
                  = (Range(UserDirectories) \cup OfLibraries) \ ImplicitDirectories
             /\ Injective(OrderedDirectories)
             /\ \A c \in Constraints :
                  \/ Position(OrderedDirectories, c[1]) < Position(OrderedDirectories, c[2])
                  \/ At(c[2]) \in Before!Reachable(At(c[1]))
  <2>1. /\ Walking /\ OrderedDirectories \in Seq(Dirs) /\ Injective(OrderedDirectories)
        /\ \A k \in Index : Emitted(k)
        /\ Range(OrderedDirectories) = Range(OriginalDirectories)
    BY <1>1, DoneFacts
  <2>2. Range(OriginalDirectories) = (Range(UserDirectories) \cup OfLibraries) \ ImplicitDirectories
    <3>1. OfUser(Len(UserDirectories)) = Range(UserDirectories) \ ImplicitDirectories
      <4>1. UserDirectories \in Seq(Dirs)
        BY <1>1 DEF Inv, TypeOK, ListsOK
      <4> QED BY <4>1, InRange DEF OfUser
    <3> QED BY <1>1, <2>1, <3>1 DEF Inv, CollectInv
  <2>3. ASSUME NEW c \in Constraints
        PROVE  \/ Position(OrderedDirectories, c[1]) < Position(OrderedDirectories, c[2])
               \/ At(c[2]) \in Before!Reachable(At(c[1]))
    <3> DEFINE m == At(c[1])
               k == At(c[2])
    <3>1. /\ m \in Index /\ OriginalDirectories[m] = c[1]
          /\ k \in Index /\ OriginalDirectories[k] = c[2] /\ m \in ConflictGraph[k]
      BY <1>1, ConstraintIsEdge
    <3> HIDE DEF m, k
    <3>2. Precedes(m, k) \/ k \in Reach(ConflictGraph, m)
      BY <1>1, <2>1, <3>1 DEF Inv, WalkInv, SafeSoFar
    <3>3. CASE Precedes(m, k)
      <4>1. PICK p, q \in 1..Len(OrderedDirectories) :
              p < q /\ OrderedDirectories[p] = c[1] /\ OrderedDirectories[q] = c[2]
        BY <3>1, <3>3 DEF Precedes
      <4>2. Position(OrderedDirectories, c[1]) = p /\ Position(OrderedDirectories, c[2]) = q
        BY <2>1, <4>1, PositionIs
      <4> QED BY <4>1, <4>2
    <3>4. CASE k \in Reach(ConflictGraph, m)
      BY <3>4, ReachIs DEF m, k
    <3> QED BY <3>2, <3>3, <3>4
  <2> QED BY <2>1, <2>2, <2>3
<1>2. Inv => SafeOrder
  BY <1>1 DEF SafeOrder, OfLibraries, Injective
<1> QED BY <1>2, Invariance, PTL

(* An order that is safe as it is stays, without a diagnosis, for any       *)
(* directories.                                                             *)
THEOREM SafeOrderStays == Spec => []KeepsSafeOrder
<1>1. ASSUME Inv, pc = "done", \A c \in Constraints : At(c[1]) < At(c[2])
      PROVE  OrderedDirectories = OriginalDirectories /\ ~CycleDiagnosed
  <2>1. SafeAsItIs
    BY <1>1, ConstraintIsEdge DEF SafeAsItIs
  <2>2. /\ Walking /\ calls = <<>> /\ OriginalDirectories \in Seq(Dirs)
        /\ OrderedDirectories \in Seq(Dirs)
    BY <1>1, DoneFacts
  <2>3. i = Len(OriginalDirectories) + 1 /\ Len(calls) = 0
        /\ Len(OriginalDirectories) \in Nat /\ Len(OrderedDirectories) \in Nat
    BY <1>1, <2>2, EmptySeq DEF Inv, TypeOK, ListsOK, WalkOK
  <2>4. /\ ~CycleDiagnosed /\ Len(OrderedDirectories) + Len(calls) = i - 1
        /\ \A p \in 1..Len(OrderedDirectories) : OrderedDirectories[p] = OriginalDirectories[p]
    BY <1>1, <2>1, <2>2 DEF Inv, WalkInv, InOrder
  <2>5. Len(OrderedDirectories) = Len(OriginalDirectories)
    BY <2>3, <2>4
  <2> QED BY <2>2, <2>4, <2>5, SeqEqual
<1>2. Inv => KeepsSafeOrder
  BY <1>1 DEF KeepsSafeOrder
<1> QED BY <1>2, Invariance, PTL

(* No cycle goes unnoticed, whatever the conflicts are.                     *)
THEOREM EveryCycleDiagnosed == Spec => []CyclesDiagnosed
<1>1. ASSUME Inv, pc = "done", ~CycleDiagnosed
      PROVE  Before!Acyclic
  <2>1. /\ Walking /\ \A k \in Index : Emitted(k)
        /\ OriginalDirectories \in Seq(Dirs) /\ OrderedDirectories \in Seq(Dirs)
        /\ Injective(OriginalDirectories) /\ Injective(OrderedDirectories)
        /\ DOMAIN ConflictGraph = Index /\ \A k \in Index : ConflictGraph[k] \subseteq Index
    BY <1>1, DoneFacts
  <2>2. \A k \in Index : \A m \in ConflictGraph[k] : Precedes(m, k)
    BY <1>1, <2>1 DEF Inv, WalkInv, Undiagnosed
  <2>3. Len(OrderedDirectories) \in Nat
    BY <2>1
  <2>4. \A m, n : ~(Precedes(m, n) /\ Precedes(n, m))
    BY <2>1, <2>3 DEF Precedes, Injective
  <2>5. \A m, n, o : Precedes(m, n) /\ Precedes(n, o) => Precedes(m, o)
    <3> SUFFICES ASSUME NEW m, NEW n, NEW o, Precedes(m, n), Precedes(n, o) PROVE Precedes(m, o)
      OBVIOUS
    <3>1. PICK p, q \in 1..Len(OrderedDirectories) :
            /\ p < q /\ OrderedDirectories[p] = OriginalDirectories[m]
            /\ OrderedDirectories[q] = OriginalDirectories[n]
      BY DEF Precedes
    <3>2. PICK r, t \in 1..Len(OrderedDirectories) :
            /\ r < t /\ OrderedDirectories[r] = OriginalDirectories[n]
            /\ OrderedDirectories[t] = OriginalDirectories[o]
      BY DEF Precedes
    <3>3. q = r
      BY <2>1, <3>1, <3>2 DEF Injective
    <3>4. p < t
      BY <2>3, <3>1, <3>2, <3>3
    <3> QED BY <3>1, <3>2, <3>4 DEF Precedes
  <2>6. ASSUME NEW n \in Index, NEW m \in Reach(ConflictGraph, n)
        PROVE  m = n \/ Precedes(m, n)
    <3> DEFINE S == {j \in Index : j = n \/ Precedes(j, n)}
    <3>1. S \subseteq DOMAIN ConflictGraph /\ n \in S
      BY <2>1
    <3>2. \A x \in S : ConflictGraph[x] \subseteq S
      BY <2>1, <2>2, <2>5
    <3>3. m \in S
      BY <2>6, <3>1, <3>2 DEF Reach
    <3> QED BY <3>3
  <2>7. \A n \in Index : n \notin ConflictGraph[n]
    BY <2>2, <2>4
  <2>8. ASSUME NEW n \in Index PROVE Before!Component(n) = {n}
    <3>1. n \in Reach(ConflictGraph, n) /\ Reach(ConflictGraph, n) \subseteq Index
      BY <2>1, ReachSteps DEF Reach
    <3>2. \A m \in Reach(ConflictGraph, n) : n \in Reach(ConflictGraph, m) => m = n
      BY <2>4, <2>6, <3>1
    <3>3. Before!Component(n)
            = {m \in Reach(ConflictGraph, n) : n \in Reach(ConflictGraph, m)}
      BY ReachIs DEF Before!Component
    <3> QED BY <3>1, <3>2, <3>3
  <2> QED BY <2>1, <2>7, <2>8 DEF Before!Acyclic, Before!Nodes
<1>2. Inv => CyclesDiagnosed
  BY <1>1 DEF CyclesDiagnosed
<1> QED BY <1>2, Invariance, PTL
=============================================================================
