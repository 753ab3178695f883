-------------------------- MODULE OrderDirectories --------------------------
(***************************************************************************)
(* cmOrderDirectories: the order of the directories in which the linker,   *)
(* or the dynamic linker, looks for libraries.  A library has to be found  *)
(* in its own directory, which therefore has to come before every other    *)
(* directory in which the search would find a file instead.                *)
(*                                                                         *)
(* A library is the directory it is in and the set of directories with a   *)
(* file that conflicts with it, which the code learns from the file system *)
(* and from the names of the files that targets will build.  Directories   *)
(* are numbered from 1 here, from 0 in the code.                           *)
(***************************************************************************)
EXTENDS Naturals, Sequences, FiniteSets, Functions

CONSTANTS Dirs,
          UserLists,     \* the lists of directories a user may give
          ImplicitSets,  \* the sets of directories searched in any case
          Kinds,         \* of constraints: "SOName", "Library"
          MaxLibraries   \* how many are added

ASSUME InputAssumption == UserLists \subseteq Seq(Dirs) /\ ImplicitSets \subseteq SUBSET Dirs

Libraries == {l \in [directory : Dirs, conflicts : SUBSET Dirs] : l.directory \notin l.conflicts}

VARIABLES
  UserDirectories, ImplicitDirectories,
  Emmitted,              \* EmmittedConstraintSOName and EmmittedConstraintLibrary
  ConstraintEntries,     \* the libraries with a constraint
  OriginalDirectories,
  ConflictGraph,         \* for each directory the indices of those that come before it
  DirectoryVisited,      \* the walk that has reached the directory, or 0
  WalkId,
  CycleDiagnosed,
  OrderedDirectories,
  calls,                 \* the calls of VisitDirectory, innermost last
  i,                     \* the element the loop in progress takes next
  pc                     \* what GetOrderedDirectories is doing

input == <<UserDirectories, ImplicitDirectories, Emmitted, ConstraintEntries>>
graph == <<OriginalDirectories, ConflictGraph>>
walk == <<DirectoryVisited, WalkId, CycleDiagnosed, OrderedDirectories, calls, i>>
vars == <<input, graph, walk, pc>>

Init ==
  /\ UserDirectories \in UserLists
  /\ ImplicitDirectories \in ImplicitSets
  /\ Emmitted = {}
  /\ ConstraintEntries = <<>>
  /\ OriginalDirectories = <<>>
  /\ ConflictGraph = <<>>
  /\ DirectoryVisited = <<>>
  /\ WalkId = 0
  /\ CycleDiagnosed = FALSE
  /\ OrderedDirectories = <<>>
  /\ calls = <<>>
  /\ i = 1
  /\ pc = "adding"

-----------------------------------------------------------------------------
\* AddRuntimeLibrary and AddLinkLibrary: a library is added at most once, and
\* not if it is in an implicit directory.
AddLibrary(kind, l) ==
  /\ pc = "adding"
  /\ Cardinality(Emmitted) < MaxLibraries
  /\ Emmitted' = Emmitted \cup {<<kind, l>>}
  /\ ConstraintEntries' =
       IF <<kind, l>> \in Emmitted \/ l.directory \in ImplicitDirectories
       THEN ConstraintEntries ELSE Append(ConstraintEntries, l)
  /\ UNCHANGED <<UserDirectories, ImplicitDirectories, graph, walk, pc>>

Collect == pc' = "user" /\ pc = "adding" /\ UNCHANGED <<input, graph, walk>>

AddOriginalDirectory(d) ==
  OriginalDirectories' = IF d \in Range(OriginalDirectories) THEN OriginalDirectories
                         ELSE Append(OriginalDirectories, d)

\* The user's directories come first.
CollectUserDirectory ==
  /\ pc = "user" /\ i <= Len(UserDirectories)
  /\ IF UserDirectories[i] \in ImplicitDirectories THEN UNCHANGED OriginalDirectories
     ELSE AddOriginalDirectory(UserDirectories[i])
  /\ i' = i + 1
  /\ UNCHANGED <<input, ConflictGraph, DirectoryVisited, WalkId, CycleDiagnosed,
                 OrderedDirectories, calls, pc>>

UserCollected ==
  /\ pc = "user" /\ i > Len(UserDirectories)
  /\ i' = 1 /\ pc' = "constraints"
  /\ UNCHANGED <<input, graph, DirectoryVisited, WalkId, CycleDiagnosed,
                 OrderedDirectories, calls>>

CollectConstraintDirectory ==
  /\ pc = "constraints" /\ i <= Len(ConstraintEntries)
  /\ AddOriginalDirectory(ConstraintEntries[i].directory)
  /\ i' = i + 1
  /\ UNCHANGED <<input, ConflictGraph, DirectoryVisited, WalkId, CycleDiagnosed,
                 OrderedDirectories, calls, pc>>

\* Mistake: the edges go the other way.
ConflictsOf_After(k) ==
  {m \in 1..Len(OriginalDirectories) :
     \E l \in Range(ConstraintEntries) : /\ l.directory = OriginalDirectories[k]
                                       /\ OriginalDirectories[m] \in l.conflicts}

\* The directories that a conflict puts before the one at index k: a list in
\* the code, which FindConflicts sorts and makes unique.
ConflictsOf(k) ==
  {m \in 1..Len(OriginalDirectories) :
     \E l \in Range(ConstraintEntries) : /\ l.directory = OriginalDirectories[m]
                                       /\ OriginalDirectories[k] \in l.conflicts}

FindConflicts ==
  /\ pc = "constraints" /\ i > Len(ConstraintEntries)
  /\ ConflictGraph' = [k \in 1..Len(OriginalDirectories) |-> ConflictsOf(k)]
  /\ DirectoryVisited' = [k \in 1..Len(OriginalDirectories) |-> 0]
  /\ i' = 1 /\ pc' = "ordering"
  /\ UNCHANGED <<input, OriginalDirectories, WalkId, CycleDiagnosed, OrderedDirectories, calls>>

-----------------------------------------------------------------------------
Ordering == pc = "ordering"
Walking == pc \in {"ordering", "done"}

\* Mistake: any directory that has been visited stops the ordering of the
\* neighbors that follow it.
VisitDirectory_Stops(k, w, outer) ==
  /\ CycleDiagnosed' = (CycleDiagnosed \/ DirectoryVisited[k] = w)
  /\ IF DirectoryVisited[k] > 0
     THEN calls' = [a \in DOMAIN outer |->
                      IF a = Len(outer) THEN [outer[a] EXCEPT !.clist = {}] ELSE outer[a]]
     ELSE calls' = Append(outer, [dir |-> k, clist |-> ConflictGraph[k]])
  /\ DirectoryVisited' =
       IF DirectoryVisited[k] > 0 THEN DirectoryVisited ELSE [DirectoryVisited EXCEPT ![k] = w]

\* A call of VisitDirectory(k) in walk w; outer are the calls it returns to.
VisitDirectory(k, w, outer) ==
  /\ CycleDiagnosed' = (CycleDiagnosed \/ DirectoryVisited[k] = w)
  /\ IF DirectoryVisited[k] > 0
     THEN calls' = outer /\ UNCHANGED DirectoryVisited
     ELSE /\ DirectoryVisited' = [DirectoryVisited EXCEPT ![k] = w]
          /\ calls' = Append(outer, [dir |-> k, clist |-> ConflictGraph[k]])

\* Mistake: the cycle flag is cleared for every walk.
StartWalk_ClearsCycle ==
  /\ Ordering /\ calls = <<>> /\ i <= Len(OriginalDirectories)
  /\ WalkId' = WalkId + 1
  /\ CycleDiagnosed' = FALSE
  /\ IF DirectoryVisited[i] > 0
     THEN UNCHANGED <<DirectoryVisited, calls>>
     ELSE /\ DirectoryVisited' = [DirectoryVisited EXCEPT ![i] = WalkId + 1]
          /\ calls' = <<[dir |-> i, clist |-> ConflictGraph[i]]>>
  /\ i' = i + 1
  /\ UNCHANGED <<input, graph, OrderedDirectories, pc>>

StartWalk ==
  /\ Ordering /\ calls = <<>> /\ i <= Len(OriginalDirectories)
  /\ WalkId' = WalkId + 1
  /\ VisitDirectory(i, WalkId + 1, <<>>)
  /\ i' = i + 1
  /\ UNCHANGED <<input, graph, OrderedDirectories, pc>>

Last == calls[Len(calls)]

\* The neighbors are visited in the original order.
VisitNeighbor ==
  /\ Ordering /\ calls # <<>>
  /\ \E m \in Last.clist :
       /\ \A n \in Last.clist : m <= n
       /\ VisitDirectory(m, WalkId, [calls EXCEPT ![Len(calls)].clist = @ \ {m}])
  /\ UNCHANGED <<input, graph, WalkId, OrderedDirectories, i, pc>>

EmitDirectory ==
  /\ Ordering /\ calls # <<>> /\ Last.clist = {}
  /\ OrderedDirectories' = Append(OrderedDirectories, OriginalDirectories[Last.dir])
  /\ calls' = SubSeq(calls, 1, Len(calls) - 1)
  /\ UNCHANGED <<input, graph, DirectoryVisited, WalkId, CycleDiagnosed, i, pc>>

AllVisited ==
  /\ Ordering /\ calls = <<>> /\ i > Len(OriginalDirectories)
  /\ pc' = "done"
  /\ UNCHANGED <<input, graph, walk>>

GetOrderedDirectories ==
  \/ Collect \/ CollectUserDirectory \/ UserCollected \/ CollectConstraintDirectory
  \/ FindConflicts
  \/ StartWalk \/ VisitNeighbor \/ EmitDirectory \/ AllVisited

Next ==
  \/ \E kind \in Kinds, l \in Libraries : AddLibrary(kind, l)
  \/ GetOrderedDirectories

Spec == Init /\ [][Next]_vars

-----------------------------------------------------------------------------
(* Properties.                                                             *)

Index == 1..Len(OriginalDirectories)
Calls == [dir : Index, clist : SUBSET Index]

\* The values the variables take; the walks are numbered by where they start.
ListsOK ==
  /\ UserDirectories \in Seq(Dirs) /\ ImplicitDirectories \subseteq Dirs
  /\ Emmitted \subseteq Kinds \X Libraries
  /\ ConstraintEntries \in Seq(Libraries)
  /\ OriginalDirectories \in Seq(Dirs)
  /\ i \in Nat \ {0}
  /\ pc \in {"adding", "user", "constraints", "ordering", "done"}
WalkOK ==
  /\ WalkId \in Nat
  /\ Walking => /\ ConflictGraph \in [Index -> SUBSET Index]
                /\ DirectoryVisited \in [Index -> 0..WalkId]
                /\ WalkId + 1 = i /\ i <= Len(OriginalDirectories) + 1
  /\ ~Walking => calls = <<>> /\ OrderedDirectories = <<>> /\ WalkId = 0 /\ ~CycleDiagnosed
  /\ calls \in Seq(Calls) /\ (pc = "done" => calls = <<>> /\ i > Len(OriginalDirectories))
  /\ CycleDiagnosed \in BOOLEAN
  /\ OrderedDirectories \in Seq(Dirs)
TypeOK == ListsOK /\ WalkOK

Before == INSTANCE Condensation WITH Edges <- ConflictGraph, Components <- <<>>

\* Where a directory stands in a list that holds it.
Position(list, d) == CHOOSE k \in 1..Len(list) : list[k] = d
At(d) == Position(OriginalDirectories, d)

\* The pairs of a directory and one of those that must not come before it.
Constraints ==
  UNION {{l.directory} \X (l.conflicts \cap Range(OriginalDirectories)) :
           l \in Range(ConstraintEntries)}

\* Every library is found in its own directory, unless its constraint is
\* part of a cycle (comment at cmOrderDirectories.cxx:496, "all directories
\* required to come before this one have been emmitted").  The search path has
\* every directory of the user and of the libraries once, and none that is
\* searched in any case.
SafeOrder ==
  pc = "done" =>
    /\ Range(OrderedDirectories) =
         (Range(UserDirectories) \cup {e[2].directory : e \in Emmitted}) \ ImplicitDirectories
    /\ \A a, b \in 1..Len(OrderedDirectories) :
         OrderedDirectories[a] = OrderedDirectories[b] => a = b
    /\ \A c \in Constraints :
         \/ Position(OrderedDirectories, c[1]) < Position(OrderedDirectories, c[2])
         \/ At(c[2]) \in Before!Reachable(At(c[1]))

\* An order that is safe as it is stays (cmOrderDirectories.cxx:363, "so
\* their original order is preserved as much as possible").
KeepsSafeOrder ==
  pc = "done" /\ (\A c \in Constraints : At(c[1]) < At(c[2]))
    => OrderedDirectories = OriginalDirectories /\ ~CycleDiagnosed

\* No cycle goes unnoticed.
CyclesDiagnosed == pc = "done" /\ ~Before!Acyclic => CycleDiagnosed

\* What is reported as a cycle is one: "We have reached a node previously
\* visited on this DFS.  There is a cycle." (cmOrderDirectories.cxx:478)
NoFalseAlarm == CycleDiagnosed => ~Before!Acyclic
=============================================================================
