----------------------------- MODULE DependScan -----------------------------
(* The implicit dependencies of one target in a Makefile build: the step    *)
(* cmake --check-depends (UpdateDependencies, cmDepends::Check,             *)
(* ScanDependencies with the C scanner and its include cache), the files it *)
(* keeps between builds, and the compilations that make then starts.  A     *)
(* build may be interrupted between any two operations on files.            *)
(*                                                                          *)
(* The time of a file is only ever compared: newer holds the pairs <<f, g>> *)
(* of existing files where f was written after g, for the pairs the program *)
(* asks about.  Files change during a build by its own steps, or else       *)
(* between builds; no two files have the same time.                         *)
EXTENDS Naturals, FiniteSets

CONSTANTS
  Sources,       \* the source files of the target
  Headers,       \* the files they may include
  Object,        \* the object file of each source
  Info,          \* DependInfo.cmake
  Internal,      \* depend.internal
  IncludeCache,  \* C.includecache
  CarefulEdits,  \* edits leave nothing to be found out about missing files
  InterruptedAt  \* the operations before which a build may be interrupted

Code == Sources \union Headers
Objects == {Object[s] : s \in Sources}
Files == Code \union Objects \union {Info, Internal, IncludeCache}

ASSUME DistinctFiles ==
  /\ Sources \intersect Headers = {}
  /\ Object \in [Sources -> Objects]
  /\ \A s, t \in Sources : Object[s] = Object[t] => s = t
  /\ Objects \intersect Code = {}
  /\ Info \notin Code \union Objects
  /\ Internal \notin Code \union Objects \union {Info}
  /\ IncludeCache \notin Code \union Objects \union {Info, Internal}
ASSUME CarefulEditsIsBoolean == CarefulEdits \in BOOLEAN

(* The pairs of files whose times are compared.                             *)
Compared == (Code \X Objects) \union (Objects \X Code) \union ({IncludeCache} \X Code)
              \union {<<Info, Internal>>}

(* "cache" is between two entries of the include cache, "entry" within one. *)
Operations == {"update", "clear", "remove", "scan", "truncate", "cache", "entry",
               "internal", "rules", "compile"}
ASSUME InterruptedAtOperations == InterruptedAt \subseteq Operations

VARIABLES
  exists,    \* the files there are (depend.make is always there)
  newer,     \* which of them was written after which
  includes,  \* what each source or header includes
  internal,  \* content of depend.internal: the files each object depends on
  rules,     \* content of depend.make: the same, for make
  cache,     \* content of the include cache: what the files scanned include
  pc,        \* the next operation of the build
  deps,      \* what the scan in progress has found
  lines,     \* the scan's FileCache
  built      \* the last build has ended without an error and nothing
             \* has been changed since

files == <<exists, newer>>
vars == <<exists, newer, includes, internal, rules, cache, pc, deps, lines, built>>

NoDeps == [s \in Sources |-> {}]
NoLines == [f \in {} |-> {}]

---------------------------------------------------------------------------
(* Operations on files.                                                     *)
Newer(f, g) == <<f, g>> \in newer
Without(gone) == {p \in newer : p[1] \notin gone /\ p[2] \notin gone}

Write(f) == /\ exists' = exists \union {f}
            /\ newer' = Without({f}) \union {p \in Compared : p[1] = f /\ p[2] \in exists \ {f}}
Remove_StoredTimes(gone) == exists' = exists \ gone /\ UNCHANGED newer
Remove(gone) == /\ exists' = exists \ gone
                /\ newer' = Without(gone)

(* The files a source reaches through the include lines that "content"      *)
(* gives: the smallest set with the source that has with a file all the     *)
(* files present that it includes (cmDependsC::WriteDependencies walks it). *)
Closed(set, content, present) == \A f \in set : content[f] \intersect present \subseteq set
Reached(s, content, present) ==
  {f \in Code : \A set \in SUBSET Code :
                  s \in set /\ Closed(set, content, present) => f \in set}
Needed(s) == Reached(s, includes, exists)

---------------------------------------------------------------------------
(* Between builds.                                                          *)
Idle == pc = "idle"

(* All files included exist, and the dependencies known to the last scan    *)
(* are those of the objects there are, or are to be found out again.        *)
Careful == CarefulEdits => Objects \subseteq exists \/ Internal \notin exists

Edit(f, inc) ==
  /\ Idle /\ Careful
  /\ CarefulEdits => inc \subseteq exists \union {f}
  /\ includes' = [includes EXCEPT ![f] = inc]
  /\ Write(f)
  /\ built' = FALSE
  /\ UNCHANGED <<internal, rules, cache, pc, deps, lines>>

Delete(h) ==
  /\ Idle /\ h \in Headers \intersect exists
  /\ CarefulEdits => \A f \in (Code \intersect exists) \ {h} : h \notin includes[f]
  /\ Remove({h})
  /\ built' = FALSE
  /\ UNCHANGED <<includes, internal, rules, cache, pc, deps, lines>>

(* CMake has run again and the target's DependInfo.cmake is a new one.      *)
Regenerate ==
  /\ Idle
  /\ Write(Info)
  /\ built' = FALSE
  /\ UNCHANGED <<includes, internal, rules, cache, pc, deps, lines>>

---------------------------------------------------------------------------
(* UpdateDependencies.                                                      *)
Start(where) ==
  /\ Idle
  /\ pc' = where
  /\ built' = FALSE
  /\ UNCHANGED <<files, includes, internal, rules, cache, deps, lines>>

NeedRescan == Internal \notin exists \/ Newer(Info, Internal)

(* cmDepends::CheckDependencies: a dependency is missing, or newer than the *)
(* object if there is one.                                                  *)
Regenerated_Missing(s) == \E d \in internal[s] : d \notin exists
Regenerated(s) ==
  \E d \in internal[s] : d \notin exists \/ (Object[s] \in exists /\ Newer(d, Object[s]))

Rescan ==
  /\ pc = "update" /\ NeedRescan
  /\ pc' = "scan"
  /\ UNCHANGED <<files, includes, internal, rules, cache, deps, lines, built>>

(* Objects whose dependencies must be regenerated are removed.              *)
Check ==
  /\ pc = "update" /\ ~NeedRescan
  /\ LET bad == {s \in Sources : Regenerated(s)} IN
     /\ pc' = IF bad = {} THEN "compile" ELSE "clear"
     /\ Remove({Object[s] : s \in bad})
  /\ UNCHANGED <<includes, internal, rules, cache, deps, lines, built>>

(* cmDepends::Clear, also of "make depend", and the removal that follows.   *)
ClearRules ==
  /\ pc = "clear"
  /\ rules' = NoDeps
  /\ pc' = "remove"
  /\ UNCHANGED <<files, includes, internal, cache, deps, lines, built>>

RemoveInternal ==
  /\ pc = "remove"
  /\ Remove({Internal})
  /\ internal' = NoDeps
  /\ pc' = "scan"
  /\ UNCHANGED <<includes, rules, cache, deps, lines, built>>

---------------------------------------------------------------------------
(* ScanDependencies.  ReadCacheFile keeps the entries of files that are     *)
(* older than the cache; a file without an entry is read.                   *)
Valid_Any == {f \in DOMAIN cache : f \in exists}
Valid == {f \in DOMAIN cache : f \in exists /\ Newer(IncludeCache, f)}
Seen == [f \in Code |-> IF f \in Valid THEN cache[f] ELSE includes[f]]

Scan ==
  /\ pc = "scan"
  /\ deps' = [s \in Sources |-> Reached(s, Seen, exists)]
  /\ lines' = [f \in UNION {Reached(s, Seen, exists) : s \in Sources} |-> Seen[f]]
  /\ pc' = "truncate"
  /\ UNCHANGED <<files, includes, internal, rules, cache, built>>

(* WriteCacheFile writes the file in place, with the entries used.          *)
TruncateCache ==
  /\ pc = "truncate"
  /\ cache' = NoLines
  /\ Write(IncludeCache)
  /\ pc' = "cache"
  /\ UNCHANGED <<includes, internal, rules, deps, lines, built>>

(* An entry is the name of the file, the include lines and an empty line.   *)
(* Each line reaches the file by itself (std::endl), so that any part of    *)
(* the include lines may be there when the build is interrupted; the reader *)
(* takes an entry that the end of the file cuts off for a whole one.        *)
BeginEntry ==
  /\ pc = "cache"
  /\ \E f \in DOMAIN lines \ DOMAIN cache : \E part \in SUBSET lines[f] :
       cache' = [g \in DOMAIN cache \union {f} |-> IF g = f THEN part ELSE cache[g]]
  /\ Write(IncludeCache)
  /\ pc' = "entry"
  /\ UNCHANGED <<includes, internal, rules, deps, lines, built>>

EndEntry ==
  /\ pc = "entry"
  /\ cache' = [f \in DOMAIN cache |-> lines[f]]
  /\ Write(IncludeCache)
  /\ pc' = "cache"
  /\ UNCHANGED <<includes, internal, rules, deps, lines, built>>

CloseCache ==
  /\ pc = "cache" /\ DOMAIN cache = DOMAIN lines
  /\ pc' = "internal"
  /\ UNCHANGED <<files, includes, internal, rules, cache, deps, lines, built>>

(* The two generated files replace the old ones if they differ, the one     *)
(* that was opened last first.                                              *)
WriteInternal ==
  /\ pc = "internal"
  /\ internal' = deps
  /\ IF Internal \in exists /\ internal = deps THEN UNCHANGED files ELSE Write(Internal)
  /\ pc' = "rules"
  /\ UNCHANGED <<includes, rules, cache, deps, lines, built>>

WriteRules ==
  /\ pc = "rules"
  /\ rules' = deps
  /\ deps' = NoDeps
  /\ lines' = NoLines
  /\ pc' = "compile"
  /\ UNCHANGED <<files, includes, internal, cache, built>>

---------------------------------------------------------------------------
(* The compilations of make, by the rules of build.make and depend.make.    *)
Outdated(s) ==
  \/ Object[s] \notin exists
  \/ \E d \in rules[s] \union {s} : Newer(d, Object[s])

NoRule(s) == ~(rules[s] \union {s} \subseteq exists)

Compile(s) ==
  /\ pc = "compile" /\ Outdated(s) /\ ~NoRule(s)
  /\ \A f \in Needed(s) : includes[f] \subseteq exists
  /\ Write(Object[s])
  /\ UNCHANGED <<includes, internal, rules, cache, pc, deps, lines, built>>

(* An error in the code: the compiler may or may not remove the object.     *)
CompileFails(s) ==
  /\ pc = "compile" /\ Outdated(s) /\ ~NoRule(s)
  /\ \/ Remove({Object[s]})
     \/ UNCHANGED files
  /\ pc' = "idle"
  /\ UNCHANGED <<includes, internal, rules, cache, deps, lines, built>>

Finish ==
  /\ pc = "compile"
  /\ \/ \E s \in Sources : NoRule(s) /\ built' = FALSE
     \/ (\A s \in Sources : ~Outdated(s) /\ ~NoRule(s)) /\ built' = TRUE
  /\ pc' = "idle"
  /\ UNCHANGED <<files, includes, internal, rules, cache, deps, lines>>

(* The build is interrupted: what it has written so far is there.           *)
Interrupt ==
  /\ pc \in InterruptedAt
  /\ pc' = "idle"
  /\ deps' = NoDeps /\ lines' = NoLines
  /\ UNCHANGED <<files, includes, internal, rules, cache, built>>

---------------------------------------------------------------------------
(* The build tree has just been generated.                                  *)
Init ==
  /\ exists = Code \union {Info}
  /\ newer = {}
  /\ includes \in [Code -> SUBSET Headers]
  /\ internal = NoDeps /\ rules = NoDeps
  /\ cache = NoLines
  /\ pc = "idle"
  /\ deps = NoDeps /\ lines = NoLines
  /\ built = FALSE

Next ==
  \/ \E f \in Code, inc \in SUBSET Headers : Edit(f, inc)
  \/ \E h \in Headers : Delete(h)
  \/ Regenerate
  \/ \E where \in {"update", "clear"} : Start(where)
  \/ Rescan \/ Check \/ ClearRules \/ RemoveInternal
  \/ Scan \/ TruncateCache \/ BeginEntry \/ EndEntry \/ CloseCache
  \/ WriteInternal \/ WriteRules
  \/ \E s \in Sources : Compile(s) \/ CompileFails(s)
  \/ Finish \/ Interrupt

Spec == Init /\ [][Next]_vars

---------------------------------------------------------------------------
(* Properties.                                                              *)
Dependencies == [Sources -> SUBSET Code]
TypeOK ==
  /\ exists \subseteq Files /\ Sources \subseteq exists
  /\ newer \subseteq Compared \intersect (exists \X exists)
  /\ includes \in [Code -> SUBSET Headers]
  /\ internal \in Dependencies /\ rules \in Dependencies /\ deps \in Dependencies
  /\ DOMAIN cache \subseteq Code /\ \A f \in DOMAIN cache : cache[f] \subseteq Headers
  /\ DOMAIN lines \subseteq Code /\ \A f \in DOMAIN lines : lines[f] \subseteq Headers
  /\ pc \in {"cache", "entry"} =>
       \A f \in DOMAIN cache : f \in DOMAIN lines /\ cache[f] \subseteq lines[f]
  /\ pc \in {"idle"} \union Operations
  /\ built \in BOOLEAN

(* A build that ends without an error leaves every object newer than its    *)
(* source and every file that reaches it: what the checks of cmDepends and  *)
(* the rules in depend.make are for, after every history of edits, earlier  *)
(* scans and interruptions.                                                 *)
ObjectsUpToDate ==
  built => \A s \in Sources :
             /\ Object[s] \in exists
             /\ \A f \in Needed(s) : Newer(Object[s], f)

(* A scan that uses the include cache finds what a scan of the files        *)
(* themselves would find (cmDependsC::ReadCacheFile drops the entries of    *)
(* files that are newer than the cache), unless the cache of an interrupted *)
(* build ends within an entry.                                              *)
ScanIsExact ==
  pc \in {"truncate", "cache", "entry", "internal", "rules"} =>
    \A s \in Sources : deps[s] = Needed(s)
=============================================================================
