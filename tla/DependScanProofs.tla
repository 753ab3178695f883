-------------------------- MODULE DependScanProofs --------------------------
(* Proofs about DependScan for any number of sources and headers.           *)
EXTENDS DependScan, TLAPS

(* No build is interrupted while it writes the lines of one cache entry.    *)
WholeEntries == "entry" \notin InterruptedAt

(* What the scanner relies on: an entry of the include cache that is older  *)
(* than its file is not used.  Any other has only files that the file       *)
(* includes, and all of them when no entry is ever cut off.                 *)
CacheOK ==
  IncludeCache \in exists =>
    \A f \in DOMAIN cache : Newer(IncludeCache, f) =>
      /\ cache[f] \subseteq includes[f]
      /\ WholeEntries /\ pc # "entry" => cache[f] = includes[f]

Scanned == pc \in {"truncate", "cache", "entry", "internal", "rules"}
LinesOK ==
  Scanned => \A f \in DOMAIN lines : /\ lines[f] \subseteq includes[f]
                                     /\ WholeEntries => lines[f] = includes[f]

(* A scan finds no file that is not needed.                                 *)
NothingElseFound == Scanned => \A s \in Sources : deps[s] \subseteq Needed(s)

ScanInv == /\ TypeOK /\ CacheOK /\ LinesOK
           /\ NothingElseFound /\ (WholeEntries => ScanIsExact)

(* Nothing is left to be found out about files that are missing, and a      *)
(* build is not interrupted within an entry of the cache, nor while objects *)
(* are gone but depend.internal is still there.                             *)
Undisturbed == CarefulEdits /\ {"entry", "clear", "remove"} \intersect InterruptedAt = {}

NoneMissing == \A f \in Code \intersect exists : includes[f] \subseteq exists

(* The time of an object can be compared with that of any file there is.    *)
Total == \A s \in Sources, f \in Code \intersect exists :
           Object[s] \in exists => Newer(f, Object[s]) \/ Newer(Object[s], f)

(* Stored dependencies that are not what they should be will be noticed.    *)
StoredOK ==
  pc \notin {"clear", "remove"} /\ ~NeedRescan =>
    \A s \in Sources : internal[s] = Needed(s) \/ Regenerated(s)

RulesOK == pc = "rules" => Internal \in exists /\ internal = deps

(* The rules make works with are complete, or those objects that they are   *)
(* not complete for are up to date.                                         *)
Fresh(s) == \A f \in Needed(s) : Newer(Object[s], f)
CompileOK ==
  pc = "compile" =>
    /\ Internal \in exists
    /\ \A s \in Sources :
         /\ internal[s] = Needed(s)
         /\ rules[s] = Needed(s) \/ (Object[s] \in exists => Fresh(s))

BuiltOK == built => pc = "idle"

IInv == /\ ScanInv /\ NoneMissing /\ Total /\ StoredOK /\ RulesOK /\ CompileOK
        /\ BuiltOK /\ ObjectsUpToDate

---------------------------------------------------------------------------
(* The files a source reaches are code, the source among them, and with a   *)
(* file all the files present that it includes.                             *)
LEMMA ReachedClosed ==
  ASSUME NEW s \in Sources, NEW content, NEW present,
         \A f \in Code : content[f] \subseteq Headers
  PROVE  /\ Reached(s, content, present) \subseteq Code
         /\ s \in Reached(s, content, present)
         /\ Closed(Reached(s, content, present), content, present)
<1>1. Reached(s, content, present) \subseteq Code /\ s \in Reached(s, content, present)
  BY DEF Reached, Code
<1>2. ASSUME NEW f \in Reached(s, content, present),
             NEW g \in content[f] \intersect present
      PROVE  g \in Reached(s, content, present)
  <2>1. f \in Code /\ g \in Code
    BY <1>1, <1>2 DEF Code
  <2>2. ASSUME NEW set \in SUBSET Code, s \in set, Closed(set, content, present)
        PROVE  g \in set
    <3>1. f \in set
      BY <1>2, <2>2 DEF Reached
    <3> QED BY <1>2, <2>2, <3>1 DEF Closed
  <2> QED BY <2>1, <2>2 DEF Reached
<1> QED BY <1>1, <1>2 DEF Closed

(* They are the smallest such set.                                          *)
LEMMA ReachedLeast ==
  ASSUME NEW s \in Sources, NEW content, NEW present,
         NEW set \in SUBSET Code, s \in set, Closed(set, content, present)
  PROVE  Reached(s, content, present) \subseteq set
  BY DEF Reached

(* Only the include lines of the files that are reached matter.             *)
LEMMA ReachedSame ==
  ASSUME NEW s \in Sources, NEW content, NEW present, NEW content2, NEW present2,
         \A f \in Code : content[f] \subseteq Headers /\ content2[f] \subseteq Headers,
         \A f \in Reached(s, content, present) :
           content2[f] \intersect present2 = content[f] \intersect present
  PROVE  Reached(s, content2, present2) = Reached(s, content, present)
<1> DEFINE R  == Reached(s, content, present)
           R2 == Reached(s, content2, present2)
<1>1. R \subseteq Code /\ s \in R /\ Closed(R, content, present)
  BY ReachedClosed
<1>2. R2 \subseteq Code /\ s \in R2 /\ Closed(R2, content2, present2)
  BY ReachedClosed
<1>3. \A f \in R : content2[f] \intersect present2 = content[f] \intersect present
  OBVIOUS
<1> HIDE DEF R, R2
<1>4. Closed(R, content2, present2)
  BY <1>1, <1>3 DEF Closed
<1>5. R2 \subseteq R
  BY <1>1, <1>4, ReachedLeast DEF R2
<1>6. Closed(R \intersect R2, content, present)
  BY <1>1, <1>2, <1>3 DEF Closed
<1>7. R \subseteq R \intersect R2
  BY <1>1, <1>2, <1>6, ReachedLeast DEF R
<1> QED BY <1>5, <1>7 DEF R, R2

(* More include lines reach more files.                                     *)
LEMMA ReachedMore ==
  ASSUME NEW s \in Sources, NEW content, NEW content2, NEW present,
         \A f \in Code : content[f] \subseteq content2[f] /\ content2[f] \subseteq Headers
  PROVE  Reached(s, content, present) \subseteq Reached(s, content2, present)
<1> DEFINE R2 == Reached(s, content2, present)
<1>1. R2 \subseteq Code /\ s \in R2 /\ Closed(R2, content2, present)
  BY ReachedClosed
<1> HIDE DEF R2
<1>2. Closed(R2, content, present)
  BY <1>1 DEF Closed
<1> QED BY <1>1, <1>2, ReachedLeast DEF R2

(* The names of the files CMake keeps are none of the others.               *)
LEMMA FileNames ==
  /\ \A s \in Sources : Object[s] \in Objects /\ Object[s] \notin Code
  /\ Info \notin Code /\ Internal \notin Code /\ IncludeCache \notin Code
  /\ \A o \in Objects : o # Info /\ o # Internal /\ o # IncludeCache /\ o \notin Code
  /\ Info # Internal /\ Info # IncludeCache /\ Internal # IncludeCache
  /\ Sources \subseteq Code /\ Headers \subseteq Code
  BY DistinctFiles DEF Objects, Code

(* What the sources need does not change with files that are not code.      *)
LEMMA NeededSame ==
  ASSUME TypeOK, TypeOK', includes' = includes,
         exists' \intersect Code = exists \intersect Code, NEW s \in Sources
  PROVE  Needed(s)' = Needed(s)
<1>1. \A f \in Code : includes[f] \subseteq Headers /\ includes'[f] \subseteq Headers
  BY DEF TypeOK
<1>2. \A f \in Code : includes'[f] \intersect exists' = includes[f] \intersect exists
  BY <1>1 DEF Code
<1>3. Reached(s, includes, exists) \subseteq Code
  BY DEF Reached
<1>4. Reached(s, includes', exists') = Reached(s, includes, exists)
  BY <1>1, <1>2, <1>3, ReachedSame
<1> QED BY <1>4 DEF Needed

(* Every file a source needs exists.                                        *)
LEMMA NeededExists ==
  ASSUME TypeOK, NEW s \in Sources
  PROVE  Needed(s) \subseteq Code \intersect exists /\ s \in Needed(s)
<1>1. \A f \in Code : includes[f] \subseteq Headers
  BY DEF TypeOK
<1>2. s \in Code \intersect exists
  BY FileNames DEF TypeOK
<1>3. Closed(Code \intersect exists, includes, exists)
  BY <1>1, FileNames DEF Closed
<1> QED BY <1>1, <1>2, <1>3, ReachedLeast, ReachedClosed DEF Needed

---------------------------------------------------------------------------
FilesOK == /\ exists \subseteq Files /\ Sources \subseteq exists
           /\ newer \subseteq Compared \intersect (exists \X exists)

LEMMA WriteTyped ==
  ASSUME FilesOK, NEW f \in Files, Write(f)
  PROVE  FilesOK'
<1>1. exists' \subseteq Files /\ Sources \subseteq exists'
  BY DEF FilesOK, Write
<1>2. newer' \subseteq Compared
  BY DEF FilesOK, Write, Without
<1>3. newer' \subseteq exists' \X exists'
  <2>1. \A p \in newer' : p[1] \in exists' /\ p[2] \in exists'
    BY DEF FilesOK, Write, Without
  <2>2. \A p \in Compared : p = <<p[1], p[2]>>
    BY DEF Compared
  <2> QED BY <1>2, <2>1, <2>2
<1> QED BY <1>1, <1>2, <1>3 DEF FilesOK

LEMMA RemoveTyped ==
  ASSUME FilesOK, NEW gone, gone \intersect Sources = {}, Remove(gone)
  PROVE  FilesOK'
<1>1. exists' \subseteq Files /\ Sources \subseteq exists'
  BY DEF FilesOK, Remove
<1>2. newer' \subseteq Compared \intersect (exists' \X exists')
  BY DEF FilesOK, Remove, Without
<1> QED BY <1>1, <1>2 DEF FilesOK

(* Every step writes files and contents of the types given.                 *)
LEMMA Typed ==
  ASSUME TypeOK, [Next]_vars
  PROVE  TypeOK'
<1>. USE DEF TypeOK
<1>0. FilesOK /\ Code \subseteq Files /\ Objects \subseteq Files
      /\ {Info, Internal, IncludeCache} \subseteq Files
  BY DEF FilesOK, Files
<1>1. ASSUME NEW f \in Code, NEW inc \in SUBSET Headers, Edit(f, inc) PROVE TypeOK'
  <2>1. FilesOK'
    BY <1>0, <1>1, WriteTyped DEF Edit
  <2> QED BY <1>1, <2>1 DEF FilesOK, Edit
<1>2. ASSUME NEW h \in Headers, Delete(h) PROVE TypeOK'
  <2>1. FilesOK'
    BY <1>0, <1>2, DistinctFiles, RemoveTyped DEF Delete
  <2> QED BY <1>2, <2>1 DEF FilesOK, Delete
<1>3. ASSUME Regenerate PROVE TypeOK'
  <2>1. FilesOK'
    BY <1>0, <1>3, WriteTyped DEF Regenerate
  <2> QED BY <1>3, <2>1 DEF FilesOK, Regenerate
<1>4. ASSUME NEW where \in {"update", "clear"}, Start(where) PROVE TypeOK'
  BY <1>4 DEF Start, files, Operations
<1>5. ASSUME Rescan PROVE TypeOK'
  BY <1>5 DEF Rescan, files, Operations
<1>6. ASSUME Check PROVE TypeOK'
  <2>1. FilesOK'
    BY <1>0, <1>6, FileNames, RemoveTyped DEF Check
  <2> QED BY <1>6, <2>1 DEF FilesOK, Check, Operations
<1>7. ASSUME ClearRules PROVE TypeOK'
  BY <1>7 DEF ClearRules, files, Operations, NoDeps, Dependencies
<1>8. ASSUME RemoveInternal PROVE TypeOK'
  <2>1. FilesOK'
    BY <1>0, <1>8, FileNames, RemoveTyped DEF RemoveInternal
  <2> QED BY <1>8, <2>1 DEF FilesOK, RemoveInternal, Operations, NoDeps, Dependencies
<1>9. ASSUME Scan PROVE TypeOK'
  <2>1. \A f \in Code : Seen[f] \subseteq Headers
    BY DEF Seen, Valid
  <2>2. \A s \in Sources : Reached(s, Seen, exists) \in SUBSET Code
    BY DEF Reached
  <2>3. DOMAIN lines' \subseteq Code /\ \A f \in DOMAIN lines' : lines'[f] \subseteq Headers
    BY <1>9, <2>1, <2>2 DEF Scan
  <2> QED BY <1>9, <2>2, <2>3 DEF Scan, files, Operations, Dependencies
<1>10. ASSUME TruncateCache PROVE TypeOK'
  <2>1. FilesOK'
    BY <1>0, <1>10, WriteTyped DEF TruncateCache
  <2> QED BY <1>10, <2>1 DEF FilesOK, TruncateCache, Operations, NoLines
<1>11. ASSUME BeginEntry \/ EndEntry \/ CloseCache PROVE TypeOK'
  <2>1. FilesOK' /\ pc' \in Operations
    BY <1>0, <1>11, WriteTyped
    DEF BeginEntry, EndEntry, CloseCache, files, FilesOK, Operations
  <2>2. \A f \in DOMAIN cache' : f \in DOMAIN lines /\ cache'[f] \subseteq lines[f]
    BY <1>11 DEF BeginEntry, EndEntry, CloseCache
  <2>3. UNCHANGED <<includes, internal, rules, deps, lines, built>>
    BY <1>11 DEF BeginEntry, EndEntry, CloseCache
  <2> QED BY <2>1, <2>2, <2>3 DEF FilesOK
<1>12. ASSUME WriteInternal PROVE TypeOK'
  <2>1. FilesOK'
    BY <1>0, <1>12, WriteTyped DEF WriteInternal, files, FilesOK
  <2> QED BY <1>12, <2>1 DEF FilesOK, WriteInternal, Operations
<1>13. ASSUME WriteRules PROVE TypeOK'
  BY <1>13 DEF WriteRules, files, Operations, NoDeps, NoLines, Dependencies
<1>14. ASSUME NEW s \in Sources, Compile(s) PROVE TypeOK'
  <2>1. FilesOK'
    BY <1>0, <1>14, FileNames, WriteTyped DEF Compile
  <2> QED BY <1>14, <2>1 DEF FilesOK, Compile
<1>15. ASSUME NEW s \in Sources, CompileFails(s) PROVE TypeOK'
  <2>1. FilesOK'
    BY <1>0, <1>15, FileNames, RemoveTyped DEF CompileFails, files, FilesOK
  <2> QED BY <1>15, <2>1 DEF FilesOK, CompileFails
<1>16. ASSUME Finish PROVE TypeOK'
  BY <1>16 DEF Finish, files
<1>17. ASSUME Interrupt PROVE TypeOK'
  BY <1>17 DEF Interrupt, files, NoDeps, NoLines, Dependencies
<1>18. CASE UNCHANGED vars
  BY <1>18 DEF vars
<1> QED
  BY <1>1, <1>2, <1>3, <1>4, <1>5, <1>6, <1>7, <1>8, <1>9, <1>10, <1>11, <1>12, <1>13,
     <1>14, <1>15, <1>16, <1>17, <1>18 DEF Next

---------------------------------------------------------------------------
(* A step that changes neither code nor what it includes leaves what the    *)
(* sources need as it is, and so what a scan has found.                     *)
CodeSame == includes' = includes /\ exists' \intersect Code = exists \intersect Code

LEMMA ScanKept ==
  ASSUME ScanInv, TypeOK', CodeSame, Scanned, UNCHANGED <<deps, lines>>
  PROVE  LinesOK' /\ NothingElseFound' /\ (WholeEntries => ScanIsExact')
<1>1. \A s \in Sources : Needed(s)' = Needed(s)
  BY NeededSame DEF ScanInv, CodeSame
<1> QED BY <1>1 DEF ScanInv, Scanned, ScanIsExact, NothingElseFound, LinesOK, CodeSame

(* A step that leaves the cache alone leaves its entries right if the files *)
(* it writes become newer than the cache.                                   *)
LEMMA CacheKept ==
  ASSUME CacheOK, UNCHANGED cache, pc # "entry",
         IncludeCache \in exists' => IncludeCache \in exists,
         \A f \in Code : <<IncludeCache, f>> \in newer' =>
           <<IncludeCache, f>> \in newer /\ includes'[f] = includes[f],
         DOMAIN cache \subseteq Code
  PROVE  CacheOK'
  BY DEF CacheOK, Newer

(* With entries that are right a scan reads what the files themselves say.  *)
LEMMA SeenIsThere ==
  ASSUME TypeOK, CacheOK, pc # "entry"
  PROVE  /\ \A f \in Code : Seen[f] \subseteq includes[f]
         /\ WholeEntries => Seen = includes
<1>1. \A f \in Valid : /\ cache[f] \subseteq includes[f]
                       /\ WholeEntries => cache[f] = includes[f]
  <2>1. \A f \in Valid : IncludeCache \in exists
    BY DEF Valid, Newer, TypeOK
  <2> QED BY <2>1 DEF Valid, CacheOK
<1>2. \A f \in Code : /\ Seen[f] \subseteq includes[f]
                      /\ WholeEntries => Seen[f] = includes[f]
  BY <1>1 DEF Seen
<1> QED BY <1>2 DEF Seen, TypeOK

LEMMA ScanStep ==
  ASSUME ScanInv, [Next]_vars
  PROVE  ScanInv'
<1>. USE DEF ScanInv
<1>0. TypeOK'
  BY Typed
<1>a. ASSUME ~Scanned'
      PROVE  LinesOK' /\ NothingElseFound' /\ ScanIsExact'
  BY <1>a DEF LinesOK, Scanned, NothingElseFound, ScanIsExact
<1>b. ASSUME CodeSame, Scanned, UNCHANGED <<deps, lines>>
      PROVE  LinesOK' /\ NothingElseFound' /\ (WholeEntries => ScanIsExact')
  BY <1>b, <1>0, ScanKept
<1>c. DOMAIN cache \subseteq Code
  BY DEF TypeOK
<1>1. ASSUME NEW f \in Code, NEW inc \in SUBSET Headers, Edit(f, inc) PROVE ScanInv'
  <2>1. pc = "idle" /\ ~Scanned'
    BY <1>1 DEF Edit, Idle, Scanned
  <2>2. CacheOK'
    <3>1. ASSUME NEW g \in Code, <<IncludeCache, g>> \in newer'
          PROVE  <<IncludeCache, g>> \in newer /\ includes'[g] = includes[g]
      BY <1>1, <3>1, FileNames DEF Edit, Write, Without, TypeOK
    <3> QED BY <1>1, <1>c, <2>1, <3>1, CacheKept, FileNames DEF Edit, Write
  <2> QED BY <1>0, <1>a, <2>1, <2>2
<1>2. ASSUME NEW h \in Headers, Delete(h) PROVE ScanInv'
  <2>1. pc = "idle" /\ ~Scanned'
    BY <1>2 DEF Delete, Idle, Scanned
  <2>2. CacheOK'
    BY <1>2, <1>c, <2>1, CacheKept DEF Delete, Remove, Without
  <2> QED BY <1>0, <1>a, <2>1, <2>2
<1>3. ASSUME Regenerate PROVE ScanInv'
  <2>1. pc = "idle" /\ ~Scanned'
    BY <1>3 DEF Regenerate, Idle, Scanned
  <2>2. CacheOK'
    BY <1>3, <1>c, <2>1, CacheKept, FileNames DEF Regenerate, Write, Without
  <2> QED BY <1>0, <1>a, <2>1, <2>2
<1>d. ASSUME UNCHANGED <<files, includes, cache>>, pc # "entry" PROVE CacheOK'
  BY <1>d DEF CacheOK, files, Newer
<1>4. ASSUME NEW where \in {"update", "clear"}, Start(where) PROVE ScanInv'
  <2>1. pc = "idle" /\ ~Scanned'
    BY <1>4 DEF Start, Idle, Scanned
  <2>2. CacheOK'
    BY <1>4, <1>d, <2>1 DEF Start
  <2> QED BY <1>0, <1>a, <2>1, <2>2
<1>5. ASSUME Rescan PROVE ScanInv'
  BY <1>0, <1>5, <1>a, <1>d DEF Rescan, Scanned
<1>6. ASSUME Check PROVE ScanInv'
  <2>1. CacheOK'
    BY <1>6, <1>c, CacheKept, FileNames DEF Check, Remove, Without
  <2>2. ~Scanned'
    BY <1>6 DEF Check, Scanned
  <2> QED BY <1>0, <1>a, <2>1, <2>2
<1>7. ASSUME ClearRules PROVE ScanInv'
  BY <1>0, <1>7, <1>a, <1>d DEF ClearRules, Scanned
<1>8. ASSUME RemoveInternal PROVE ScanInv'
  <2>1. CacheOK'
    BY <1>8, <1>c, CacheKept, FileNames DEF RemoveInternal, Remove, Without
  <2> QED BY <1>0, <1>8, <1>a, <2>1 DEF RemoveInternal, Scanned
<1>9. ASSUME Scan PROVE ScanInv'
  <2>1. /\ \A f \in Code : Seen[f] \subseteq includes[f] /\ includes[f] \subseteq Headers
        /\ WholeEntries => Seen = includes
    BY <1>9, SeenIsThere DEF Scan, TypeOK
  <2>2. \A s \in Sources : deps'[s] = Reached(s, Seen, exists) /\ Needed(s)' = Needed(s)
    BY <1>9 DEF Scan, files, Needed
  <2>3. \A s \in Sources : deps'[s] \subseteq Needed(s)'
    BY <2>1, <2>2, ReachedMore DEF Needed
  <2>4. WholeEntries => \A s \in Sources : deps'[s] = Needed(s)'
    BY <2>1, <2>2 DEF Needed
  <2>5. LinesOK'
    <3>1. DOMAIN lines' \subseteq Code
      BY <1>0 DEF TypeOK
    <3> QED BY <1>9, <2>1, <3>1 DEF Scan, LinesOK
  <2>6. CacheOK'
    BY <1>9, <1>d DEF Scan
  <2> QED BY <1>0, <2>3, <2>4, <2>5, <2>6 DEF NothingElseFound, ScanIsExact
<1>10. ASSUME TruncateCache PROVE ScanInv'
  <2>1. CodeSame
    BY <1>10, FileNames DEF TruncateCache, Write, CodeSame
  <2>2. CacheOK'
    BY <1>10 DEF TruncateCache, CacheOK, NoLines
  <2> QED BY <1>0, <1>10, <1>b, <2>1, <2>2 DEF TruncateCache, Scanned
<1>11. ASSUME BeginEntry PROVE ScanInv'
  <2>1. CodeSame
    BY <1>11, FileNames DEF BeginEntry, Write, CodeSame
  <2>2. PICK f \in DOMAIN lines : \E part \in SUBSET lines[f] :
          cache' = [g \in DOMAIN cache \union {f} |-> IF g = f THEN part ELSE cache[g]]
    BY <1>11 DEF BeginEntry
  <2>3. ASSUME NEW g \in DOMAIN cache', Newer(IncludeCache, g)'
        PROVE  cache'[g] \subseteq includes'[g]
    <3>1. g \in DOMAIN lines /\ cache'[g] \subseteq lines[g]
      BY <1>11, <2>2 DEF BeginEntry, TypeOK
    <3>2. lines[g] \subseteq includes[g]
      BY <1>11, <3>1 DEF BeginEntry, LinesOK, Scanned
    <3> QED BY <2>1, <3>1, <3>2 DEF CodeSame
  <2>4. CacheOK'
    BY <1>11, <2>3 DEF BeginEntry, CacheOK
  <2> QED BY <1>0, <1>11, <1>b, <2>1, <2>4 DEF BeginEntry, Scanned
<1>12. ASSUME EndEntry \/ CloseCache PROVE ScanInv'
  <2>1. CodeSame
    BY <1>12, FileNames DEF EndEntry, CloseCache, Write, CodeSame, files
  <2>2. CacheOK'
    <3>1. CASE EndEntry
      <4>1. \A f \in DOMAIN cache' : /\ f \in DOMAIN lines /\ cache'[f] = lines[f]
                                     /\ includes'[f] = includes[f]
        BY <3>1 DEF EndEntry, TypeOK
      <4> QED BY <3>1, <4>1 DEF EndEntry, CacheOK, LinesOK, Scanned
    <3>2. CASE CloseCache
      BY <1>d, <3>2 DEF CloseCache
    <3> QED BY <1>12, <3>1, <3>2
  <2> QED BY <1>0, <1>12, <1>b, <2>1, <2>2 DEF EndEntry, CloseCache, Scanned
<1>13. ASSUME WriteInternal PROVE ScanInv'
  <2>1. CodeSame
    BY <1>13, FileNames DEF WriteInternal, Write, CodeSame, files
  <2>2. CacheOK'
    BY <1>13, <1>c, CacheKept, FileNames DEF WriteInternal, Write, Without, files
  <2> QED BY <1>0, <1>13, <1>b, <2>1, <2>2 DEF WriteInternal, Scanned
<1>14. ASSUME WriteRules PROVE ScanInv'
  BY <1>0, <1>14, <1>a, <1>d DEF WriteRules, Scanned
<1>15. ASSUME NEW s \in Sources, Compile(s) PROVE ScanInv'
  <2>1. CacheOK'
    BY <1>15, <1>c, CacheKept, FileNames DEF Compile, Write, Without
  <2> QED BY <1>0, <1>15, <1>a, <2>1 DEF Compile, Scanned
<1>16. ASSUME NEW s \in Sources, CompileFails(s) PROVE ScanInv'
  <2>1. CacheOK'
    BY <1>16, <1>c, CacheKept, FileNames DEF CompileFails, Remove, Without, files
  <2> QED BY <1>0, <1>16, <1>a, <2>1 DEF CompileFails, Scanned
<1>17. ASSUME Finish PROVE ScanInv'
  BY <1>0, <1>17, <1>a, <1>d DEF Finish, Scanned
<1>18. ASSUME Interrupt PROVE ScanInv'
  <2>1. WholeEntries => pc # "entry"
    BY <1>18 DEF Interrupt, WholeEntries
  <2>2. CacheOK'
    BY <1>18, <2>1 DEF Interrupt, files, CacheOK, Newer
  <2> QED BY <1>0, <1>18, <1>a, <2>2 DEF Interrupt, Scanned
<1>19. CASE UNCHANGED vars
  <2>1. CodeSame /\ UNCHANGED <<deps, lines, pc, cache, exists, newer>>
    BY <1>19 DEF vars, files, CodeSame
  <2>2. CacheOK'
    BY <2>1 DEF CacheOK, Newer, CodeSame
  <2> QED BY <1>0, <1>a, <1>b, <2>1, <2>2 DEF Scanned
<1> QED
  BY <1>1, <1>2, <1>3, <1>4, <1>5, <1>6, <1>7, <1>8, <1>9, <1>10, <1>11, <1>12, <1>13,
     <1>14, <1>15, <1>16, <1>17, <1>18, <1>19 DEF Next

LEMMA ScanInit ==
  ASSUME Init
  PROVE  ScanInv
<1>1. TypeOK
  BY FileNames DEF Init, TypeOK, Files, NoDeps, NoLines, Dependencies
<1>2. CacheOK /\ LinesOK /\ NothingElseFound /\ ScanIsExact
  BY DEF Init, CacheOK, LinesOK, Scanned, NothingElseFound, ScanIsExact, NoLines
<1> QED BY <1>1, <1>2 DEF ScanInv

(* Whatever is edited, deleted, interrupted or left over from earlier       *)
(* builds, the variables keep their types.                                  *)
THEOREM TypeCorrect == Spec => []TypeOK
<1>1. ScanInv => TypeOK
  BY DEF ScanInv
<1> QED BY <1>1, ScanInit, ScanStep, PTL DEF Spec

(* If no build is interrupted between the lines of an entry of the cache    *)
(* (cmDependsC::WriteCacheFile), the include cache never makes a scan       *)
(* (cmDependsC::WriteDependencies) find anything else than the files        *)
(* themselves would, for every history of edits and of builds interrupted   *)
(* elsewhere: before the cache, with the cache empty, or between entries.   *)
THEOREM CacheIsTransparent ==
  ASSUME WholeEntries
  PROVE  Spec => []ScanIsExact
<1>1. ScanInv => ScanIsExact
  BY DEF ScanInv
<1> QED BY <1>1, ScanInit, ScanStep, PTL DEF Spec

(* And wherever builds are interrupted, within entries too: what a scan     *)
(* finds through the cache is needed.  A cache that has been cut off can    *)
(* hide a header from make, it never names one too many.                    *)
THEOREM CacheAddsNothing == Spec => []NothingElseFound
<1>1. ScanInv => NothingElseFound
  BY DEF ScanInv
<1> QED BY <1>1, ScanInit, ScanStep, PTL DEF Spec

---------------------------------------------------------------------------
(* A step of a build that leaves code and objects alone.                    *)
LEMMA ObjectsKept ==
  ASSUME TypeOK, TypeOK', NoneMissing, Total, CodeSame,
         exists' \intersect Objects = exists \intersect Objects,
         \A f \in Code, o \in Objects : /\ <<f, o>> \in newer' <=> <<f, o>> \in newer
                                        /\ <<o, f>> \in newer' <=> <<o, f>> \in newer
  PROVE  /\ NoneMissing' /\ Total'
         /\ \A s \in Sources : /\ Needed(s)' = Needed(s)
                               /\ Object[s] \in exists' <=> Object[s] \in exists
                               /\ Fresh(s)' <=> Fresh(s)
         /\ internal' = internal => \A s \in Sources : Regenerated(s)' <=> Regenerated(s)
<1>1. \A s \in Sources : Needed(s)' = Needed(s) /\ Needed(s) \subseteq Code
  BY NeededSame, NeededExists DEF CodeSame
<1>2. NoneMissing'
  BY DEF NoneMissing, CodeSame, TypeOK, Code
<1>3. \A s \in Sources : Object[s] \in exists' <=> Object[s] \in exists
  BY FileNames
<1>4. Total'
  BY <1>3, FileNames DEF Total, CodeSame, Newer
<1>5. \A s \in Sources : Fresh(s)' <=> Fresh(s)
  BY <1>1, FileNames DEF Fresh, Newer
<1>6. ASSUME internal' = internal, NEW s \in Sources
      PROVE  Regenerated(s)' <=> Regenerated(s)
  <2>1. internal[s] \subseteq Code
    BY DEF TypeOK, Dependencies
  <2>2. \A d \in Code : d \in exists' <=> d \in exists
    BY DEF CodeSame
  <2> QED BY <1>3, <1>6, <2>1, <2>2, FileNames DEF Regenerated, Newer
<1> QED BY <1>1, <1>2, <1>3, <1>4, <1>5, <1>6

(* A file is changed while all objects are there: whoever needed it will be *)
(* found to be older, and nobody else needs anything else than before.      *)
LEMMA EditNoticed ==
  ASSUME TypeOK, TypeOK', NoneMissing, CarefulEdits, Objects \subseteq exists,
         NEW f \in Code, NEW inc \in SUBSET Headers, Edit(f, inc),
         NEW s \in Sources, internal[s] = Needed(s) \/ Regenerated(s)
  PROVE  (internal[s] = Needed(s) \/ Regenerated(s))'
<1>0. /\ exists' = exists \union {f} /\ internal' = internal
      /\ \A g \in Code : g # f => includes'[g] = includes[g]
      /\ Object[s] \in exists' /\ Object[s] \in exists /\ Object[s] # f
      /\ \A g \in Code : <<g, Object[s]>> \in newer => <<g, Object[s]>> \in newer'
      /\ <<f, Object[s]>> \in newer'
  BY FileNames DEF Edit, Write, Without, TypeOK, Compared
<1>1. internal[s] \subseteq Code
  BY DEF TypeOK, Dependencies
<1>2. CASE f \in internal[s]
  BY <1>0, <1>2 DEF Regenerated, Newer
<1>3. CASE f \notin internal[s] /\ Regenerated(s)
  BY <1>0, <1>1, <1>3 DEF Regenerated, Newer
<1>4. CASE f \notin internal[s] /\ internal[s] = Needed(s)
  <2>1. Needed(s) \subseteq Code \intersect exists
    BY NeededExists
  <2>2. \A g \in Needed(s) : includes'[g] \intersect exists' = includes[g] \intersect exists
    BY <1>0, <1>4, <2>1 DEF NoneMissing
  <2>3. \A g \in Code : includes[g] \subseteq Headers /\ includes'[g] \subseteq Headers
    BY DEF TypeOK
  <2>4. Needed(s)' = Needed(s)
    BY <2>2, <2>3, ReachedSame DEF Needed
  <2> QED BY <1>0, <1>4, <2>4
<1> QED BY <1>2, <1>3, <1>4

(* A header nothing includes any longer is deleted.                         *)
LEMMA DeleteNoticed ==
  ASSUME TypeOK, TypeOK', CarefulEdits, NEW h \in Headers, Delete(h),
         NEW s \in Sources, internal[s] = Needed(s) \/ Regenerated(s)
  PROVE  (internal[s] = Needed(s) \/ Regenerated(s))'
<1>0. /\ exists' = exists \ {h} /\ internal' = internal /\ includes' = includes
      /\ \A g \in (Code \intersect exists) \ {h} : h \notin includes[g]
      /\ \A g \in Code : g # h /\ <<g, Object[s]>> \in newer => <<g, Object[s]>> \in newer'
      /\ Object[s] \in exists => Object[s] \in exists'
  BY FileNames DEF Delete, Remove, Without
<1>1. internal[s] \subseteq Code
  BY DEF TypeOK, Dependencies
<1>2. CASE h \in internal[s]
  BY <1>0, <1>2 DEF Regenerated
<1>3. CASE h \notin internal[s] /\ Regenerated(s)
  BY <1>0, <1>1, <1>3 DEF Regenerated, Newer
<1>4. CASE h \notin internal[s] /\ internal[s] = Needed(s)
  <2>1. Needed(s) \subseteq Code \intersect exists
    BY NeededExists
  <2>2. \A g \in Needed(s) : includes'[g] \intersect exists' = includes[g] \intersect exists
    BY <1>0, <1>4, <2>1
  <2>3. \A g \in Code : includes[g] \subseteq Headers /\ includes'[g] \subseteq Headers
    BY DEF TypeOK
  <2>4. Needed(s)' = Needed(s)
    BY <2>2, <2>3, ReachedSame DEF Needed
  <2> QED BY <1>0, <1>4, <2>4
<1> QED BY <1>2, <1>3, <1>4

(* A step that leaves code and objects alone keeps the rest of the          *)
(* invariant, if depend.internal still tells what it should.                *)
LEMMA QuietStep ==
  ASSUME IInv, TypeOK', ScanInv', CodeSame, UNCHANGED rules,
         exists' \intersect Objects = exists \intersect Objects,
         \A f \in Code, o \in Objects : /\ <<f, o>> \in newer' <=> <<f, o>> \in newer
                                        /\ <<o, f>> \in newer' <=> <<o, f>> \in newer,
         StoredOK', RulesOK', pc' # "compile", ~built'
  PROVE  IInv'
<1>1. NoneMissing' /\ Total'
  BY ObjectsKept DEF IInv, ScanInv
<1> QED BY <1>1 DEF IInv, CompileOK, BuiltOK, ObjectsUpToDate

(* One that also keeps depend.internal and the time of DependInfo.cmake     *)
(* keeps what is said of them.                                              *)
LEMMA StoredKept ==
  ASSUME IInv, TypeOK', CodeSame, UNCHANGED internal,
         exists' \intersect Objects = exists \intersect Objects,
         \A f \in Code, o \in Objects : /\ <<f, o>> \in newer' <=> <<f, o>> \in newer
                                        /\ <<o, f>> \in newer' <=> <<o, f>> \in newer,
         NeedRescan => NeedRescan', pc \notin {"clear", "remove"}
  PROVE  StoredOK'
<1>1. \A s \in Sources : /\ Needed(s)' = Needed(s)
                         /\ Regenerated(s)' <=> Regenerated(s)
  BY ObjectsKept DEF IInv, ScanInv
<1> QED BY <1>1 DEF IInv, StoredOK

LEMMA InvStep ==
  ASSUME Undisturbed, IInv, [Next]_vars
  PROVE  IInv'
<1>0. ScanInv' /\ TypeOK' /\ TypeOK /\ ScanInv
  BY ScanStep DEF IInv, ScanInv
<1>a. /\ NoneMissing /\ Total /\ StoredOK /\ RulesOK /\ CompileOK
      /\ BuiltOK /\ ObjectsUpToDate
  BY DEF IInv
<1>b. ASSUME UNCHANGED <<files, includes>>
      PROVE  /\ CodeSame /\ exists' \intersect Objects = exists \intersect Objects
             /\ \A f \in Code, o \in Objects :
                  /\ <<f, o>> \in newer' <=> <<f, o>> \in newer
                  /\ <<o, f>> \in newer' <=> <<o, f>> \in newer
             /\ NeedRescan' = NeedRescan
             /\ \A s \in Sources : /\ Needed(s)' = Needed(s)
                                   /\ Fresh(s)' = Fresh(s)
             /\ NoneMissing' /\ Total'
  BY <1>a, <1>b DEF files, CodeSame, NeedRescan, Newer, Needed, Fresh, NoneMissing, Total
<1>1. ASSUME NEW f \in Code, NEW inc \in SUBSET Headers, Edit(f, inc) PROVE IInv'
  <2>0. /\ exists' = exists \union {f} /\ internal' = internal
        /\ pc = "idle" /\ pc' = "idle" /\ ~built' /\ NeedRescan' = NeedRescan
        /\ \A o \in Objects : o \in exists' => o \in exists /\ <<f, o>> \in newer'
        /\ \A g \in Code, o \in Objects : g # f =>
             /\ <<g, o>> \in newer' <=> <<g, o>> \in newer
             /\ <<o, g>> \in newer' <=> <<o, g>> \in newer
    BY <1>0, <1>1, FileNames
    DEF Edit, Idle, Write, Without, NeedRescan, Newer, Compared
  <2>1. NoneMissing'
    BY <1>0, <1>1, <1>a, <2>0 DEF Edit, Undisturbed, NoneMissing, TypeOK
  <2>2. Total'
    BY <1>a, <2>0, FileNames DEF Total, Newer
  <2>3. StoredOK'
    <3>1. SUFFICES ASSUME ~NeedRescan, NEW s \in Sources
                   PROVE  (internal[s] = Needed(s) \/ Regenerated(s))'
      BY <2>0 DEF StoredOK
    <3>2. Objects \subseteq exists
      BY <1>1, <3>1 DEF Edit, Careful, Undisturbed, NeedRescan
    <3>3. internal[s] = Needed(s) \/ Regenerated(s)
      BY <1>a, <2>0, <3>1 DEF StoredOK
    <3> QED BY <1>0, <1>1, <1>a, <3>2, <3>3, EditNoticed DEF Undisturbed
  <2> QED BY <1>0, <2>0, <2>1, <2>2, <2>3
          DEF IInv, RulesOK, CompileOK, BuiltOK, ObjectsUpToDate
<1>2. ASSUME NEW h \in Headers, Delete(h) PROVE IInv'
  <2>0. /\ exists' = exists \ {h} /\ internal' = internal /\ includes' = includes
        /\ pc = "idle" /\ pc' = "idle" /\ ~built' /\ NeedRescan' = NeedRescan
        /\ \A g \in Code, o \in Objects : g # h =>
             /\ <<g, o>> \in newer' <=> <<g, o>> \in newer
             /\ <<o, g>> \in newer' <=> <<o, g>> \in newer
        /\ \A g \in (Code \intersect exists) \ {h} : h \notin includes[g]
    BY <1>2, FileNames
    DEF Delete, Idle, Remove, Without, NeedRescan, Newer, Undisturbed
  <2>1. NoneMissing'
    BY <1>a, <2>0 DEF NoneMissing
  <2>2. Total'
    BY <1>a, <2>0, FileNames DEF Total, Newer
  <2>3. StoredOK'
    <3>1. SUFFICES ASSUME ~NeedRescan, NEW s \in Sources
                   PROVE  (internal[s] = Needed(s) \/ Regenerated(s))'
      BY <2>0 DEF StoredOK
    <3>2. internal[s] = Needed(s) \/ Regenerated(s)
      BY <1>a, <2>0, <3>1 DEF StoredOK
    <3> QED BY <1>0, <1>2, <3>2, DeleteNoticed DEF Undisturbed
  <2> QED BY <1>0, <2>0, <2>1, <2>2, <2>3
          DEF IInv, RulesOK, CompileOK, BuiltOK, ObjectsUpToDate
<1>3. ASSUME Regenerate PROVE IInv'
  <2>0. /\ CodeSame /\ exists' \intersect Objects = exists \intersect Objects
        /\ pc = "idle" /\ pc' = "idle" /\ ~built' /\ UNCHANGED <<internal, rules>>
        /\ \A f \in Code, o \in Objects : /\ <<f, o>> \in newer' <=> <<f, o>> \in newer
                                          /\ <<o, f>> \in newer' <=> <<o, f>> \in newer
    BY <1>3, FileNames DEF Regenerate, Idle, Write, Without, CodeSame
  <2>1. NeedRescan'
    BY <1>3, FileNames DEF Regenerate, Write, NeedRescan, Newer, Compared
  <2>2. StoredOK' /\ RulesOK'
    BY <2>0, <2>1 DEF StoredOK, RulesOK
  <2> QED BY <1>0, <2>0, <2>2, QuietStep
<1>4. ASSUME NEW where \in {"update", "clear"}, Start(where) PROVE IInv'
  <2>1. StoredOK'
    BY <1>0, <1>4, <1>a, <1>b, StoredKept DEF Start, Idle
  <2>2. RulesOK' /\ pc' # "compile" /\ ~built' /\ UNCHANGED <<files, includes, rules>>
    BY <1>4 DEF Start, RulesOK
  <2> QED BY <1>0, <1>b, <2>1, <2>2, QuietStep
<1>5. ASSUME Rescan PROVE IInv'
  <2>1. StoredOK'
    BY <1>0, <1>5, <1>a, <1>b, StoredKept DEF Rescan
  <2>2. RulesOK' /\ pc' # "compile" /\ ~built' /\ UNCHANGED <<files, includes, rules>>
    BY <1>5, <1>a DEF Rescan, RulesOK, BuiltOK
  <2> QED BY <1>0, <1>b, <2>1, <2>2, QuietStep
<1>6. ASSUME Check PROVE IInv'
  <2> DEFINE bad == {s \in Sources : Regenerated(s)}
  <2>0. /\ CodeSame /\ ~built' /\ UNCHANGED <<internal, rules>> /\ pc' # "rules"
        /\ pc = "update" /\ ~NeedRescan
        /\ exists' \subseteq exists
        /\ \A f \in Code, o \in Objects : o \in exists' =>
             /\ <<f, o>> \in newer' <=> <<f, o>> \in newer
             /\ <<o, f>> \in newer' <=> <<o, f>> \in newer
    BY <1>6, <1>a, FileNames DEF Check, Remove, Without, CodeSame, BuiltOK
  <2>1. NoneMissing' /\ Total'
    BY <1>0, <1>a, <2>0, FileNames DEF NoneMissing, Total, CodeSame, Newer, TypeOK, Code
  <2>2. CASE bad # {}
    <3>1. pc' = "clear"
      BY <1>6, <2>2 DEF Check
    <3> QED BY <1>0, <2>0, <2>1, <3>1
            DEF IInv, StoredOK, RulesOK, CompileOK, BuiltOK, ObjectsUpToDate
  <2>3. CASE bad = {}
    <3>1. pc' = "compile" /\ exists' = exists /\ newer' = newer
      <4>1. Remove({})
        BY <1>6, <2>3 DEF Check
      <4> QED BY <1>6, <2>3, <4>1 DEF Check, Remove, Without
    <3>2. \A s \in Sources : internal[s] = Needed(s)
      BY <1>a, <2>0, <2>3 DEF StoredOK
    <3>3. ASSUME NEW s \in Sources, Object[s] \in exists PROVE Fresh(s)
      <4>1. Needed(s) \subseteq Code \intersect exists
        BY <1>0, NeededExists
      <4>2. \A f \in Needed(s) : ~Newer(f, Object[s])
        BY <2>3, <3>2, <3>3 DEF Regenerated
      <4> QED BY <1>a, <3>3, <4>1, <4>2 DEF Total, Fresh
    <3>4. \A s \in Sources : Needed(s)' = Needed(s) /\ Fresh(s)' = Fresh(s)
      BY <1>6, <3>1, <1>b DEF files, Check
    <3>5. CompileOK'
      BY <2>0, <3>1, <3>2, <3>3, <3>4 DEF CompileOK, NeedRescan
    <3>6. StoredOK' /\ RulesOK' /\ BuiltOK' /\ ObjectsUpToDate'
      BY <2>0, <3>1, <3>2, <3>4 DEF StoredOK, RulesOK, BuiltOK, ObjectsUpToDate
    <3> QED BY <1>0, <2>1, <3>5, <3>6 DEF IInv
  <2> QED BY <2>2, <2>3
<1>7. ASSUME ClearRules PROVE IInv'
  <2>1. NoneMissing' /\ Total' /\ ~built' /\ pc' = "remove"
    BY <1>7, <1>a, <1>b DEF ClearRules, BuiltOK
  <2> QED BY <1>0, <2>1
          DEF IInv, StoredOK, RulesOK, CompileOK, BuiltOK, ObjectsUpToDate
<1>8. ASSUME RemoveInternal PROVE IInv'
  <2>0. /\ CodeSame /\ exists' \intersect Objects = exists \intersect Objects
        /\ pc' = "scan" /\ ~built' /\ UNCHANGED rules /\ Internal \notin exists'
        /\ \A f \in Code, o \in Objects : /\ <<f, o>> \in newer' <=> <<f, o>> \in newer
                                          /\ <<o, f>> \in newer' <=> <<o, f>> \in newer
    BY <1>8, <1>a, FileNames DEF RemoveInternal, Remove, Without, CodeSame, BuiltOK
  <2>1. StoredOK' /\ RulesOK'
    BY <2>0 DEF StoredOK, RulesOK, NeedRescan
  <2> QED BY <1>0, <2>0, <2>1, QuietStep
<1>9. ASSUME Scan PROVE IInv'
  <2>1. StoredOK'
    BY <1>0, <1>9, <1>a, <1>b, StoredKept DEF Scan
  <2>2. RulesOK' /\ pc' # "compile" /\ ~built' /\ UNCHANGED <<files, includes, rules>>
    BY <1>9, <1>a DEF Scan, RulesOK, BuiltOK
  <2> QED BY <1>0, <1>b, <2>1, <2>2, QuietStep
<1>10. ASSUME TruncateCache \/ BeginEntry \/ EndEntry \/ CloseCache PROVE IInv'
  <2>0. /\ CodeSame /\ exists' \intersect Objects = exists \intersect Objects
        /\ UNCHANGED <<internal, rules>> /\ pc \notin {"clear", "remove"}
        /\ \A f \in Code, o \in Objects : /\ <<f, o>> \in newer' <=> <<f, o>> \in newer
                                          /\ <<o, f>> \in newer' <=> <<o, f>> \in newer
        /\ NeedRescan => NeedRescan'
    BY <1>10, FileNames
    DEF TruncateCache, BeginEntry, EndEntry, CloseCache, Write, Without, CodeSame,
        NeedRescan, Newer, files
  <2>1. StoredOK'
    BY <1>0, <2>0, StoredKept
  <2>2. RulesOK' /\ pc' # "compile" /\ ~built'
    BY <1>10, <1>a DEF TruncateCache, BeginEntry, EndEntry, CloseCache, RulesOK, BuiltOK
  <2> QED BY <1>0, <2>0, <2>1, <2>2, QuietStep
<1>11. ASSUME WriteInternal PROVE IInv'
  <2>0. /\ CodeSame /\ exists' \intersect Objects = exists \intersect Objects
        /\ UNCHANGED rules /\ pc' = "rules" /\ ~built' /\ internal' = deps /\ deps' = deps
        /\ \A f \in Code, o \in Objects : /\ <<f, o>> \in newer' <=> <<f, o>> \in newer
                                          /\ <<o, f>> \in newer' <=> <<o, f>> \in newer
        /\ Internal \in exists'
    BY <1>11, <1>a, FileNames
    DEF WriteInternal, Write, Without, CodeSame, files, BuiltOK
  <2>1. StoredOK'
    <3>1. pc = "internal" /\ ScanIsExact'
      BY <1>0, <1>11 DEF ScanInv, WriteInternal, Undisturbed, WholeEntries
    <3> QED BY <1>0, <2>0, <3>1 DEF ScanIsExact, StoredOK
  <2>2. RulesOK'
    BY <2>0 DEF RulesOK
  <2> QED BY <1>0, <2>0, <2>1, <2>2, QuietStep
<1>12. ASSUME WriteRules PROVE IInv'
  <2>0. /\ pc = "rules" /\ pc' = "compile" /\ ~built' /\ rules' = deps
        /\ internal' = internal /\ UNCHANGED <<files, includes>>
    BY <1>12, <1>a DEF WriteRules, BuiltOK
  <2>1. \A s \in Sources : internal'[s] = Needed(s)' /\ rules'[s] = Needed(s)'
    BY <1>0, <1>a, <1>b, <2>0
    DEF RulesOK, ScanInv, ScanIsExact, Undisturbed, WholeEntries
  <2>2. CompileOK' /\ StoredOK' /\ NoneMissing' /\ Total'
    BY <1>a, <1>b, <2>0, <2>1 DEF CompileOK, StoredOK, RulesOK, files
  <2> QED BY <1>0, <2>0, <2>2 DEF IInv, RulesOK, BuiltOK, ObjectsUpToDate
<1>13. ASSUME NEW s \in Sources, Compile(s) PROVE IInv'
  <2>0. /\ CodeSame /\ ~built' /\ UNCHANGED <<internal, rules>>
        /\ pc = "compile" /\ pc' = "compile"
        /\ exists' = exists \union {Object[s]}
        /\ \A f \in Code, o \in Objects : o # Object[s] =>
             /\ <<f, o>> \in newer' <=> <<f, o>> \in newer
             /\ <<o, f>> \in newer' <=> <<o, f>> \in newer
        /\ \A f \in Code \intersect exists : <<Object[s], f>> \in newer'
    BY <1>13, <1>a, FileNames DEF Compile, Write, Without, CodeSame, BuiltOK, Compared
  <2>1. NoneMissing' /\ Total'
    <3>1. NoneMissing'
      BY <1>0, <1>a, <2>0 DEF NoneMissing, CodeSame, TypeOK, Code
    <3>2. Total'
      BY <1>a, <2>0, FileNames DEF Total, CodeSame, Newer
    <3> QED BY <3>1, <3>2
  <2>2. \A t \in Sources : Needed(t)' = Needed(t) /\ Needed(t) \subseteq Code \intersect exists
    BY <1>0, <2>0, NeededSame, NeededExists DEF CodeSame
  <2>3. \A t \in Sources : internal'[t] = Needed(t)'
    BY <1>a, <2>0, <2>2 DEF CompileOK
  <2>4. Fresh(s)'
    BY <2>0, <2>2 DEF Fresh, Newer
  <2>5. \A t \in Sources : t # s => (Object[t] \in exists' <=> Object[t] \in exists)
                                    /\ (Fresh(t)' <=> Fresh(t))
    BY <2>0, <2>2, FileNames, DistinctFiles DEF Fresh, Newer
  <2>6. CompileOK'
    BY <1>a, <2>0, <2>2, <2>3, <2>4, <2>5 DEF CompileOK
  <2> QED BY <1>0, <2>0, <2>1, <2>3, <2>6
          DEF IInv, StoredOK, RulesOK, BuiltOK, ObjectsUpToDate
<1>14. ASSUME NEW s \in Sources, CompileFails(s) PROVE IInv'
  <2>0. /\ CodeSame /\ ~built' /\ UNCHANGED <<internal, rules>>
        /\ pc = "compile" /\ pc' = "idle" /\ exists' \subseteq exists
        /\ \A f \in Code, o \in Objects : o \in exists' =>
             /\ <<f, o>> \in newer' <=> <<f, o>> \in newer
             /\ <<o, f>> \in newer' <=> <<o, f>> \in newer
    BY <1>14, <1>a, FileNames DEF CompileFails, Remove, Without, CodeSame, BuiltOK, files
  <2>1. NoneMissing' /\ Total'
    BY <1>0, <1>a, <2>0, FileNames DEF NoneMissing, Total, CodeSame, Newer, TypeOK, Code
  <2>2. \A t \in Sources : Needed(t)' = Needed(t)
    BY <1>0, <2>0, NeededSame DEF CodeSame
  <2>3. StoredOK'
    BY <1>a, <2>0, <2>2 DEF StoredOK, CompileOK
  <2> QED BY <1>0, <2>0, <2>1, <2>3
          DEF IInv, RulesOK, CompileOK, BuiltOK, ObjectsUpToDate
<1>15. ASSUME Finish PROVE IInv'
  <2>0. /\ pc = "compile" /\ pc' = "idle" /\ UNCHANGED <<files, includes, internal, rules>>
    BY <1>15 DEF Finish
  <2>1. ASSUME built' PROVE ObjectsUpToDate'
    <3>1. \A s \in Sources : ~Outdated(s)
      BY <1>15, <1>a, <2>1 DEF Finish, BuiltOK
    <3>2. ASSUME NEW s \in Sources PROVE Object[s] \in exists /\ Fresh(s)
      <4>1. Object[s] \in exists /\ \A f \in rules[s] : ~Newer(f, Object[s])
        BY <3>1 DEF Outdated
      <4>2. Needed(s) \subseteq Code \intersect exists
        BY <1>0, NeededExists
      <4>3. CASE rules[s] = Needed(s)
        BY <1>a, <4>1, <4>2, <4>3 DEF Total, Fresh
      <4> QED BY <1>a, <2>0, <4>1, <4>3 DEF CompileOK
    <3> QED BY <2>0, <3>2, <1>b DEF ObjectsUpToDate, files, Fresh
  <2>2. StoredOK' /\ NoneMissing' /\ Total'
    BY <1>a, <1>b, <2>0 DEF StoredOK, CompileOK, files
  <2> QED BY <1>0, <2>0, <2>1, <2>2
          DEF IInv, RulesOK, CompileOK, BuiltOK, ObjectsUpToDate
<1>16. ASSUME Interrupt PROVE IInv'
  <2>1. StoredOK'
    BY <1>0, <1>16, <1>a, <1>b, StoredKept DEF Interrupt, Undisturbed
  <2>2. RulesOK' /\ pc' = "idle" /\ UNCHANGED <<files, includes, rules, built>>
    BY <1>16, <1>a DEF Interrupt, RulesOK
  <2>3. pc # "idle"
    BY <1>16, InterruptedAtOperations DEF Interrupt, Operations
  <2> QED BY <1>0, <1>a, <1>b, <2>1, <2>2, <2>3, QuietStep DEF BuiltOK
<1>17. CASE UNCHANGED vars
  <2>0. UNCHANGED <<files, includes, internal, rules, cache, pc, deps, built>>
    BY <1>17 DEF vars, files
  <2>1. \A s \in Sources : Regenerated(s)' <=> Regenerated(s)
    BY <2>0 DEF Regenerated, files, Newer
  <2> QED BY <1>0, <1>a, <1>b, <2>0, <2>1
          DEF IInv, StoredOK, RulesOK, CompileOK, BuiltOK, ObjectsUpToDate, files, Fresh, Newer
<1> QED
  BY <1>1, <1>2, <1>3, <1>4, <1>5, <1>6, <1>7, <1>8, <1>9, <1>10, <1>11, <1>12, <1>13,
     <1>14, <1>15, <1>16, <1>17 DEF Next

LEMMA InvInit ==
  ASSUME Init
  PROVE  IInv
<1>1. \A s \in Sources : Object[s] \notin exists
  BY FileNames DEF Init
<1>2. NoneMissing /\ Total /\ Internal \notin exists
  BY <1>1, FileNames DEF Init, NoneMissing, Total, Code
<1>3. pc = "idle" /\ ~built
  BY DEF Init
<1> QED BY <1>2, <1>3, ScanInit
        DEF IInv, StoredOK, NeedRescan, RulesOK, CompileOK, BuiltOK, ObjectsUpToDate

(* Whatever was scanned, edited, regenerated or interrupted before, a make  *)
(* that ends without an error leaves every object newer than all the files  *)
(* it is made from, if nothing is edited while objects are missing after a  *)
(* failed compilation, no file is included that does not exist, and builds  *)
(* are interrupted neither between the lines of one entry of the include    *)
(* cache (cmDependsC::WriteCacheFile) nor between the removal of objects by *)
(* cmDepends::CheckDependencies and that of depend.internal.                *)
THEOREM BuildsAreUpToDate ==
  ASSUME Undisturbed
  PROVE  Spec => []ObjectsUpToDate
<1>1. IInv => ObjectsUpToDate
  BY DEF IInv
<1>2. IInv /\ [Next]_vars => IInv'
  BY InvStep
<1> QED BY <1>1, <1>2, InvInit, PTL DEF Spec
=============================================================================
