-------------------------- MODULE RegenerateProofs --------------------------
(* Proofs about Regenerate, for any project, any texts of the user and any  *)
(* steps at which runs are interrupted.                                     *)
EXTENDS Regenerate, SequenceTheorems, WellFoundedInduction, TLAPS

---------------------------------------------------------------------------
(* The operators of Cache and their types.                                  *)

(* A set of positions has a last one.                                       *)
LEMMA LastPosition ==
  ASSUME NEW n \in Nat, NEW S \in SUBSET (1..n), S # {}
  PROVE  \E i \in S : \A j \in S : j <= i
<1> DEFINE T == {n - i : i \in S}
<1>1. T \subseteq Nat /\ T # {}
  <2>1. \A i \in S : i \in Nat /\ n - i \in Nat
    OBVIOUS
  <2> QED BY <2>1
<1> DEFINE Less == {p \in Nat \X Nat : p[1] < p[2]}
<1>2. PICK m \in T : \A k \in T : <<k, m>> \notin Less
  <2>1. IsWellFoundedOn(Less, Nat)
    BY NatLessThanWellFounded DEF OpToRel
  <2> HIDE DEF Less, T
  <2> QED BY <1>1, <2>1, WFMin
<1>3. \A k \in T : m <= k
  <2> SUFFICES ASSUME NEW k \in T PROVE m <= k
    OBVIOUS
  <2>1. ~(k < m)
    BY <1>1, <1>2
  <2> QED BY <1>1, <2>1
<1>4. PICK i \in S : m = n - i
  OBVIOUS
<1>5. \A j \in S : j <= i
  <2> SUFFICES ASSUME NEW j \in S PROVE j <= i
    OBVIOUS
  <2>1. n - i <= n - j
    BY <1>3, <1>4
  <2>2. i \in Nat /\ j \in Nat
    OBVIOUS
  <2> HIDE DEF T
  <2> QED BY <2>1, <2>2
<1> QED BY <1>5

LEMMA TrimmedType ==
  ASSUME NEW text \in Values
  PROVE  Trimmed(text) \in Values
<1> DEFINE solid == {i \in 1..Len(text) : text[i] # Blank}
           last == CHOOSE i \in solid : \A j \in solid : j <= i
<1>1. CASE solid = {}
  BY <1>1 DEF Trimmed
<1>2. CASE solid # {}
  <2>1. last \in solid
    <3>1. \E i \in solid : \A j \in solid : j <= i
      BY <1>2, LastPosition, Len(text) \in Nat DEF Values
    <3> QED BY <3>1
  <2>2. \A i \in 1..last : text[i] \in Pieces
    BY <2>1 DEF Values
  <2>3. SubSeq(text, 1, last) \in Seq(Pieces)
    <3> HIDE DEF last
    <3> QED BY <2>1, <2>2, SubSeqProperties
  <2> QED BY <1>2, <2>3 DEF Trimmed, Values
<1> QED BY <1>1, <1>2

LEMMA ParsedType ==
  ASSUME NEW text \in Values
  PROVE  Parsed(text) \in Values
<1> DEFINE v == Trimmed(text)
<1>1. v \in Seq(Pieces)
  BY TrimmedType DEF Values
<1> HIDE DEF v
<1>2. SubSeq(v, 2, Len(v) - 1) \in Seq(Pieces)
  <2>1. \A i \in 2..(Len(v) - 1) : v[i] \in Pieces
    BY <1>1
  <2> QED BY <1>1, <2>1, SubSeqProperties, Len(v) \in Nat
<1> QED BY <1>1, <1>2 DEF v, Parsed, Values

LEMMA WrittenType ==
  ASSUME NEW v \in Values
  PROVE  Written(v) \in Values
<1>1. <<Quote>> \in Seq(Pieces)
  BY DEF Pieces
<1>2. (<<Quote>> \o v) \o <<Quote>> \in Seq(Pieces)
  BY <1>1, ConcatProperties DEF Values
<1> QED BY <1>2 DEF Written, Values

LEMMA OnOffType == \A b : OnOff(b) \in Values
<1>1. <<On>> \in Seq(Pieces) /\ <<Off>> \in Seq(Pieces)
  BY DEF Pieces
<1> QED BY <1>1 DEF OnOff, Values

LEMMA EmptyType == <<>> \in Values
  BY DEF Values

LEMMA SavedType ==
  ASSUME NEW entry \in Entry \union {Absent}
  PROVE  Saved(entry) \in Line \union {Absent}
<1>1. CASE entry = Absent
  BY <1>1 DEF Saved
<1>2. CASE entry \in Entry
  <2>1. Written(entry.value) \in Values
    BY <1>2, WrittenType DEF Entry
  <2> QED BY <1>2, <2>1 DEF Saved, Entry, Line
<1> QED BY <1>1, <1>2

LEMMA LoadedType ==
  ASSUME NEW line \in Line \union {Absent}
  PROVE  Loaded(line) \in Entry \union {Absent}
<1>1. CASE line = Absent
  BY <1>1 DEF Loaded
<1>2. CASE line \in Line
  <2>1. Parsed(line.text) \in Values
    BY <1>2, ParsedType DEF Line
  <2> QED BY <1>2, <2>1 DEF Loaded, Entry, Line, Advanced
<1> QED BY <1>1, <1>2

LEMMA AddCacheEntryType ==
  ASSUME NEW entry \in Entry \union {Absent}, NEW type \in Types, NEW v \in Values
  PROVE  AddCacheEntry(entry, type, v) \in Entry
  BY DEF AddCacheEntry, Entry, Advanced

(* Every command leaves an entry and a definition.                          *)
LEMMA InvokeType ==
  ASSUME NEW u \in Variable, NEW c \in Command
  PROVE  Invoke(u, c) \in Variable
<1>1. CASE c.name = "set"
  <2>1. c.value \in Values \union {Absent}
    BY <1>1 DEF Command
  <2> QED BY <1>1, <2>1 DEF Invoke, SetCommand, Variable
<1>2. CASE c.name = "cache"
  <2>1. c.value \in Values /\ c.type \in Types
    BY <1>2 DEF Command
  <2>2. (IF Given(u.entry) THEN u.entry.value ELSE c.value) \in Values
    BY <2>1 DEF Given, Variable, Entry
  <2>3. AddCacheDefinition(u, c.type, c.value) \in Variable
    BY <2>1, <2>2, AddCacheEntryType DEF AddCacheDefinition, Variable
  <2> QED BY <1>2, <2>3 DEF Invoke, SetCacheCommand
<1>3. CASE c.name = "option"
  <2>1. \A b : AddBoolDefinition(u, b) \in Variable
    BY OnOffType, AddCacheEntryType DEF AddBoolDefinition, Variable, Types
  <2> QED BY <1>3, <2>1 DEF Invoke, OptionCommand
<1>4. CASE c.name = "mark_as_advanced"
  BY <1>4, EmptyType DEF Invoke, MarkAsAdvancedCommand, Variable, Entry, Advanced, Types
<1>5. CASE c.name = "message"
  BY <1>5 DEF Invoke
<1> QED BY <1>1, <1>2, <1>3, <1>4, <1>5 DEF Command

LEMMA SetCacheArgType ==
  ASSUME NEW entry \in Entry \union {Absent}, NEW arg \in Argument
  PROVE  SetCacheArg(entry, arg) \in Entry \union {Absent}
<1>1. CASE arg.name = "-D"
  <2>1. arg.text \in Values /\ arg.type \in Types
    BY <1>1 DEF Argument
  <2> QED BY <1>1, <2>1, ParsedType, AddCacheEntryType DEF SetCacheArg
<1>2. CASE arg.name = "-U"
  BY <1>2 DEF SetCacheArg
<1>3. CASE arg.name = "none"
  BY <1>3 DEF SetCacheArg
<1> QED BY <1>1, <1>2, <1>3 DEF Argument
---------------------------------------------------------------------------
(* Types.                                                                   *)

LEMMA CleanedType ==
  ASSUME exists \subseteq Generated, newer \subseteq Depends \X (Outputs \intersect exists)
  PROVE  /\ Clean \subseteq exists
         /\ Cleaned \subseteq Depends \X (Outputs \intersect Clean)
  BY DEF Clean, Cleaned

LEMMA LoadType ==
  ASSUME TypeOK, NEW arg \in Argument, Load(arg)
  PROVE  x' \in Variable
<1> DEFINE entry == IF saved = Missing THEN Absent ELSE Loaded(saved)
<1>1. entry \in Entry \union {Absent}
  BY LoadedType DEF TypeOK
<1> HIDE DEF entry
<1>2. SetCacheArg(entry, arg) \in Entry \union {Absent}
  BY <1>1, SetCacheArgType
<1> QED BY <1>2 DEF Load, Variable, entry

LEMMA ArgumentsTyped ==
  /\ NoArgument \in Argument
  /\ [name |-> "-U"] \in Argument
  /\ \A text \in Texts, type \in {"UNINITIALIZED", "STRING"} :
       [name |-> "-D", text |-> text, type |-> type] \in Argument
  BY TextsAreValues DEF NoArgument, Argument, Types

LEMMA ProjectTyped ==
  ASSUME NEW p \in Projects
  PROVE  p \in Seq(Command) /\ Len(p) \in Nat
<1>1. p \in Seq(Command)
  BY ProjectsAreCommands
<1> QED BY <1>1

LEMMA InitTypes == Init => TypeOK
<1> SUFFICES ASSUME Init PROVE TypeOK
  OBVIOUS
<1>1. step \in 0..Len(project) /\ quiet \in 0..2
  <2>1. Len(project) \in Nat
    BY ProjectTyped DEF Init
  <2> QED BY <2>1 DEF Init
<1>2. x \in Variable
  BY DEF Init, NoVariable, Variable
<1> QED BY <1>1, <1>2 DEF Init, TypeOK

LEMMA RunCMakeTypes ==
  ASSUME TypeOK, NEW arg \in Argument, RunCMake(arg)
  PROVE  TypeOK'
<1>1. x' \in Variable
  BY LoadType DEF RunCMake
<1>2. asked' \in Values \union {Absent}
  <2>1. CASE arg.name = "-D"
    <3>1. arg.text \in Values
      BY <2>1 DEF Argument
    <3> QED BY <2>1, <3>1, ParsedType DEF RunCMake
  <2>2. CASE arg.name = "-U"
    BY <2>2 DEF RunCMake
  <2>3. CASE arg.name = "none"
    BY <2>3 DEF RunCMake, TypeOK
  <2> QED BY <2>1, <2>2, <2>3 DEF Argument
<1>3. exists' \subseteq Generated /\ newer' \subseteq Depends \X (Outputs \intersect exists')
  BY CleanedType DEF RunCMake, TypeOK
<1>4. step' \in 0..Len(project')
  BY ProjectTyped DEF RunCMake, TypeOK
<1>5. quiet' \in 0..2
  BY DEF RunCMake, TypeOK
<1>6. /\ UNCHANGED <<project, saved, kept>> /\ pc' = "configure"
      /\ error' = FALSE /\ byMake' = FALSE /\ complete' = FALSE
  BY DEF RunCMake
<1> QED BY <1>1, <1>2, <1>3, <1>4, <1>5, <1>6 DEF TypeOK, Steps

LEMMA MakeTypes ==
  ASSUME TypeOK, Make
  PROVE  TypeOK'
<1>1. x' \in Variable
  BY LoadType, ArgumentsTyped DEF Make, memory, TypeOK
<1>2. exists' \subseteq Generated /\ newer' \subseteq Depends \X (Outputs \intersect exists')
  BY CleanedType DEF Make, TypeOK
<1>3. step' \in 0..Len(project')
  BY ProjectTyped DEF Make, memory, TypeOK
<1> QED BY <1>1, <1>2, <1>3 DEF Make, memory, TypeOK, Steps

LEMMA WriteType ==
  ASSUME exists \subseteq Generated, newer \subseteq Depends \X (Outputs \intersect exists),
         NEW f \in Outputs, Write(f)
  PROVE  /\ exists' \subseteq Generated
         /\ newer' \subseteq Depends \X (Outputs \intersect exists')
  BY DEF Write, OutputWritten, Generated

LEMMA DependWrittenType ==
  ASSUME newer \subseteq Depends \X (Outputs \intersect exists), NEW d \in Depends
  PROVE  DependWritten(d) \subseteq Depends \X (Outputs \intersect exists)
  BY DEF DependWritten

LEMMA ExitTypes ==
  ASSUME project \in Projects, NEW next \in {"idle", "build"}, Exit(next)
  PROVE  /\ pc' \in {"idle", "build"} /\ step' = 0 /\ step' \in 0..Len(project)
         /\ x' \in Variable /\ error' \in BOOLEAN /\ byMake' \in BOOLEAN
         /\ asked' \in Values \union {Absent}
<1>1. step' = 0 /\ step' \in 0..Len(project)
  <2>1. Len(project) \in Nat
    BY ProjectTyped
  <2> QED BY <2>1 DEF Exit
<1>2. x' \in Variable
  <2>1. NoVariable \in Variable
    BY DEF NoVariable, Variable
  <2> QED BY <2>1 DEF Exit
<1>3. /\ pc' \in {"idle", "build"} /\ error' \in BOOLEAN /\ byMake' \in BOOLEAN
      /\ asked' \in Values \union {Absent}
  BY DEF Exit
<1> QED BY <1>1, <1>2, <1>3

LEMMA DisturbedTypes == Disturbed => quiet' \in 0..2 /\ complete' \in BOOLEAN
<1>1. Disturbed => quiet' \in 0..2
  BY DEF Disturbed
<1>2. Disturbed => complete' \in BOOLEAN
  BY DEF Disturbed
<1> QED BY <1>1, <1>2

LEMMA UserTypes == TypeOK /\ User => TypeOK'
<1> SUFFICES ASSUME TypeOK, User PROVE TypeOK'
  OBVIOUS
<1>1. ASSUME NEW p \in Projects, EditProject(p) PROVE TypeOK'
  <2>1. newer' \subseteq Depends \X (Outputs \intersect exists')
    BY <1>1, DependWrittenType DEF EditProject, TypeOK, Depends
  <2>2. step' \in 0..Len(project')
    BY <1>1, ProjectTyped DEF EditProject, TypeOK, memory
  <2> QED BY <1>1, <2>1, <2>2, DisturbedTypes DEF EditProject, TypeOK, memory
<1>2. ASSUME NEW text \in Texts, EditCache(text) PROVE TypeOK'
  <2>1. newer' \subseteq Depends \X (Outputs \intersect exists')
    BY <1>2, DependWrittenType DEF EditCache, TypeOK, Depends
  <2>2. text \in Values /\ saved \in Line
    BY <1>2, TextsAreValues DEF EditCache, TypeOK
  <2>3. saved' \in Line
    BY <1>2, <2>2 DEF EditCache, Line
  <2>4. kept' \in Values
    BY <1>2, <2>2, ParsedType DEF EditCache
  <2> QED BY <1>2, <2>1, <2>3, <2>4, DisturbedTypes DEF EditCache, TypeOK, memory
<1>3. CASE DeleteCache
  BY <1>3, DisturbedTypes DEF DeleteCache, TypeOK, memory
<1>4. CASE RunCMake(NoArgument)
  BY <1>4, RunCMakeTypes, ArgumentsTyped
<1>5. ASSUME NEW text \in Texts, NEW type \in {"UNINITIALIZED", "STRING"},
             RunCMake([name |-> "-D", text |-> text, type |-> type])
      PROVE  TypeOK'
  BY <1>5, RunCMakeTypes, ArgumentsTyped
<1>6. CASE RunCMake([name |-> "-U"])
  BY <1>6, RunCMakeTypes, ArgumentsTyped
<1>7. CASE Make
  BY <1>7, MakeTypes
<1> QED BY <1>1, <1>2, <1>3, <1>4, <1>5, <1>6, <1>7 DEF User

LEMMA ConfigureTypes == TypeOK /\ Configure => TypeOK'
<1> SUFFICES ASSUME TypeOK, Configure PROVE TypeOK'
  OBVIOUS
<1>1. project[step + 1] \in Command /\ step' \in 0..Len(project)
  BY ProjectTyped DEF TypeOK, Configure
<1>2. x' \in Variable
  BY <1>1, InvokeType DEF TypeOK, Configure
<1> QED BY <1>1, <1>2 DEF TypeOK, Configure, disk

LEMMA RunTypes ==
  ASSUME TypeOK,
         \/ SaveCache \/ CopyCache \/ WriteCheckCache \/ WriteLocalMakefile
         \/ WriteDirectoryInformation \/ WriteMainMakefile2 \/ WriteMainCMakefile
         \/ Build \/ Interrupt
  PROVE  TypeOK'
<1>2. Saved(x.entry) \in Line \union {Absent}
  BY SavedType DEF TypeOK, Variable
<1>3. CASE SaveCache
  BY <1>3 DEF SaveCache, TypeOK, memory, Steps
<1>4. CASE CopyCache
  BY <1>2, <1>4, DependWrittenType DEF CopyCache, TypeOK, memory, Steps, Depends
<1>5. CASE WriteCheckCache
  <2>1. exists' \subseteq Generated /\ newer' \subseteq Depends \X (Outputs \intersect exists')
    BY <1>5, WriteType DEF WriteCheckCache, TypeOK, Outputs
  <2>2. CASE error
    <3>1. Exit("idle") /\ quiet' = 0
      BY <1>5, <2>2 DEF WriteCheckCache
    <3> QED BY <1>5, <2>1, <3>1, ExitTypes DEF WriteCheckCache, TypeOK
  <2>3. CASE ~error
    BY <1>5, <2>1, <2>3 DEF WriteCheckCache, TypeOK, memory, Steps
  <2> QED BY <2>2, <2>3
<1>6. CASE WriteLocalMakefile
  <2>1. exists' \subseteq Generated /\ newer' \subseteq Depends \X (Outputs \intersect exists')
    BY <1>6, WriteType DEF WriteLocalMakefile, TypeOK, Outputs
  <2> QED BY <1>6, <2>1 DEF WriteLocalMakefile, TypeOK, memory, history, Steps
<1>7. CASE WriteDirectoryInformation
  <2>1. exists' \subseteq Generated /\ newer' \subseteq Depends \X (Outputs \intersect exists')
    BY <1>7, WriteType DEF WriteDirectoryInformation, TypeOK, Outputs
  <2> QED BY <1>7, <2>1 DEF WriteDirectoryInformation, TypeOK, memory, history, Steps
<1>8. CASE WriteMainMakefile2
  BY <1>8 DEF WriteMainMakefile2, TypeOK, memory, history, Steps, Generated
<1>9. CASE WriteMainCMakefile
  <2>1. exists' \subseteq Generated /\ newer' \subseteq Depends \X (Outputs \intersect exists')
    BY <1>9 DEF WriteMainCMakefile, TypeOK, Generated
  <2>2. quiet' \in 0..2
    BY <1>9 DEF WriteMainCMakefile, TypeOK
  <2> QED BY <1>9, <2>1, <2>2, ExitTypes DEF WriteMainCMakefile, TypeOK
<1>10. CASE Build
  BY <1>10 DEF Build, TypeOK, disk, memory, history
<1>11. CASE Interrupt
  BY <1>11, ExitTypes, DisturbedTypes DEF Interrupt, TypeOK, disk
<1> QED BY <1>3, <1>4, <1>5, <1>6, <1>7, <1>8, <1>9, <1>10, <1>11

LEMMA NextTypes == TypeOK /\ [Next]_vars => TypeOK'
<1> SUFFICES ASSUME TypeOK, [Next]_vars PROVE TypeOK'
  OBVIOUS
<1>1. CASE UNCHANGED vars
  BY <1>1 DEF vars, disk, memory, history, TypeOK
<1> QED BY <1>1, UserTypes, ConfigureTypes, RunTypes DEF Next

(* The variables keep their types: whatever is given, edited, quoted and    *)
(* interrupted, entries, lines and commands fit together.                   *)
THEOREM TypeCorrect == Spec => []TypeOK
<1> QED BY InitTypes, NextTypes, PTL DEF Spec

---------------------------------------------------------------------------
(* The files.                                                               *)

UpToDate(o) == o \in exists /\ \A d \in Depends : <<d, o>> \notin newer

(* A run leaves behind what it has written.                                 *)
SavedInv == pc \in Steps \ {"configure", "copy"} => saved # Missing
WrittenInv ==
  /\ pc \in {"Makefile", "DirectoryInformation", "Makefile2", "Makefile.cmake"} =>
       UpToDate("check_cache")
  /\ pc \in {"DirectoryInformation", "Makefile2", "Makefile.cmake"} => UpToDate("Makefile")
  /\ pc \in {"Makefile2", "Makefile.cmake"} => UpToDate("DirectoryInformation")
FilesInv == "Makefile.cmake" \in exists \/ pc = "Makefile.cmake" => "Makefile2" \in exists

(* Nobody goes on after a full run, or to build, with files out of date.    *)
CompleteInv == complete => pc \in {"idle", "build"} /\ ~NeedsRun
BuildInv == pc = "build" => ~NeedsRun

RunInv == TypeOK /\ SavedInv /\ WrittenInv /\ FilesInv /\ CompleteInv /\ BuildInv

(* Makefile2 was generated from the files there are, unless the directory   *)
(* information, which is written before it and removed with the cache,      *)
(* tells that they have changed.                                            *)
Current == makefile2.project = project /\ makefile2.saved = saved
CurrentInv ==
  pc # "Makefile2" /\ saved # Missing /\ UpToDate("DirectoryInformation") => Current

LEMMA SavedNotMissing == TypeOK => Saved(x.entry) # Missing
<1> SUFFICES ASSUME TypeOK PROVE Saved(x.entry) # Missing
  OBVIOUS
<1>1. x.entry \in Entry \union {Absent}
  BY DEF TypeOK, Variable
<1> QED BY <1>1, SavedType, MissingIsNoLine

(* With a cache, loading it touches no file.                                *)
LEMMA NothingCleaned ==
  ASSUME TypeOK, saved # Missing
  PROVE  Clean = exists /\ Cleaned = newer
<1>1. Clean = exists
  BY DEF Clean
<1>2. \A p \in newer : p[2] \in exists
  BY DEF TypeOK
<1> QED BY <1>1, <1>2 DEF Cleaned

LEMMA AllUpToDate ==
  ASSUME TypeOK, \A o \in Outputs : UpToDate(o)
  PROVE  Outputs \subseteq exists /\ newer = {}
  BY DEF TypeOK, UpToDate

LEMMA WriteUpToDate ==
  ASSUME NEW f \in Outputs, Write(f)
  PROVE  /\ UpToDate(f)' /\ exists' = exists \union {f}
         /\ \A o \in Outputs : UpToDate(o) => UpToDate(o)'
  BY DEF Write, OutputWritten, UpToDate

LEMMA InitRunInv == Init => RunInv
  BY InitTypes DEF Init, RunInv, SavedInv, WrittenInv, FilesInv, CompleteInv, BuildInv, Steps

(* The actions of a user who sees no run in progress.                       *)
LEMMA IdleRunInv ==
  ASSUME RunInv, TypeOK',
         \/ \E p \in Projects : EditProject(p)
         \/ \E text \in Texts : EditCache(text)
         \/ DeleteCache \/ Build
  PROVE  RunInv'
<1>1. ASSUME pc = "idle", pc' = "idle", complete' = FALSE, exists' = exists
      PROVE  RunInv'
  BY <1>1 DEF RunInv, SavedInv, WrittenInv, FilesInv, CompleteInv, BuildInv, Steps
<1>2. ASSUME NEW p \in Projects, EditProject(p) PROVE RunInv'
  BY <1>1, <1>2 DEF EditProject, Disturbed
<1>3. ASSUME NEW text \in Texts, EditCache(text) PROVE RunInv'
  BY <1>1, <1>3 DEF EditCache, Disturbed
<1>4. CASE DeleteCache
  BY <1>1, <1>4 DEF DeleteCache, Disturbed
<1>5. CASE Build
  <2>1. NeedsRun' = NeedsRun
    BY <1>5 DEF Build, disk, NeedsRun
  <2> QED BY <1>5, <2>1 DEF Build, disk, history, RunInv, SavedInv, WrittenInv, FilesInv,
                            CompleteInv, BuildInv, Steps
<1> QED BY <1>2, <1>3, <1>4, <1>5

(* A run, or the build, begins.                                             *)
LEMMA BeginRunInv ==
  ASSUME RunInv, TypeOK', Make \/ \E arg \in Argument : RunCMake(arg)
  PROVE  RunInv'
<1>1. ASSUME pc = "idle", pc' = "configure", complete' = FALSE, exists' = Clean
      PROVE  RunInv'
  BY <1>1 DEF RunInv, SavedInv, WrittenInv, FilesInv, CompleteInv, BuildInv, Steps, Clean
<1>2. ASSUME NEW arg \in Argument, RunCMake(arg) PROVE RunInv'
  BY <1>1, <1>2 DEF RunCMake
<1>3. CASE Make /\ NeedsRun
  BY <1>1, <1>3 DEF Make
<1>4. CASE Make /\ ~NeedsRun
  <2>1. saved # Missing
    BY <1>4 DEF NeedsRun
  <2>2. exists' = exists /\ newer' = newer /\ saved' = saved
    BY <1>4, <2>1, NothingCleaned DEF Make, RunInv
  <2>3. ~NeedsRun'
    BY <1>4, <2>2 DEF NeedsRun
  <2>4. pc = "idle" /\ pc' = "build" /\ complete' = complete
    BY <1>4 DEF Make
  <2> QED BY <2>2, <2>3, <2>4 DEF RunInv, SavedInv, WrittenInv, FilesInv, CompleteInv,
                                  BuildInv, Steps
<1> QED BY <1>2, <1>3, <1>4

(* The steps of a run.                                                      *)
LEMMA StepsRunInv ==
  ASSUME RunInv, TypeOK',
         \/ Configure \/ SaveCache \/ CopyCache \/ WriteCheckCache
         \/ WriteLocalMakefile \/ WriteDirectoryInformation \/ WriteMainMakefile2
         \/ WriteMainCMakefile \/ Interrupt
  PROVE  RunInv'
<1> USE DEF Steps, SavedInv, WrittenInv, FilesInv, CompleteInv, BuildInv
<1>1. CASE Configure
  BY <1>1 DEF Configure, disk, RunInv
<1>2. CASE SaveCache
  <2>1. Saved(x.entry) # Missing
    BY SavedNotMissing DEF RunInv
  <2> QED BY <1>2, <2>1 DEF SaveCache, RunInv
<1>3. CASE CopyCache
  <2>1. Saved(x.entry) # Missing
    BY SavedNotMissing DEF RunInv
  <2> QED BY <1>3, <2>1 DEF CopyCache, RunInv
<1>4. CASE WriteCheckCache
  <2>1. UpToDate("check_cache")' /\ exists' = exists \union {"check_cache"}
    BY <1>4, WriteUpToDate DEF WriteCheckCache, Outputs
  <2> QED BY <1>4, <2>1 DEF WriteCheckCache, RunInv, Exit
<1>5. CASE WriteLocalMakefile
  <2>1. /\ UpToDate("Makefile")' /\ exists' = exists \union {"Makefile"}
        /\ UpToDate("check_cache")'
    BY <1>5, WriteUpToDate DEF WriteLocalMakefile, Outputs, RunInv
  <2> QED BY <1>5, <2>1 DEF WriteLocalMakefile, RunInv, history
<1>6. CASE WriteDirectoryInformation
  <2>1. /\ UpToDate("DirectoryInformation")'
        /\ exists' = exists \union {"DirectoryInformation"}
        /\ UpToDate("check_cache")' /\ UpToDate("Makefile")'
    BY <1>6, WriteUpToDate DEF WriteDirectoryInformation, Outputs, RunInv
  <2> QED BY <1>6, <2>1 DEF WriteDirectoryInformation, RunInv, history
<1>7. CASE WriteMainMakefile2
  <2>1. \A o \in Outputs : UpToDate(o) => UpToDate(o)'
    BY <1>7 DEF WriteMainMakefile2, UpToDate
  <2> QED BY <1>7, <2>1 DEF WriteMainMakefile2, RunInv, history, Outputs
<1>8. CASE WriteMainCMakefile
  <2>1. \A o \in Outputs : UpToDate(o)
    BY <1>8 DEF WriteMainCMakefile, RunInv, Outputs
  <2>2. Outputs \subseteq exists /\ newer = {}
    BY <2>1, AllUpToDate DEF RunInv
  <2>3. saved # Missing
    BY <1>8 DEF WriteMainCMakefile, RunInv
  <2>4. ~NeedsRun'
    BY <1>8, <2>2, <2>3 DEF WriteMainCMakefile, NeedsRun
  <2>5. pc' \in {"idle", "build"} /\ "Makefile2" \in exists'
    BY <1>8 DEF WriteMainCMakefile, RunInv, Exit
  <2> QED BY <2>4, <2>5 DEF RunInv
<1>9. CASE Interrupt
  BY <1>9 DEF Interrupt, Exit, Disturbed, RunInv, disk
<1> QED BY <1>1, <1>2, <1>3, <1>4, <1>5, <1>6, <1>7, <1>8, <1>9

LEMMA NextRunInv == RunInv /\ [Next]_vars => RunInv'
<1> SUFFICES ASSUME RunInv, [Next]_vars PROVE RunInv'
  OBVIOUS
<1>1. TypeOK'
  BY NextTypes DEF RunInv
<1>2. CASE UNCHANGED vars
  <2>1. NeedsRun' = NeedsRun /\ \A o : UpToDate(o)' = UpToDate(o)
    BY <1>2 DEF vars, disk, NeedsRun, UpToDate
  <2> QED BY <1>1, <1>2, <2>1 DEF vars, disk, history, RunInv, SavedInv, WrittenInv,
                                  FilesInv, CompleteInv, BuildInv
<1>3. CASE Next
  BY <1>1, <1>3, IdleRunInv, BeginRunInv, StepsRunInv, ArgumentsTyped DEF Next, User
<1> QED BY <1>2, <1>3

(* After a full run nothing is done again until something has changed,      *)
(* wherever runs are interrupted.                                           *)
THEOREM NothingDoneTwice == Spec => []NoNeedlessRun
<1>1. Init => RunInv
  BY InitRunInv
<1>2. RunInv /\ [Next]_vars => RunInv'
  BY NextRunInv
<1>3. RunInv => NoNeedlessRun
  BY DEF RunInv, CompleteInv, NoNeedlessRun
<1> QED BY <1>1, <1>2, <1>3, PTL DEF Spec

---------------------------------------------------------------------------
(* What make builds with.                                                   *)

(* A dependency that is written makes every output there is out of date.    *)
LEMMA WrittenOutdates ==
  ASSUME NEW d \in Depends, NEW o \in Outputs, newer' = DependWritten(d), exists' = exists
  PROVE  ~UpToDate(o)'
  BY DEF DependWritten, UpToDate

LEMMA InitCurrent == Init => CurrentInv
  BY DEF Init, CurrentInv

LEMMA UserCurrent ==
  ASSUME TypeOK, CurrentInv, User
  PROVE  CurrentInv'
<1> USE DEF CurrentInv
<1>1. ASSUME NEW p \in Projects, EditProject(p) PROVE CurrentInv'
  <2>1. ~UpToDate("DirectoryInformation")'
    BY <1>1, WrittenOutdates DEF EditProject, Depends, Outputs
  <2> QED BY <2>1
<1>2. ASSUME NEW text \in Texts, EditCache(text) PROVE CurrentInv'
  <2>1. ~UpToDate("DirectoryInformation")'
    BY <1>2, WrittenOutdates DEF EditCache, Depends, Outputs
  <2> QED BY <2>1
<1>3. CASE DeleteCache
  BY <1>3 DEF DeleteCache
<1>4. ASSUME pc = "idle", UNCHANGED <<project, saved, makefile2>>,
             exists' = Clean, newer' = Cleaned
      PROVE  CurrentInv'
  <2>1. CASE saved = Missing
    BY <1>4, <2>1
  <2>2. CASE saved # Missing
    <3>1. exists' = exists /\ newer' = newer
      BY <1>4, <2>2, NothingCleaned
    <3> QED BY <1>4, <3>1 DEF UpToDate, Current
  <2> QED BY <2>1, <2>2
<1>5. ASSUME NEW arg, RunCMake(arg) PROVE CurrentInv'
  BY <1>4, <1>5 DEF RunCMake
<1>6. CASE Make
  BY <1>4, <1>6 DEF Make
<1> QED BY <1>1, <1>2, <1>3, <1>5, <1>6 DEF User

LEMMA StepsCurrent ==
  ASSUME TypeOK, CurrentInv, "Makefile2" \notin InterruptedAt,
         \/ Configure \/ SaveCache \/ CopyCache \/ WriteCheckCache
         \/ WriteLocalMakefile \/ WriteDirectoryInformation \/ WriteMainMakefile2
         \/ WriteMainCMakefile \/ Build \/ Interrupt
  PROVE  CurrentInv'
<1> USE DEF CurrentInv, Current
<1> DEFINE DI == "DirectoryInformation"
<1>1. ASSUME pc # "Makefile2", UNCHANGED <<project, saved, makefile2>>,
             UpToDate(DI)' => UpToDate(DI)
      PROVE  CurrentInv'
  BY <1>1
<1>2. ASSUME NEW f \in Outputs, f # DI, Write(f) PROVE UpToDate(DI)' => UpToDate(DI)
  BY <1>2 DEF Write, OutputWritten, UpToDate
<1>3. ASSUME UNCHANGED <<exists, newer>> PROVE UpToDate(DI)' => UpToDate(DI)
  BY <1>3 DEF UpToDate
<1>4. CASE Configure
  BY <1>1, <1>3, <1>4 DEF Configure, disk
<1>5. CASE SaveCache
  BY <1>1, <1>3, <1>5 DEF SaveCache
<1>6. CASE CopyCache
  <2>1. ~UpToDate(DI)'
    BY <1>6, WrittenOutdates DEF CopyCache, Depends, Outputs
  <2> QED BY <2>1
<1>7. CASE WriteCheckCache
  BY <1>1, <1>2, <1>7 DEF WriteCheckCache, Outputs
<1>8. CASE WriteLocalMakefile
  BY <1>1, <1>2, <1>8 DEF WriteLocalMakefile, Outputs
<1>9. CASE WriteDirectoryInformation
  BY <1>9 DEF WriteDirectoryInformation
<1>10. CASE WriteMainMakefile2
  BY <1>10 DEF WriteMainMakefile2, Snapshot
<1>11. CASE WriteMainCMakefile
  <2>1. UpToDate(DI)' => UpToDate(DI)
    BY <1>11 DEF WriteMainCMakefile, UpToDate
  <2> QED BY <1>1, <1>11, <2>1 DEF WriteMainCMakefile
<1>12. CASE Build
  BY <1>1, <1>3, <1>12 DEF Build, disk
<1>13. CASE Interrupt
  BY <1>1, <1>3, <1>13 DEF Interrupt, disk
<1> QED BY <1>4, <1>5, <1>6, <1>7, <1>8, <1>9, <1>10, <1>11, <1>12, <1>13

(* When make goes on to build, Makefile2 comes from the list file and the   *)
(* cache as they are, wherever runs are interrupted except right before     *)
(* Makefile2 is written: there the three outputs that are checked are new   *)
(* already, and the old Makefile2 would be used.                            *)
THEOREM MakeBuildsCurrent ==
  ASSUME "Makefile2" \notin InterruptedAt
  PROVE  Spec => []BuildsWithCurrentFiles
<1> DEFINE IInv == RunInv /\ CurrentInv
<1>1. Init => IInv
  BY InitRunInv, InitCurrent
<1>2. IInv /\ [Next]_vars => IInv'
  <2> SUFFICES ASSUME IInv, [Next]_vars PROVE IInv'
    OBVIOUS
  <2>1. RunInv'
    BY NextRunInv
  <2>2. ASSUME UNCHANGED vars PROVE CurrentInv'
    BY <2>2 DEF vars, disk, CurrentInv, Current, UpToDate
  <2>3. ASSUME Next PROVE CurrentInv'
    BY <2>3, UserCurrent, StepsCurrent DEF Next, RunInv
  <2> QED BY <2>1, <2>2, <2>3
<1>3. IInv => BuildsWithCurrentFiles
  <2> SUFFICES ASSUME IInv, pc = "build"
               PROVE  {"Makefile", "Makefile2"} \subseteq exists /\ Current
    BY DEF BuildsWithCurrentFiles, Current
  <2>1. ~NeedsRun
    BY DEF RunInv, BuildInv
  <2>2. saved # Missing /\ UpToDate("DirectoryInformation")
    BY <2>1 DEF NeedsRun, UpToDate, Outputs
  <2>3. {"Makefile", "Makefile2"} \subseteq exists
    BY <2>1 DEF NeedsRun, Outputs, RunInv, FilesInv
  <2> QED BY <2>2, <2>3 DEF CurrentInv
<1> QED BY <1>1, <1>2, <1>3, PTL DEF Spec
---------------------------------------------------------------------------
(* What becomes of a value the user has given.                              *)

(* The cache file gives back the value that is written to it.               *)
Stable(v) == Parsed(Written(v)) = v

(* What has become of the value k: an option has made ON or OFF of it.      *)
Stands(v, type, k) == v = k \/ (type = "BOOL" /\ v = OnOff(IsOn(k)))

(* Before the run the user waits for has saved its cache, kept is in the    *)
(* file, and asked in memory.                                               *)
KeptInv ==
  /\ kept # Absent => Stable(kept)
  /\ asked # Absent => Stable(asked)
  /\ kept # Absent /\ pc # "copy" =>
       /\ saved \in Line
       /\ Stands(Parsed(saved.text), saved.type, kept)
  /\ asked # Absent /\ pc \in Steps =>
       /\ x.entry # Absent
       /\ x.entry.set
       /\ Stands(x.entry.value, x.entry.type, asked)

LEMMA WordStable ==
  ASSUME NEW p \in {On, Off}
  PROVE  Stable(<<p>>)
<1> DEFINE v == <<p>>
<1>1. p # Blank /\ Len(v) = 1 /\ v[1] = p
  BY DifferentPieces
<1>2. Written(v) = v
  BY <1>1 DEF Written, EndsInBlank
<1>3. Trimmed(v) = v
  <2>1. {i \in 1..Len(v) : v[i] # Blank} = {1}
    BY <1>1
  <2>2. (CHOOSE i \in {1} : \A j \in {1} : j <= i) = 1
    OBVIOUS
  <2>3. SubSeq(v, 1, 1) = v
    <3> DEFINE w == SubSeq(v, 1, 1)
    <3>1. \A i \in 1..1 : v[i] \in {p}
      BY <1>1
    <3>2. w \in Seq({p}) /\ Len(w) = 1 /\ w[1] = p
      BY <1>1, <3>1, SubSeqProperties
    <3>3. v \in Seq({p})
      OBVIOUS
    <3> HIDE DEF w, v
    <3>4. \A i \in 1..1 : i = 1
      OBVIOUS
    <3> QED BY <1>1, <3>2, <3>3, <3>4, SeqEqual
  <2> QED BY <2>1, <2>2, <2>3 DEF Trimmed
<1>4. ~InQuotes(v)
  BY <1>1 DEF InQuotes
<1> QED BY <1>2, <1>3, <1>4 DEF Stable, Parsed

(* What stands for a stable value is read back as it is written.            *)
LEMMA StandsStable ==
  ASSUME NEW v, NEW type, NEW k, Stable(k), Stands(v, type, k)
  PROVE  Parsed(Written(v)) = v
<1>1. CASE v = k
  BY <1>1 DEF Stable
<1>2. CASE v = OnOff(IsOn(k))
  BY <1>2, WordStable DEF OnOff, Stable
<1> QED BY <1>1, <1>2 DEF Stands

(* A command that does not overwrite leaves the value standing.             *)
LEMMA InvokeKeeps ==
  ASSUME NEW u \in Variable, NEW c \in Command, NEW k \in Values, ~Overwrites(c),
         u.entry # Absent, u.entry.set, Stands(u.entry.value, u.entry.type, k)
  PROVE  LET e == Invoke(u, c).entry
         IN  e # Absent /\ e.set /\ Stands(e.value, e.type, k)
<1> DEFINE e == Invoke(u, c).entry
<1>1. u.entry \in Entry /\ u.definition \in Values \union {Absent}
  BY DEF Variable
<1>8. e \in Entry \union {Absent}
  BY InvokeType DEF Variable
<1>9. \A type \in Types, v \in Values : AddCacheEntry(u.entry, type, v) # Absent
  BY <1>1, AddCacheEntryType, AbsentIsNothingElse
<1> SUFFICES e # Absent /\ e.set /\ Stands(e.value, e.type, k)
  OBVIOUS
<1> HIDE DEF e
<1>2. CASE e = u.entry
  BY <1>2
<1>3. CASE c.name = "set"
  BY <1>2, <1>3 DEF e, Invoke, SetCommand, Variable
<1>4. CASE c.name = "cache"
  <2>1. CASE Typed(u.entry)
    BY <1>2, <1>4, <2>1 DEF e, Invoke, SetCacheCommand
  <2>2. CASE ~Typed(u.entry)
    <3>1. Given(u.entry)
      BY <2>2 DEF Typed, Given
    <3>2. e = AddCacheEntry(u.entry, c.type, u.entry.value)
      BY <1>4, <2>2, <3>1 DEF e, Invoke, SetCacheCommand, AddCacheDefinition
    <3>3. u.entry.value = k
      BY <3>1 DEF Stands, Given
    <3>4. e # Absent
      BY <1>1, <1>4, <1>9, <3>2 DEF Command, Entry
    <3> QED BY <3>2, <3>3, <3>4 DEF AddCacheEntry, Stands
  <2> QED BY <2>1, <2>2
<1>5. CASE c.name = "option"
  <2>1. CASE Typed(u.entry)
    BY <1>2, <1>5, <2>1 DEF e, Invoke, OptionCommand
  <2>2. CASE ~Typed(u.entry)
    <3>1. Given(u.entry)
      BY <2>2 DEF Typed, Given
    <3>2. e = AddCacheEntry(u.entry, "BOOL", OnOff(IsOn(u.entry.value)))
      BY <1>5, <2>2, <3>1 DEF e, Invoke, OptionCommand, AddBoolDefinition
    <3>3. u.entry.value = k
      BY <3>1 DEF Stands, Given
    <3>4. e # Absent
      BY <1>9, <3>2, OnOffType DEF Types
    <3> QED BY <3>2, <3>3, <3>4 DEF AddCacheEntry, Stands
  <2> QED BY <2>1, <2>2
<1>6. CASE c.name = "mark_as_advanced"
  <2>1. /\ e \in Entry /\ e.value = u.entry.value
        /\ e.type = u.entry.type /\ e.set = u.entry.set
    BY <1>1, <1>6 DEF e, Invoke, MarkAsAdvancedCommand, Entry, Variable, Advanced
  <2> QED BY <2>1, AbsentIsNothingElse
<1>7. CASE c.name = "message"
  BY <1>2, <1>7 DEF e, Invoke
<1> QED BY <1>3, <1>4, <1>5, <1>6, <1>7 DEF Command

LEMMA InitKept == Init => KeptInv
  BY DEF Init, KeptInv, Steps

(* Loading the cache finds the value standing.                              *)
LEMMA LoadKeeps ==
  ASSUME KeptInv, kept # Absent, pc = "idle", Load(NoArgument)
  PROVE  /\ x'.entry # Absent
         /\ x'.entry.set
         /\ Stands(x'.entry.value, x'.entry.type, kept)
<1>1. saved # Missing /\ saved # Absent /\ saved \in Line
  BY MissingIsNoLine, AbsentIsNothingElse DEF KeptInv
<1>2. x'.entry = Loaded(saved)
  BY <1>1 DEF Load, SetCacheArg, NoArgument
<1>3. /\ Loaded(saved).set
      /\ Loaded(saved).value = Parsed(saved.text) /\ Loaded(saved).type = saved.type
      /\ Loaded(saved) # Absent
  <2>1. saved.type \in Types /\ saved.advanced \in Advanced /\ Parsed(saved.text) \in Values
    BY <1>1, ParsedType DEF Line
  <2>2. Loaded(saved) \in Entry
    BY <1>1, <2>1 DEF Loaded, Entry, Advanced
  <2> QED BY <1>1, <2>2, AbsentIsNothingElse DEF Loaded
<1> QED BY <1>2, <1>3 DEF KeptInv

(* What the user does; of the texts it is assumed that the cache file gives *)
(* them back.                                                               *)
TextsStable == \A text \in Texts : Stable(Parsed(text))

LEMMA UserKept ==
  ASSUME TypeOK, KeptInv, User, TextsStable
  PROVE  KeptInv'
<1> USE DEF Steps
<1>1. ASSUME NEW p \in Projects, EditProject(p) PROVE KeptInv'
  BY <1>1 DEF EditProject, memory, KeptInv
<1>2. ASSUME NEW text \in Texts, EditCache(text) PROVE KeptInv'
  <2>1. saved \in Line /\ text \in Values
    BY <1>2, TextsAreValues DEF EditCache, TypeOK
  <2>2. saved' \in Line /\ saved'.text = text
    BY <1>2, <2>1 DEF EditCache, Line
  <2>3. Stable(kept') /\ Stands(Parsed(saved'.text), saved'.type, kept')
    BY <1>2, <2>2 DEF EditCache, TextsStable, Stands
  <2> QED BY <1>2, <2>2, <2>3 DEF EditCache, memory, KeptInv
<1>3. CASE DeleteCache
  BY <1>3 DEF DeleteCache, memory, KeptInv
<1>4. CASE RunCMake(NoArgument)
  BY <1>4, LoadKeeps DEF RunCMake, NoArgument, KeptInv
<1>5. ASSUME NEW text \in Texts, NEW type \in Types,
             RunCMake([name |-> "-D", text |-> text, type |-> type])
      PROVE  KeptInv'
  <2>1. asked' = Parsed(text) /\ Stable(Parsed(text))
    BY <1>5 DEF RunCMake, TextsStable
  <2>2. \E entry : x'.entry = AddCacheEntry(entry, type, Parsed(text))
    BY <1>5 DEF RunCMake, Load, SetCacheArg
  <2>3. x'.entry # Absent
    <3> DEFINE arg == [name |-> "-D", text |-> text, type |-> type]
               entry == IF saved = Missing THEN Absent ELSE Loaded(saved)
    <3>1. entry \in Entry \union {Absent}
      BY LoadedType DEF TypeOK
    <3>2. Parsed(text) \in Values
      BY ParsedType, TextsAreValues
    <3>3. x'.entry = AddCacheEntry(entry, type, Parsed(text))
      BY <1>5 DEF RunCMake, Load, SetCacheArg
    <3> HIDE DEF entry
    <3> QED BY <3>1, <3>2, <3>3, AddCacheEntryType, AbsentIsNothingElse
  <2> QED BY <1>5, <2>1, <2>2, <2>3 DEF RunCMake, KeptInv, AddCacheEntry, Stands
<1>6. CASE RunCMake([name |-> "-U"])
  BY <1>6 DEF RunCMake, KeptInv
<1>7. CASE Make
  BY <1>7, LoadKeeps DEF Make, memory, KeptInv
<1> QED BY <1>1, <1>2, <1>3, <1>4, <1>5, <1>6, <1>7 DEF User, Types

(* What SaveCache writes.                                                   *)
LEMMA SavedKeeps ==
  ASSUME TypeOK, KeptInv, asked # Absent, pc \in Steps
  PROVE  /\ Saved(x.entry) \in Line
         /\ Stands(Parsed(Saved(x.entry).text), Saved(x.entry).type, asked)
<1>1. x.entry # Absent /\ x.entry.set /\ Stands(x.entry.value, x.entry.type, asked)
  BY DEF KeptInv
<1>2. Parsed(Written(x.entry.value)) = x.entry.value
  BY <1>1, StandsStable DEF KeptInv
<1>3. x.entry \in Entry
  BY <1>1 DEF TypeOK, Variable
<1>4. Written(x.entry.value) \in Values
  BY <1>3, WrittenType DEF Entry
<1> QED BY <1>1, <1>2, <1>3, <1>4 DEF Saved, Entry, Line

LEMMA StepsKept ==
  ASSUME TypeOK, KeptInv, "copy" \notin InterruptedAt,
         \/ Configure \/ SaveCache \/ CopyCache \/ WriteCheckCache
         \/ WriteLocalMakefile \/ WriteDirectoryInformation \/ WriteMainMakefile2
         \/ WriteMainCMakefile \/ Build \/ Interrupt
  PROVE  KeptInv'
<1> USE DEF Steps
<1>1. CASE Configure
  <2> DEFINE c == project[step + 1]
  <2>1. c \in Command
    BY <1>1, ProjectTyped DEF Configure, TypeOK
  <2>2. asked' # Absent => asked' = asked /\ ~Overwrites(c)
    BY <1>1 DEF Configure
  <2>3. x' = Invoke(x, c) /\ x \in Variable /\ asked \in Values \union {Absent}
    BY <1>1 DEF Configure, TypeOK
  <2> HIDE DEF c
  <2>4. asked' # Absent => /\ x'.entry # Absent
                           /\ x'.entry.set
                           /\ Stands(x'.entry.value, x'.entry.type, asked')
    <3> SUFFICES ASSUME asked' # Absent
                 PROVE  /\ x'.entry # Absent
                        /\ x'.entry.set
                        /\ Stands(x'.entry.value, x'.entry.type, asked')
      OBVIOUS
    <3>1. asked \in Values /\ asked' = asked /\ ~Overwrites(c)
      BY <2>2, <2>3
    <3>2. x.entry # Absent /\ x.entry.set /\ Stands(x.entry.value, x.entry.type, asked)
      BY <1>1, <3>1 DEF Configure, KeptInv
    <3> QED BY <2>1, <2>3, <3>1, <3>2, InvokeKeeps
  <2> QED BY <1>1, <2>2, <2>4 DEF Configure, disk, KeptInv
<1>2. CASE SaveCache
  BY <1>2, SavedKeeps DEF SaveCache, memory, KeptInv
<1>3. CASE CopyCache
  BY <1>3, SavedKeeps DEF CopyCache, memory, KeptInv
<1>4. CASE WriteCheckCache
  BY <1>4 DEF WriteCheckCache, Exit, memory, KeptInv
<1>5. CASE WriteLocalMakefile
  BY <1>5 DEF WriteLocalMakefile, memory, history, KeptInv
<1>6. CASE WriteDirectoryInformation
  BY <1>6 DEF WriteDirectoryInformation, memory, history, KeptInv
<1>7. CASE WriteMainMakefile2
  BY <1>7 DEF WriteMainMakefile2, memory, history, KeptInv
<1>8. CASE WriteMainCMakefile
  BY <1>8 DEF WriteMainCMakefile, Exit, KeptInv
<1>9. CASE Build
  BY <1>9 DEF Build, disk, memory, history, KeptInv
<1>10. CASE Interrupt
  BY <1>10 DEF Interrupt, Exit, disk, KeptInv
<1> QED BY <1>1, <1>2, <1>3, <1>4, <1>5, <1>6, <1>7, <1>8, <1>9, <1>10

(* A value the user has given stays in the cache until the list file forces *)
(* another or the user removes it, for any project, if the cache file gives *)
(* back the texts the user writes and no run is interrupted between the     *)
(* removal of CMakeCache.txt and its copy.                                  *)
THEOREM GivenValuesStand ==
  ASSUME TextsStable, "copy" \notin InterruptedAt
  PROVE  Spec => []GivenValueKept
<1> DEFINE IInv == TypeOK /\ KeptInv
<1>1. Init => IInv
  BY InitTypes, InitKept
<1>2. IInv /\ [Next]_vars => IInv'
  <2> SUFFICES ASSUME IInv, [Next]_vars PROVE IInv'
    OBVIOUS
  <2>1. TypeOK'
    BY NextTypes
  <2>2. ASSUME UNCHANGED vars PROVE KeptInv'
    BY <2>2 DEF vars, disk, memory, history, KeptInv
  <2>3. ASSUME Next PROVE KeptInv'
    BY <2>3, UserKept, StepsKept DEF Next
  <2> QED BY <2>1, <2>2, <2>3
<1>3. IInv => GivenValueKept
  BY DEF KeptInv, GivenValueKept, Stands
<1> QED BY <1>1, <1>2, <1>3, PTL DEF Spec
=============================================================================
