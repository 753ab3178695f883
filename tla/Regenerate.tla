----------------------------- MODULE Regenerate -----------------------------
(* A build tree with Makefiles, from the outside: the user edits the list   *)
(* file and the cache, runs cmake or make; make asks cmake to check the     *)
(* build system first.  A run of cmake loads the cache, configures, saves   *)
(* the cache and writes the files of the build system, and may be           *)
(* interrupted between any two of these steps.  The project is what its     *)
(* list file does with one cached variable.                                 *)
EXTENDS Cache, FiniteSets

CONSTANTS
  Projects,      \* the contents of the list file: sequences of commands
  Texts,         \* what the user writes as value of the variable
  Missing,       \* the content of a file that is not there
  InterruptedAt  \* the steps before which a run may be interrupted

Depends == {"CMakeLists.txt", "CMakeCache.txt"}
Outputs == {"Makefile", "check_cache", "DirectoryInformation"}
(* The files written by SaveCache and Generate.                             *)
Generated == Outputs \union {"Makefile2", "Makefile.cmake"}

Steps == {"configure", "copy", "check_cache", "Makefile", "DirectoryInformation",
          "Makefile2", "Makefile.cmake"}

ASSUME ProjectsAreCommands == Projects \subseteq Seq(Command)
ASSUME TextsAreValues == Texts \subseteq Values
ASSUME MissingIsNoLine == Missing # Absent /\ Missing \notin Line
ASSUME InterruptedAtSteps == InterruptedAt \subseteq Steps

VARIABLES
  project,    \* content of CMakeLists.txt
  saved,      \* what CMakeCache.txt says of the variable, or Missing
  exists,     \* the generated files there are
  newer,      \* <<d, o>>: dependency d was written after output o
  makefile2,  \* what Makefile2 was generated from: list file, cache, value
  pc,         \* the step of the run in progress, "build" or "idle"
  step,       \* the command executed last
  x,          \* the variable, in memory
  error,      \* an error was reported
  byMake,     \* make has started this run
  kept,       \* history: the value the user gave the variable, while it stands
  asked,      \* history: what kept is once this run has saved the cache
  quiet,      \* history: full runs since something was given or changed
  complete    \* history: the last run was one, and nothing has changed since

disk == <<project, saved, exists, newer, makefile2>>
memory == <<step, x, error, byMake>>
history == <<kept, asked, quiet, complete>>
vars == <<disk, pc, memory, history>>

NoVariable == [entry |-> Absent, definition |-> Absent]

Init ==
  /\ project \in Projects
  /\ saved = Missing /\ exists = {} /\ newer = {} /\ makefile2 = Missing
  /\ pc = "idle" /\ step = 0 /\ x = NoVariable /\ error = FALSE /\ byMake = FALSE
  /\ kept = Absent /\ asked = Absent /\ quiet = 0 /\ complete = FALSE

-----------------------------------------------------------------------------
(* Files.                                                                   *)

(* A dependency written now is newer than every output there is, an output  *)
(* written now is older than no dependency.                                 *)
DependWritten(d) == newer \union ({d} \X (Outputs \intersect exists))
OutputWritten(o) == newer \ (Depends \X {o})

Write(f) ==
  /\ exists' = exists \union {f}
  /\ newer' = OutputWritten(f)

(* Mistake: the check knows the list file only.                             *)
NeedsRun_NoCache ==
  \/ "Makefile.cmake" \notin exists
  \/ ~(Outputs \subseteq exists)
  \/ \E o \in Outputs : <<"CMakeLists.txt", o>> \in newer

(* CheckBuildSystem, with Makefile.cmake as its argument.                   *)
NeedsRun ==
  \/ "Makefile.cmake" \notin exists
  \/ saved = Missing
  \/ ~(Outputs \subseteq exists)
  \/ newer # {}

(* LoadCache, without a cache: CleanCMakeFiles.                             *)
Clean ==
  IF saved = Missing THEN exists \ {"DirectoryInformation", "Makefile.cmake"} ELSE exists
Cleaned == {p \in newer : p[2] \in Clean}

-----------------------------------------------------------------------------
(* What the user does.                                                      *)

Disturbed == quiet' = 0 /\ complete' = FALSE

EditProject(p) ==
  /\ pc = "idle"
  /\ p # project
  /\ project' = p
  /\ newer' = DependWritten("CMakeLists.txt")
  /\ Disturbed
  /\ UNCHANGED <<saved, exists, makefile2, pc, memory, kept, asked>>

(* The value of the variable is edited where the cache file has it.         *)
EditCache(text) ==
  /\ pc = "idle"
  /\ saved \notin {Missing, Absent}
  /\ saved' = [saved EXCEPT !.text = text]
  /\ newer' = DependWritten("CMakeCache.txt")
  /\ kept' = Parsed(text)
  /\ Disturbed
  /\ UNCHANGED <<project, exists, makefile2, pc, memory, asked>>

DeleteCache ==
  /\ pc = "idle"
  /\ saved # Missing
  /\ saved' = Missing
  /\ newer' = {p \in newer : p[1] # "CMakeCache.txt"}
  /\ kept' = Absent
  /\ Disturbed
  /\ UNCHANGED <<project, exists, makefile2, pc, memory, asked>>

(* The cache is loaded and the arguments are set.                           *)
NoArgument == [name |-> "none"]
Load(arg) ==
  LET entry == IF saved = Missing THEN Absent ELSE Loaded(saved)
  IN x' = [entry |-> SetCacheArg(entry, arg), definition |-> Absent]

(* cmake, with at most one argument that changes the cache.                 *)
RunCMake(arg) ==
  /\ pc = "idle"
  /\ Load(arg)
  /\ pc' = "configure" /\ step' = 0 /\ error' = FALSE /\ byMake' = FALSE
  /\ exists' = Clean /\ newer' = Cleaned
  /\ asked' = CASE arg.name = "none" -> kept
               [] arg.name = "-U" -> Absent
               [] arg.name = "-D" -> Parsed(arg.text)
  /\ quiet' = IF arg = NoArgument THEN quiet ELSE 0
  /\ complete' = FALSE
  /\ UNCHANGED <<project, saved, makefile2, kept>>

(* make: the rule cmake_check_build_system of the Makefile.                 *)
Make ==
  /\ pc = "idle"
  /\ "Makefile" \in exists
  /\ exists' = Clean /\ newer' = Cleaned
  /\ IF NeedsRun
     THEN /\ Load(NoArgument)
          /\ asked' = kept
          /\ pc' = "configure" /\ step' = 0 /\ error' = FALSE /\ byMake' = TRUE
          /\ complete' = FALSE
     ELSE pc' = "build" /\ UNCHANGED <<memory, asked, complete>>
  /\ UNCHANGED <<project, saved, makefile2, kept, quiet>>

-----------------------------------------------------------------------------
(* The run.                                                                 *)

Exit(next) ==
  /\ pc' = next
  /\ step' = 0 /\ x' = NoVariable /\ error' = FALSE /\ byMake' = FALSE
  /\ asked' = Absent

(* The next command of the list file.                                       *)
Configure ==
  /\ pc = "configure"
  /\ step < Len(project)
  /\ LET c == project[step + 1]
     IN /\ x' = Invoke(x, c)
        /\ error' = (error \/ c.name = "message")
        /\ asked' = IF Overwrites(c) THEN Absent ELSE asked
  /\ step' = step + 1
  /\ UNCHANGED <<disk, pc, byMake, kept, quiet, complete>>

(* SaveCache writes another file first.  If it differs, CMakeCache.txt is   *)
(* removed and written.                                                     *)
SaveCache ==
  /\ pc = "configure"
  /\ step = Len(project)
  /\ IF saved = Saved(x.entry)
     THEN pc' = "check_cache" /\ kept' = asked /\ UNCHANGED <<saved, newer>>
     ELSE /\ pc' = "copy"
          /\ saved' = Missing
          /\ newer' = {p \in newer : p[1] # "CMakeCache.txt"}
          /\ UNCHANGED kept
  /\ UNCHANGED <<project, exists, makefile2, memory, asked, quiet, complete>>

CopyCache ==
  /\ pc = "copy"
  /\ saved' = Saved(x.entry)
  /\ newer' = DependWritten("CMakeCache.txt")
  /\ pc' = "check_cache"
  /\ kept' = asked
  /\ UNCHANGED <<project, exists, makefile2, memory, asked, quiet, complete>>

(* Mistake: the file is not written again if nothing changes in it.         *)
WriteCheckCache_IfDifferent ==
  /\ pc = "check_cache"
  /\ IF "check_cache" \in exists THEN UNCHANGED <<exists, newer>> ELSE Write("check_cache")
  /\ IF error THEN Exit("idle") /\ quiet' = 0
     ELSE pc' = "Makefile" /\ UNCHANGED <<memory, asked, quiet>>
  /\ UNCHANGED <<project, saved, makefile2, kept, complete>>

(* The end of SaveCache, and of a run that has seen an error.               *)
WriteCheckCache ==
  /\ pc = "check_cache"
  /\ Write("check_cache")
  /\ IF error THEN Exit("idle") /\ quiet' = 0
     ELSE pc' = "Makefile" /\ UNCHANGED <<memory, asked, quiet>>
  /\ UNCHANGED <<project, saved, makefile2, kept, complete>>

(* cmLocalUnixMakefileGenerator3::Generate.                                 *)
WriteLocalMakefile ==
  /\ pc = "Makefile"
  /\ Write("Makefile")
  /\ pc' = "DirectoryInformation"
  /\ UNCHANGED <<project, saved, makefile2, memory, history>>

WriteDirectoryInformation ==
  /\ pc = "DirectoryInformation"
  /\ Write("DirectoryInformation")
  /\ pc' = "Makefile2"
  /\ UNCHANGED <<project, saved, makefile2, memory, history>>

Snapshot == [project |-> project, saved |-> saved, value |-> GetDefinition(x)]

WriteMainMakefile2 ==
  /\ pc = "Makefile2"
  /\ exists' = exists \union {"Makefile2"}
  /\ makefile2' = Snapshot
  /\ pc' = "Makefile.cmake"
  /\ UNCHANGED <<project, saved, newer, memory, history>>

WriteMainCMakefile ==
  /\ pc = "Makefile.cmake"
  /\ exists' = exists \union {"Makefile.cmake"}
  /\ Exit(IF byMake THEN "build" ELSE "idle")
  /\ quiet' = IF quiet < 2 THEN quiet + 1 ELSE quiet
  /\ complete' = TRUE
  /\ UNCHANGED <<project, saved, newer, makefile2, kept>>

(* make goes on with Makefile2.                                             *)
Build ==
  /\ pc = "build"
  /\ pc' = "idle"
  /\ UNCHANGED <<disk, memory, history>>

Interrupt ==
  /\ pc \in InterruptedAt
  /\ Exit("idle")
  /\ Disturbed
  /\ UNCHANGED <<disk, kept>>

-----------------------------------------------------------------------------
User ==
  \/ \E p \in Projects : EditProject(p)
  \/ \E text \in Texts : EditCache(text)
  \/ DeleteCache
  \/ RunCMake(NoArgument)
  \/ \E text \in Texts, type \in {"UNINITIALIZED", "STRING"} :
       RunCMake([name |-> "-D", text |-> text, type |-> type])
  \/ RunCMake([name |-> "-U"])
  \/ Make

Next ==
  \/ User \/ Configure \/ SaveCache \/ CopyCache \/ WriteCheckCache
  \/ WriteLocalMakefile \/ WriteDirectoryInformation \/ WriteMainMakefile2
  \/ WriteMainCMakefile \/ Build \/ Interrupt

Spec == Init /\ [][Next]_vars
-----------------------------------------------------------------------------
(* The types of the variables; times are known only of files there are.     *)
TypeOK ==
  /\ project \in Projects
  /\ saved \in Line \union {Missing, Absent}
  /\ exists \subseteq Generated
  /\ newer \subseteq Depends \X (Outputs \intersect exists)
  /\ pc \in Steps \union {"idle", "build"}
  /\ step \in 0..Len(project) /\ (pc \in {"idle", "build"} => step = 0)
  /\ x \in Variable
  /\ error \in BOOLEAN /\ byMake \in BOOLEAN /\ complete \in BOOLEAN
  /\ kept \in Values \union {Absent} /\ asked \in Values \union {Absent}
  /\ quiet \in 0..2

(* Make builds with rules generated from the list file and the cache as     *)
(* they are, however edits, failed and interrupted runs, and runs of make   *)
(* and of the user follow each other: the check of the build system by the  *)
(* times of three outputs finds everything out of date (CheckBuildSystem).  *)
BuildsWithCurrentFiles ==
  pc = "build" =>
    /\ {"Makefile", "Makefile2"} \subseteq exists
    /\ makefile2.project = project /\ makefile2.saved = saved

(* After a full run make does not run cmake again until something changes:  *)
(* the outputs are written after the cache, and also when their content     *)
(* would be the same ("This should not be copy-if-different").              *)
NoNeedlessRun == complete /\ pc = "idle" => ~NeedsRun

(* A value the user has given, with -D or in the cache file, stays in the   *)
(* cache through runs, errors and interruptions and whatever the list file  *)
(* says, until the list file forces another or the user removes it; an      *)
(* option makes ON or OFF of it.                                            *)
GivenValueKept ==
  pc = "idle" /\ kept # Absent =>
    LET v == Parsed(saved.text)
    IN v = kept \/ (saved.type = "BOOL" /\ v = OnOff(IsOn(kept)))

(* After two full runs in which nothing is given or changed further runs    *)
(* neither change the cache nor generate anything else.                     *)
Settles == [][quiet = 2 /\ quiet' = 2 => UNCHANGED <<saved, makefile2>>]_vars

(* set says in its documentation that "The FORCE option will overwrite the  *)
(* cache value" and that an INTERNAL value "is always written into the      *)
(* cache".  It is not while the type of the entry is not known.             *)
ForceOverwrites ==
  [][pc = "configure" /\ step' = step + 1 /\ Overwrites(project[step + 1]) =>
       x'.entry.value = project[step + 1].value]_vars
=============================================================================
