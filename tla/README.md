# CMake in TLA+: processes, list files, builds, dependency graphs and the link line

The program is CMake as of 2008 (with a Lua binding), under `src/Source`.  This
directory holds TLA+ models of its core parts, the TLC configurations that check
them on small instances, and TLAPS proofs of what matters most.  `PROJECT.json`
lists the components, the runs, the source lines behind every definition, the
hazards and the theorems.

## 1. The system

CMake reads the `CMakeLists.txt` files of a project with an interpreter
(`cmMakefile`, one object per directory), keeps results in a cache file
(`cmCacheManager`), computes from the targets it has met an acyclic build graph
(`cmComputeTargetDepends`), the link line of every target (`cmComputeLinkDepends`,
`cmOrderDirectories`) and writes build files (`cmGeneratedFileStream`).  The
makefiles call cmake again, to find out whether it must run (`CheckBuildSystem`)
and which files an object depends on (`cmDepends`).  While it does so, and in
CTest, it runs child processes (`kwsysProcess`).

| Component | State | Operations | What makes it correct |
|---|---|---|---|
| process execution, `kwsys/ProcessUNIX.c` | `kwsysProcess_s`: state, pids, pipes, counters, deadlines; one global table | Execute, WaitForData, WaitForExit, Kill, Disown, Delete, and a SIGCHLD handler | no exit, output or resource is lost; every call returns; a timeout is neither early nor missed |
| process time, same file | pairs of seconds and microseconds | TimeAdd, TimeSubtract, TimeLess, conversions, GetTimeoutTime, GetTimeoutLeft | one deadline per run, the earlier one decides, select does not sleep past it |
| interpreter, `cmMakefile` and the block commands | stacks of scopes, blockers, policies, list files and calls | ReadListFile, ExecuteCommand, IsFunctionBlocked, Push/Pop | a program does what its blocks mean; the stacks agree with the calls after RETURN, BREAK and errors |
| cache, `cmCacheManager`, set, option, mark_as_advanced | entries, definitions, a file | LoadCache, SaveCache, AddCacheDefinition, SetCacheArgs | what the user gave stands; runs settle |
| configure and generate, `cmake`, the Makefile generators | files of the build tree and their times | Run, CheckBuildSystem, the files written | make builds with current rules and does not run cmake in vain |
| dependency scanning, `cmDepends*` | depend.internal, depend.make, the include cache, file times | Check, Clear, Write, Scan | an object out of date is compiled again |
| strongly connected components, `cmComputeComponentGraph` | Tarjan's stacks and indices | Tarjan, TransferEdges | the components are the right ones, in topological order |
| target dependencies, `cmComputeTargetDepends` | initial and final graph | Compute | the final graph is acyclic and keeps every dependency |
| link line, `cmComputeLinkDepends` | entries, two queues, constraint graph | Compute | each item comes after what needs it; the search ends |
| directory order, `cmOrderDirectories` | conflict graph, visit marks | OrderDirectories | every constraint is kept; a cycle is reported if there is one |
| other commands, targets, source files, find, install, export, IDE generators, CPack, dialogs, other kwsys | see `PROJECT.json` | | not modelled, for the reasons given there |

The parts are called one from another in a single thread.  Concurrency is where
child processes, signals and time come in, which is the first component; the
interpreter is hard where a body is left early; the cache, the build system and
the dependencies are hard because their state is in files, which users change,
builds replace and interruptions leave half made; the graph computations have
answers that would be wrong for a few graphs out of many.

## 2. The modules

| Part | Modules | Proofs |
|---|---|---|
| process execution | `ProcessLifecycle` (abstract), `KwsysProcess` (implements it), `MCKwsysProcess` | `KwsysProcessProofs` |
| process time | `ProcessTime`, `MCProcessTime` | `KwsysProcessProofs`, last part |
| interpreter | `BlockLanguage` (what programs mean), `Interpreter`, `MCInterpreter` | `InterpreterProofs` |
| dependency scanning | `DependScan`, `MCDependScan` | `DependScanProofs` |
| cache and build system | `Cache`, extended by `Regenerate`, `MCRegenerate` | `RegenerateProofs` |
| graphs | `Condensation` (abstract), `ComponentGraph` (implements it), `TargetDepends` and `LinkDepends` (run it on their graphs), `OrderDirectories`, and their `MC` modules | `ComponentGraphProofs`, `TargetDependsProofs`, `LinkDependsProofs`, `OrderDirectoriesProofs` |

Left of the plan: the table of process objects and the handler with two objects;
the redirection of the standard pipes; several targets that share a dependency scan.

## 3. KwsysProcess

One object, from `kwsysProcess_New` to `kwsysProcess_Delete` and again, executed
any number of times.

*Caller.*  The program is single threaded, so that at any time at most one call
is in progress: `call` is its name, `pc` the place where it stands.  A step of
the caller ends where another party could interfere: before each system call
whose result depends on the children, the clock or the handler.  The places are
`idle`, `deleted` (between calls), `create` (the loop over `kwsysProcessCreate`),
`cleanup` (the kills of a failed start), `wait`, `scan`, `destroy`, `select`,
`end` (WaitForData with `kwsysProcessWaitForPipe` and `kwsysProcessDestroy`),
`finish` (the end of WaitForExit), `closepipes` and `kill` (`kwsysProcess_Kill`,
called by the user, for a timeout or for a failed select, which is `reason`).

*Object.*  Variables have the names of the fields.  Arrays of descriptors and
pids are the sets of their valid indices.  `CommandExitCodes` tells a normal exit
from a signal; `zero` is what memset left there, which reads as a normal exit.
`opened` are the descriptors in the locals of `kwsysProcess_Execute` (the structure
`si` and `readEnd`), which are open from one command of the pipeline to the next.

*A start that fails.*  `kwsysProcessCreate` is one step for each command, since no
other party sees its system calls; but it may fail at each of them.  `NothingStarted`
are the failures up to the fork, this one included, `ExecFails` the exec's; they differ in
what is left in `opened` and `ForkPIDs`.  After a failed fork the entry of `ForkPIDs` is -1
(an index in `ForkPIDs` whose `child` is `none`), and `CleanupKillsAll` is what the
loop then does: `kill(-1, SIGKILL)` and `waitpid(-1)`.  Of this the model has what
becomes of the processes that hold our pipes.  `CleanupDone` closes what is in `opened`;
"zero" there is the 0 that `readEnd` holds while a later command is started and which is
closed if its first pipe fails.

*Machine.*  `child` is what the system knows of each child, `writers` who holds
the write end of each data pipe, `data` how many chunks wait in it (a chunk is
what one read returns), `sigByte` the byte in the signal pipe, `sigPending` a
pending SIGCHLD.  Children write, close their pipes, exit or are killed by a
signal at any time, and leave processes behind that hold their pipes.  The
handler may run between any two steps of the caller.  `now` counts from
StartTime and moves as long as a run lasts.

*External behaviour* (`"external"` in the map) is what the code relies on of
Unix: reading a pipe, exiting, signals that merge while pending.

### Bounds

`NumberOfCommands = 2` is the least pipeline with a command that is not the last;
`MaxData = 1` makes writers block; `MaxTime = 2` with `Timeout = 1` lets time go on
after the deadline; one user timeout of zero is the poll, whose deadline is
always past.  Liveness with a timeout is checked with one command and a user
timeout shorter than the process timeout.  Every constant is a bound in the sense
that the theorems hold for all of its values.

### Fairness

`FairSpec` assumes that a call in progress goes on (the program is scheduled), that
a pending signal is delivered and that time passes.  It assumes nothing of the
children, which the code cannot command.  `MortalSpec` adds that processes exit in
the end, for a run without timeout: a wait without timeout for a child that never
exits is meant to wait.

### Properties

- `NoLostChildExit`: an exit is pending, in the pipe, or about to be reaped.
- `NoSigPipe`: the handler never writes to a pipe without reader.
- `ReportedIsReadable`: what a select reported can be read later, in other calls too.
- `CountersAgree`: the counts of pipes and children agree with what they count.
- `Released`: a caller who sees an outcome owns nothing of the run any more, and a start
  that failed at any of its steps has left no descriptor open, half made ones included.
- `ExitMeansDrained`: an exit is reported when output and status are complete.
- `ExpiredInTime`, `ZeroTimeoutPolls`: timeouts are not early; a poll looks first.
- `LifecycleSpec`: the object implements `ProcessLifecycle`, the states of
  `Process.h.in` and what each says about the children (for instance that a start
  that fails leaves no child running, and no outcome is reported while one runs).
- `CallsReturn`: every call returns, or is in a read that blocks because a select
  failed.

### Runs

| Run | Shows |
|---|---|
| `safety` | the safety properties and the refinement, two commands, with orphans and a process timeout |
| `returns` | with a process timeout of two ticks and calls of one: calls return, `ExitMeansDrained`, `ExpiredInTime`, while select may fail, other code reaps children and orphans keep pipes open |
| `mortal` | calls return without a timeout if processes exit |

What the code does not do, though it might be expected to:

- a WaitForExit with a zero timeout does not always return at once, as the header
  says: it goes on while a pipe is ready at every look (`WaitLoop` asks WaitForData
  for no data), so that `returns` has a user timeout above zero;
- WaitForExit waits for every process that has inherited the pipes, not for the child
  only (a TODO in `kwsysProcessDestroy` knows this);
- a second `kwsysProcess_Kill` signals pids that the first has waited for;
- a start that fails undoes more than it did in two cases (`KillsOwnChildren` and
  `ClosesOwnDescriptors` fail, section 10): it kills all processes of the user when a
  fork fails, and closes the standard input of the program when a pipe fails;
- when select fails (`SelectFails`), the set of descriptors is the one it was given,
  `ReportedIsReadable` fails, and a read, or the wait for the end of a pipe, may
  block (`BlockedInRead`, the exception in `CallsReturn`);
- `Released` fails when other code reaps children (`ExternalReaper`) or the detach
  option is changed during a run (`SetOptionAnytime`); with the former, and without a
  timeout, `CallsReturn` fails too, since a child that is lost is never counted down
  and the signal pipe stays open.

## 4. ProcessTime

`KwsysProcess` counts time with integers.  `ProcessTime` models what the code does:
pairs of seconds and microseconds with carries and borrows, doubles cut to
microseconds, a deadline computed once per run, the user timeout that is reduced by
the time a call took, and the length given to select.  A second has three
microseconds in the run `deadlines`, so that all carries and borrows happen within
a few ticks; the clock runs through more than two seconds, with timeouts negative,
zero, below and above a second.

What it shows: the deadline counts from the start (within a microsecond the
conversion may lose), the earlier deadline decides and its owner is known, and a
sleeper that wakes up sees the deadline as expired when it has passed
(`ExpiresInTime`).  `TimeAdd` carries only above a full second, so that a time may
have a second of microseconds and an expiry may come in the microsecond of the
deadline.

## 5. The graphs

Four classes compute graphs of strongly connected components or walk over conflict
graphs; nothing interrupts them, and each is wrong, if it is wrong, for a few inputs
among many.  The modules therefore take the input from a large set, and one action
is one turn of a loop or one return of a recursive function.  A recursion is the
sequence `calls` (or `visits`) of what its calls still have to do, innermost first
(last in `OrderDirectories`).
Indices count from 1.

`Condensation` says what `cmComputeComponentGraph` promises: whole strongly connected
components, each named after those it leads to.  Reachability there is a definition
of its own (the least closed set), independent of every algorithm below, and the
other modules use it to state their properties.

`ComponentGraph` is the class itself, Tarjan's algorithm in several walks.
`TargetDepends` and `LinkDepends` instantiate it with their own graph as `InputGraph`,
so that its steps (`ccg!Next`) are steps of theirs.

`TargetDepends` is `cmComputeTargetDepends` called from `cmGlobalGenerator::Generate`:
the names of links and utilities are gone through one by one (`AddTargetDepend`, or
`SkipName` for one already `emitted`), each looked up in the directory and then globally,
components found and checked, cycles of static libraries cut, and the result read
target by target, after a failure too.

`OrderDirectories` takes libraries with the set of directories that conflict with
them, collects the directories one by one, finds the conflicts, and walks over them.  The
sorted list of conflicts of a directory is the set of their indices, of which the least
is visited first.

`LinkDepends` is `cmComputeLinkDepends`: `AddLinkEntry` is one item of a list
with all that is done for it (the entry, the queue, the constraint, the sets from
which dependencies are inferred); `HandleSharedDependency` one element of the other
queue.  Lists are taken after the choice of the items for the configuration.  The
properties state what the comment at the top of the file describes, from the
project (`Precedes`), not from the state of the search.

| Run | Inputs | Shows |
|---|---|---|
| `components` | all graphs of three nodes with edges in all orders, all graphs of four nodes | the refinement of `Condensation`, the component edges, termination; four nodes are the least with a cycle, a component it leads to and a second walk that meets both |
| `targets` | projects of three targets, with equal names in two directories, utilities, missing names | `SafeBuildOrder`, `NoNewDepends`, `ReproducesAcyclic`, `FailsOnBadCycle` |
| `directories` | three libraries, three directories, any conflicts | `SafeOrder`, `KeepsSafeOrder`, `CyclesDiagnosed` |
| `linkline` | three items that list each other, known or not, shared dependencies without cycles, the example of the source | `ConstraintsExact`, `LineIsComplete`, `SafeLine`, `KeepsSafeOrder`, termination |

Fairness: `ComponentGraph` and `LinkDepends` are called and return, so that a step
that is possible is taken (`WF` of the next-state relation).  `linkline` leaves out
cyclic dependent shared libraries, for which the search never ends (section 10).

## 6. The interpreter

`Interpreter` executes the commands of the list files of a directory and one
subdirectory as `cmMakefile` does.  The calls of the C++ code in progress are the
sequence `frames`: `ReadListFile`, the loops over the body of a function or macro,
and the replay of a block.  A frame has the command it stands at, and `outcome` is
the `cmExecutionStatus` of the command that has just ended, or `Busy`.  Which parts
of a status a frame looks at (`StopsAt`) and hands on (`Passes`) differs between the
six kinds, and most of what can go wrong is there.  `makefiles` has for each directory
the stack of scopes, of function blockers, of list files, and the height of the
policy stack.  A block is not parsed: its opening command pushes a blocker, which
records what follows (`Record`) until its end (`Closes`), and then replays it
(`RunBlock`) while it remains on the stack, marked as running.

`BlockLanguage` is the other side: programs as trees of blocks, and their meaning by
recursion over the tree, as the commands document it (`GetFullDocumentation`): a
second account of the language that knows no blocker, recording or stack.  `Flat`
writes a tree down as the commands that the interpreter reads.

`interpreter` runs all programs of `MCInterpreter`: loops, conditions, functions,
macros, included files and the subdirectory nested in each other, where the places
that matter hold each statement that ends a body in a way of its own (`return`,
`break`, an error, a call or include in which one of these happens, a fatal error),
with and without arguments of the closing commands.
- `ExecutesAsWritten`: at the end the effects and variables are those of the meaning.
- `StateNests`: scopes, list files and running blockers agree with the calls in
  progress, whichever way a body is left.
- `ListFileKnown`: `CMAKE_CURRENT_LIST_FILE` names the file being processed.

These programs leave out two things for which the properties fail: a function whose
body ends with an error (`leakedscope`), and a fatal error inside `while`
(section 10).  `Nested` says what a closed block is; `BlocksAreClosed` has TLC check that
every list file of the runs has no other.

## 7. Dependency scanning

`DependScan` is what happens to one target in a build: `cmake --check-depends`
(`UpdateDependencies`, `cmDepends::Check` and `Clear`, the C scanner with its cache of
include lines), and the compilations of make.  Its state is in files: sources and
headers with what they include, objects, `DependInfo.cmake`, `depend.internal`,
`depend.make`, the include cache.  Its entries are written one by one, in any order, and
each in two steps (`BeginEntry`, `EndEntry`), since `WriteCacheFile` flushes after each line:
in between any part of the include lines may be in the file.  Times are what the program compares and nothing
else: `newer` is a set of pairs.  One action is one operation on files, `Interrupt`
may end a build before any of those in `InterruptedAt`, and between builds the user
edits and removes files and cmake may generate the target again.

`builds` has one source and two headers that include each other in any way, which is
enough for a dependency over a header, for a cycle, and for an object that is up to date for one header and not for the other.
- `ObjectsUpToDate`: a build that ends without error leaves each object newer than all
  it depends on.
- `ScanIsExact`: the include cache changes nothing in what a scan finds.

`InterruptedAt` has all operations but three.  Two are those of section 10 after the
objects are removed (`clear`, `remove`).  The third is `entry`: a build interrupted within
an entry leaves one with a part of its include lines in a cache that is newer than the
file; `ReadCacheFile` takes an entry that ends with the file for a whole one, so the next
scan misses a header, writes the entry back as it is, and an object is not compiled again
when that header changes.  `DependScan_torncache` shows it; both properties fail.
An interruption between two entries (`cache`) is harmless, and in the run.

`CarefulEdits` says that edits and removals leave no include line without its file,
and are not made while an object is missing that `depend.internal` speaks of;
`ObjectsUpToDate` needs it (section 10), `ScanIsExact` does not.  The dependencies of
an object that is not there are not compared, so a change then goes unnoticed.

## 8. The cache and the build system

`Cache` is one variable: its entry (`CacheEntry`: type, value, whether a value is set,
ADVANCED), its definition in the makefile, which hides the entry, the commands `set`,
`option` and `mark_as_advanced`, the arguments `-D` and `-U`, and the line of
`CMakeCache.txt`.  Values are sequences of four pieces (two words, a blank, a quote):
enough for what `SaveCache` and `ParseEntry` do with blanks and quotes at the ends.

`Regenerate` is the build tree around it.  `RunCMake` loads the cache and sets the
arguments, `Configure` executes one command, and then the files are written one by one:
the cache (removed and copied if it differs), `cmake.check_cache`, `Makefile`,
`CMakeDirectoryInformation.cmake`, `Makefile2`, `Makefile.cmake`.  `Make` first calls
`CheckBuildSystem` (`NeedsRun`), which compares the list file and the cache with the
three outputs that `Makefile.cmake` names.  The user edits the list file (any of
`Projects`) and the value in the cache, removes the cache, runs cmake with and without
arguments, and runs make.  A run may end at any step of `InterruptedAt`, with the files
as they are.  `kept`, `asked`, `quiet` and `complete` are history for the properties.

`regenerate` has eight list files of one to three commands, chosen such that each
command meets a cache entry of each kind, and three texts, one with a blank at its end
and one in quotes.
- `BuildsWithCurrentFiles`: make builds with rules from the list file and cache as they are.
- `NoNeedlessRun`: after a full run make does not run cmake until something changes.
- `GivenValueKept`: a value the user gave stands until the list file forces another.
- `Settles`: after two full runs in which nothing changes, further ones change nothing.

The specifications of sections 6 to 8 state no fairness: their runs check safety only.

## 9. What is proved

*`KwsysProcessProofs`* proves, for every pipeline length, timeout and bound, and
assuming `NoFaults` (no other code reaps our children, select does not fail, the
detach option is not changed during a run; section 3 says what fails without):

`Invariance` (the inductive invariant `IInv`), and from it `TypesCorrect`,
`ChildExitsNotLost`, `SignalPipeHasReader`, `ReportedPipesReadable`, `CountsCorrect`,
`EverythingReleased`, `ExitsMeanDrained`, `TimeoutsExpireInTime`, `ZeroTimeoutsPoll`,
`ImplementsLifecycle` (the refinement of `ProcessLifecycle`).

No single property is inductive.  `IInv` adds what ties the places of the code to the
state: `Places` (which states each place is reached in), `Calls` (which call is
where), `Pipes_` (the signal pipe exists until the children are reaped or killed),
`Children` (`ForkPIDs` are the children to be reaped, and `CommandsLeft` is their number, until
they are killed or a fork fails),
`KilledSoFar` (what the kill loops have done), `Drained` and `Collected` (no pipe is
closed before its end, no pid dropped before its status is known) and `Deadlines`.
Each conjunct has a lemma that every step keeps it.  For the refinement `Fates` is added
to it: until a fork fails the children forked so far are those in `ForkPIDs`, only a reaped child has a status,
and the kills of a failed start leave no child behind.  Each group of actions then has a
lemma that maps its steps to a step of `ProcessLifecycle` or a stutter; reaping is a stutter,
since it makes known what has already become of the child.

*`DependScanProofs`* proves for any sources, headers and edits, wherever builds are
interrupted, `TypeCorrect` and `CacheAddsNothing`: a scan finds no file that is not needed.
`CacheIsTransparent` (`ScanIsExact`) assumes `WholeEntries`, that no build is interrupted
within an entry of the include cache; it may be between two.  The code does not see to
this: the assumption is where it stops being right (`DependScan_torncache`).  The invariant
`ScanInv` says that an entry of a cache that is newer than its file has only lines of
the file, and all of them under `WholeEntries` (`CacheOK`), also in a cache of which only
some entries were written.  `BuildsAreUpToDate` assumes `Undisturbed`: `CarefulEdits`,
`WholeEntries`, and no interruption between the removal of objects and that of
`depend.internal`.  Its invariant `IInv` adds that stored dependencies that are
wrong will be noticed, since a dependency is then missing or newer than the object
(`StoredOK`), that rules are complete or the objects concerned up to date (`CompileOK`),
and that times can be compared (`Total`).  What a source reaches is defined as a least
set, so that no induction is needed.

*`RegenerateProofs`* proves `TypeCorrect` and `NothingDoneTwice` for any project, texts
and interruptions, and `MakeBuildsCurrent` if no run is interrupted before `Makefile2`.
`RunInv` follows the three outputs through the run: those written so far are up to date.
`CurrentInv` says that as long as `CMakeDirectoryInformation.cmake`, which is written just
before `Makefile2`, is up to date, `Makefile2` was generated from the files as they are.
`GivenValuesStand` assumes that the cache file gives back the texts the user writes
(`TextsStable`; it does not if a text has two pairs of quotes, of which each load takes
one) and that no run is interrupted between the removal of `CMakeCache.txt` and its copy.
Its invariant `KeptInv` follows the value from the file to memory and back: an option may
have made ON or OFF of it in between, no other command may touch it.

The last part of *`KwsysProcessProofs`* proves about `ProcessTime`: `DeadlinesFromStart`,
`EarlierDeadlineEnds` and `WaitsExpireInTime`, for a second of any length, any timeouts (also negative ones) and any
clock.  The lemmas say that addition and subtraction are exact and that `TimeLess` agrees
with the microseconds the times stand for, although `TimeAdd` does not carry a full
second.  `DeadlineInv` is what makes it work: microseconds are negative only in a deadline
that has passed, since only a negative timeout of the caller makes them so.

*`OrderDirectoriesProofs`* proves `TypeCorrect`, `OrderIsSafe`, `SafeOrderStays` and
`EveryCycleDiagnosed` for any directories, libraries and lists of the user.  `CollectInv`
follows what has been collected.  `WalkInv` is about the walks: the visited directories
are those on the stack and those emitted (`Marks`); the stack is a path, and what its
calls have seen has been visited (`Paths`), so that a directory that is emitted before one
that must precede it is reachable from that one (`SafeSoFar`); without a diagnosis no walk
has met itself, so that what a call has seen is emitted (`Undiagnosed`); in an order that
is safe as it is every walk is a single visit (`InOrder`).  Reachability is a least set,
so that a closed set found in the state takes the place of an induction on paths.

*`ComponentGraphProofs`* proves `TypeCorrect`, `ComponentEdges` and `Condenses`: for
every finite graph Tarjan's algorithm as the code has it implements `Condensation`, each
step of it being the naming of a whole strongly connected component or a stutter.  The
invariant `Inv` says what the algorithm relies on: the stack has the visited nodes that
are in no component yet, those visited last on top (`StackInv`); the calls are a path in
the graph (`CallInv`); a root is a node of the stack that is reached and not above
(`RootInv`), and a call reaches all that is on the stack above it (`ReachInv`); an edge
that has been followed leads to a component or not below the root (`EdgeInv`); the root
of a call is not above the roots of the nodes visited from it, but for what the innermost
call is about to learn from the call that has just returned (`LowInv`); the components
found are whole and lead to earlier ones (`NamedInv`); every walk numbers its nodes from 1
(`WalkInv`).  When the root of a node is the node itself, these together say that what is
on the stack down to it is its component.  `ComponentsInOrder` adds that a graph whose edges lead to smaller numbers keeps its
order.  The invariant does not mention the set `Graphs` from which a run takes its inputs,
so that the next two modules reuse it, by INSTANCE, for the graphs they compute.

*`TargetDependsProofs`* proves `TypeCorrect`, `BuildOrderIsSafe`, `NothingAdded`,
`AcyclicReproduced` and `BadCyclesFail` for any number of targets and any project.
`CollectInv` says that the list of a target has what the names emitted so far stand for;
`Collected` that the components are those of the graph so collected; `ReadInv` that the
vectors read so far are the final graph.  The final graph is acyclic since its edges lead
to an earlier component, or within a component that is a chain to its members before;
it reaches what the initial graph reaches outside of the component, and nothing more.

*`LinkDependsProofs`* proves `TypeCorrect`, `ConstraintsCorrect`, `LineCorrect`, `LineIsSafe` and
`SafeOrderKept` for any items and any lists.  `CollectInv` has three parts, stated with
what the lists followed so far, the current one in part, have said (`Said`): whose list
still waits (`QueueInv`), that the constraints are what was said and nothing else
(`SaidInv`), and that the sets of an unknown item are the items that follow it in the lists
it appears in (`SetsInv`).  `SharedInv` is the same for the search of dependent shared
libraries, `GraphExact` what they leave: the graph is `Precedes`.  `LineInv` says that the
components before the next one are listed, each in one piece, a component of several
items twice; all that a component depends on has been visited when `OrderLinkEntires`
comes to it, so that `VisitComponent` never goes deeper than one call.  These theorems hold too for
dependent shared libraries that name each other, for which the search does not end.

*`InterpreterProofs`* proves `TypeCorrect`, `ScopesSuffice`, `ScopesMatchCalls`,
`ListFileNamed`, `BlockersMatchCalls` and `CallsAndStateAgree` (`StateNests`) for any
list files and variables; the assumptions on the constants are that both directories have
a list file, and that commands have arguments of their types.

Whatever fails, no call takes a scope, a list file or a policy level that is not its own
(`ScopesSuffice`).  That none is left behind, `ScopesMatchCalls` and `ListFileNamed`, needs
`FunctionsSucceed`: no command of the body of a function fails.  The run `leakedscope`
shows what happens otherwise: the hypothesis is where the code stops being right.
`ListInv` counts the calls: a directory has one scope for each function in progress,
and the scope below that of a function still names the list file the function was called
from, the saved name of a list file being that of the one before (`Restored`), so that
each return finds the right name whatever was changed above it.

The blocks need `BlocksClosed`: every block of every list file has its end, with an
argument that is that of the block or none, and an `else` inside a block
belongs to an `if`.  (Ends with
the arguments of another block make the code delete a blocker that executes, section 10.
TLC checks `BlocksAreClosed`, the same of the programs of the runs.)  Nothing is assumed
of errors, `return` and `break`, nor of functions that redefine themselves while they
run.  `BlockInv` has four parts.  `BodiesInv`: what is executed is closed too, since the
body of a closed block is.  `PlaceInv`: no block is open around the command that is
executed, nor around the calls further out.  `RecorderInv`: the one blocker that records
is the newest of the current directory, has recorded from the outermost open block to
the current command, and its depth is the number of blocks of its kind open since; so
its depth is 0 at its own end and at no other.  `ChainInv`: executing blocks and running
blockers have the same, increasing identities, and the end of each block fits its
blocker.  Hence the newest blocker that `RemoveFunctionBlocker` finds is the one whose
block ends: it never deletes one that still executes (`~dangling`).

*Only model-checked*: liveness under fairness, which is out of the prover's reach
(`Terminates` of the graphs, the properties of the runs `mortal` and `returns`, `Settles`);
the run `returns` with its faults; `ExecutesAsWritten`, whose reference meaning is
recursive, which the prover cannot use.

## 10. Findings, and counterexamples to read

`leakedscope` is a run of its own: `cmFunctionHelperCommand::InvokeInitialPass` returns
without `PopScope` when a command of the body fails (line 166), so that the rest of the
directory runs in the scope of the function, and `CMAKE_CURRENT_LIST_FILE`, restored there
by an enclosing include, names a file that has been left.

These configurations are not runs of the project; each gives TLC's counterexample to
one property that might be expected of the code:

| Configuration | Property | What happens |
|---|---|---|
| `Interpreter_fatalloop` | `HaltsOnFatal` | after a fatal error no command is invoked, the one that would end a `while` around it included: the loop goes on for ever (`cmWhileCommand.cxx:50-73`, while `cmMessageCommand.h:74-75` says that processing stops) |
| `KwsysProcess_forkfails` | `KillsOwnChildren` | `kwsysProcessFork` returns -1, which stays in `ForkPIDs` (`ProcessUNIX.c:1671-1675`); the loop that is to "kill any children already started" calls `kill(-1, SIGKILL)` and `waitpid(-1)` (1451-1468, `kwsysProcessKill`) |
| `KwsysProcess_pipefails` | `ClosesOwnDescriptors` | `readEnd` is 0 while the pipe of a later command is made (1569-1570); if that fails, Execute closes descriptor 0 (848) |
| `DependScan_torncache` | `ScanIsExact` | a build interrupted between the lines of an entry of the include cache (`cmDependsC.cxx:355-380`) leaves an entry without some of its includes, which the next scan takes for a whole one (290-334) |
| `DependScan_staleobject` | `ObjectsUpToDate` | an include line whose file is missing, or an edit while the object is missing, is not seen by `CheckDependencies`, which compares times only if the object exists (`cmDepends.cxx:200`) |
| `Regenerate_force` | `ForceOverwrites` | `set(... CACHE ... FORCE)`, or of an INTERNAL value, does not overwrite an entry given as `-DX=v` (`cmMakefile.cxx:1618-1622`, against `cmSetCommand.h`) |
| `TargetDepends_badcycle` | `ReadsFinalDepends` | after the error about a cycle the generator reads a vector that is empty |
| `OrderDirectories_diamond` | `NoFalseAlarm` | two ways from one directory to another are reported as a cycle |
| `LinkDepends_sharedcycle` | `Terminates` | two shared libraries that name each other as dependent libraries: the search never ends |

Also seen while modelling, and kept out of the runs by their bounds or inputs:

- a run interrupted just before `Makefile2` leaves old rules that the check does not
  notice, since `Makefile2` is not among the outputs compared, though the comment in
  `WriteMainMakefile2` says that its time is (add `"Makefile2"` to `InterruptedAt`);
- a build interrupted between the removal of objects and that of `depend.internal` leaves
  dependencies that are not found out again (add `"remove"` to `InterruptedAt`);
- an interruption in `CopyFileAlways` loses `CMakeCache.txt`, and with it what the user
  gave (add `"copy"`);
- a list file edited while cmake runs is older than the outputs of that run;
- `cmake.cxx:2188` says that the cache is saved only without fatal errors, and saves it always;
- a value in single quotes loses one pair of them at each load, until it has none; ADVANCED of an INTERNAL
  entry is lost at each load; `set(X a)` before `set(X b CACHE ...)` hides the entry only
  from the second run on;
- `DependInfo.cmake` newer than a `depend.internal` that does not change is scanned again at
  each make;
- ends of blocks whose arguments are swapped remove a blocker that executes further out
  (`DeletesRunning`; the model stops there, `dangling`).

## 11. What is not modelled

In `ProcessUNIX.c`: redirection of the standard pipes, the polling branch for BeOS, the
search for grandchildren through `/proc`, the command line parser; what follows once
descriptor 0 has been closed, or `kill(-1)` has taken processes that are not ours.  `kwsysProcess_SetTimeout` during a run is in
`ProcessTime` only.  In the interpreter: the expansion of variables and of arguments of
functions and macros, conditions other than one variable, `elseif` with arguments that
are wrong, list files in Lua, what policies say.  Of the cache: other properties, paths
and static entries, names that must be quoted, included caches, the interfaces that edit
it.  Of the build system: more than one directory, try-compile, files made by
configure_file, other generators.  Of dependency scanning: Fortran and Java, several
targets, the search of headers in directories, times within one second, which
`cmFileTimeComparison` takes for equal.  In `cmComputeLinkDepends.cxx`: the choice of the
items that are meant for a configuration, the targets remembered for those that are not,
and blanks around names.  In `cmOrderDirectories.cxx`: how a file name is found to
conflict.  Diagnostic output is left out everywhere.  Elsewhere: see the table and
`PROJECT.json`; the Windows implementation, text generators, string handling and the
portability layer are left out for good, because what is right there is a text and not a
behaviour.
