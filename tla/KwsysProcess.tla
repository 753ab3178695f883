---------------------------- MODULE KwsysProcess ----------------------------
(***************************************************************************)
(* One kwsysProcess object of Source/kwsys/ProcessUNIX.c: the object that  *)
(* CMake and CTest use to run a pipeline of child processes, collect its   *)
(* output with a timeout and report how it ended.                          *)
(*                                                                         *)
(* Four parties interleave.  The CALLER is single threaded: it is either   *)
(* idle or inside one API call, and `pc' says where (one step per system   *)
(* call that another party can observe).  The CHILDREN and the processes   *)
(* they leave behind write to the pipes, close them and exit at any time.  *)
(* The KERNEL keeps the pipes and the pending SIGCHLD, whose HANDLER runs  *)
(* between any two steps of the caller.  The CLOCK moves while a child     *)
(* runs.                                                                   *)
(*                                                                         *)
(* Sets replace the C arrays: PipeReadEnds and ForkPIDs hold the indices   *)
(* whose entry is a valid descriptor (>= 0) or a pid (# 0).  Times are     *)
(* integers counted from StartTime.                                        *)
(***************************************************************************)
EXTENDS Integers, FiniteSets

CONSTANTS
  NumberOfCommands,   \* length of the pipeline
  Timeout,            \* kwsysProcess_SetTimeout; 0 disables the timeout
  UserTimeouts,       \* finite timeouts a caller passes to the Wait calls
  MaxTime,            \* bound: the clock stops here
  MaxData,            \* bound: chunks a pipe holds before its writers block
  Orphans,            \* whether children leave processes holding the pipes
  SetOptionAnytime,   \* whether SetOption is also called while executing
  ExternalReaper,     \* whether other code of this program reaps our children
  SelectFails         \* whether select may fail

Cmds == 1..NumberOfCommands
DataPipes == {"STDOUT", "STDERR"}
Pipes == DataPipes \cup {"SIGNAL"}
KWSYSPE_PIPE_COUNT == 3
None == -1            \* an absent timeout: tv_sec < 0, or a null userTimeout

ASSUME ConstantsAssumption ==
  /\ NumberOfCommands \in Nat \ {0}
  /\ Timeout \in Nat /\ MaxTime \in Nat /\ MaxData \in Nat
  /\ UserTimeouts \subseteq Nat
  /\ {Orphans, SetOptionAnytime, ExternalReaper, SelectFails} \subseteq BOOLEAN

VARIABLES
  \* fields of struct kwsysProcess_s
  State, PipeReadEnds, SignalPipe, ForkPIDs, CommandExitCodes, CommandsLeft,
  PipesLeft, PipeSet, Killed, TimeoutExpired, SelectError, OptionDetach,
  Detached,
  registered,  \* the object is in the table kwsysProcesses
  opened,      \* descriptors in the locals of kwsysProcess_Execute
  \* the call in progress: its name and program counter, the loop index, the
  \* arguments, the wait data, and what an inner kwsysProcess_Kill is for
  call, pc, idx, wantData, userTimeout, wd, reason,
  \* the rest of the machine
  child,       \* state of each command's process
  writers,     \* who holds the write end of each data pipe
  data,        \* unread chunks in each data pipe
  sigByte,     \* bytes in the signal pipe, 0 or 1
  sigPending,  \* SIGCHLD is pending
  now          \* time since StartTime

pipes  == <<PipeReadEnds, PipesLeft, PipeSet>>
notify == <<SignalPipe, registered>>
pids   == <<ForkPIDs, CommandExitCodes, CommandsLeft>>
flags  == <<Killed, TimeoutExpired, SelectError>>
detach == <<OptionDetach, Detached>>
object == <<State, pipes, notify, pids, flags, detach, opened>>
args   == <<call, wantData, userTimeout>>
caller == <<args, pc, idx, wd, reason>>
signal == <<sigByte, sigPending>>
family == <<child, writers, data>>
system == <<family, signal, now>>
vars   == <<object, caller, system>>

Outcomes == {"Exited", "Exception", "Expired", "Killed", "Error"}
States == {"Starting", "Executing", "Disowned"} \cup Outcomes
Zombie == {"exited", "signaled"}
Alive == {"running", "adopted"}    \* adopted: detached, a child of init
ChildStates == {"none", "gone"} \cup Alive \cup Zombie
Statuses == {"zero"} \cup Zombie   \* zero: as memset left it, reads as exited
Orphan == 0                        \* the processes that outlive their parent
Finite == {ut \in UserTimeouts : now + ut <= MaxTime}

NoWait == [PipeId |-> "None", Expired |-> FALSE, User |-> FALSE,
           TimeoutTime |-> None]

\* The first element of a non-empty set of pipes in the order of their index.
FirstPipe(S) == IF "STDOUT" \in S THEN "STDOUT"
                ELSE IF "STDERR" \in S THEN "STDERR" ELSE "SIGNAL"

\* Whether a read of this read end returns: data, or no writer left.
Readable(p) == IF p = "SIGNAL" THEN sigByte = 1 \/ ~SignalPipe
               ELSE data[p] > 0 \/ writers[p] = {}

Ready == {p \in PipeReadEnds : Readable(p)}

-----------------------------------------------------------------------------
(* Pieces of the calls. *)

\* A call returns to the caller.  Its locals disappear.
Return == /\ pc' = IF call = "Delete" THEN "deleted" ELSE "idle"
          /\ call' = "none" /\ idx' = 1 /\ wantData' = FALSE
          /\ userTimeout' = None /\ wd' = NoWait /\ reason' = "user"

Enter(name, at) == /\ call' = name /\ pc' = at
                   /\ UNCHANGED <<idx, wantData, userTimeout, wd, reason>>

\* Mistake: the count of the last run is kept.
Initialize_KeepsCount ==
  /\ ForkPIDs' = {} /\ CommandExitCodes' = [i \in Cmds |-> "zero"]
  /\ PipesLeft' = 0 /\ PipeSet' = {} /\ UNCHANGED CommandsLeft
  /\ Killed' = FALSE /\ TimeoutExpired' = FALSE /\ SelectError' = FALSE

\* kwsysProcessInitialize, but for the descriptors, which Execute opens.
Initialize ==
  /\ ForkPIDs' = {} /\ CommandExitCodes' = [i \in Cmds |-> "zero"]
  /\ CommandsLeft' = 0 /\ PipesLeft' = 0 /\ PipeSet' = {}
  /\ Killed' = FALSE /\ TimeoutExpired' = FALSE /\ SelectError' = FALSE

\* A new run starts with new pipes and without children.
NoChildren == /\ child' = [i \in Cmds |-> "none"]
              /\ writers' = [p \in DataPipes |-> {}]
              /\ data' = [p \in DataPipes |-> 0]

\* Mistake: the table entry is left to kwsysProcess_Delete.
Cleanup_KeepsEntry ==
  /\ UNCHANGED registered /\ SignalPipe' = (SignalPipe /\ OptionDetach)
  /\ ForkPIDs' = {} /\ PipeReadEnds' = {} /\ data' = [p \in DataPipes |-> 0]

\* kwsysProcessCleanup after its error part.  It looks at the option, not at
\* how the process was created.
Cleanup ==
  /\ IF OptionDetach THEN UNCHANGED notify
     ELSE registered' = FALSE /\ SignalPipe' = FALSE
  /\ ForkPIDs' = {} /\ PipeReadEnds' = {} /\ data' = [p \in DataPipes |-> 0]

\* kwsysProcessKill and the waitpid after it, for every pid the loop meets.
KillChild(i) ==
  /\ child' = [child EXCEPT ![i] = IF i \in ForkPIDs THEN "gone" ELSE @]
  /\ writers' = [p \in DataPipes |-> IF i \in ForkPIDs
                                     THEN writers[p] \ {i} ELSE writers[p]]
  /\ sigPending' = (sigPending \/ (i \in ForkPIDs /\ child[i] = "running"))

\* Mistake: the pipe is closed but not counted.
ClosePipe_NoCount(p) ==
  /\ PipeReadEnds' = PipeReadEnds \ {p} /\ PipeSet' = PipeSet \ {p}
  /\ data' = [q \in DataPipes |-> IF q = p THEN 0 ELSE data[q]]
  /\ UNCHANGED PipesLeft

\* kwsysProcessCleanupDescriptor of a read end; the kernel drops its contents.
ClosePipe(p) ==
  /\ PipeReadEnds' = PipeReadEnds \ {p} /\ PipesLeft' = PipesLeft - 1
  /\ PipeSet' = PipeSet \ {p}
  /\ data' = [q \in DataPipes |-> IF q = p THEN 0 ELSE data[q]]

\* Mistake: whose timeout is the earlier one is not told.
GetTimeoutTime_NotUser(ut) ==
  LET process == IF Timeout = 0 THEN None ELSE Timeout
      user == ut # None /\ (process = None \/ now + ut < process)
  IN [PipeId |-> "None", Expired |-> FALSE, User |-> FALSE,
      TimeoutTime |-> IF user THEN now + ut ELSE process]

\* kwsysProcessGetTimeoutTime: the user timeout counts only when it is earlier.
GetTimeoutTime(ut) ==
  LET process == IF Timeout = 0 THEN None ELSE Timeout
      user == ut # None /\ (process = None \/ now + ut < process)
  IN [PipeId |-> "None", Expired |-> FALSE, User |-> user,
      TimeoutTime |-> IF user THEN now + ut ELSE process]

\* Mistakes: no exception for polling; the clock is left to select.
NoTimeLeft_NoPoll == wd.TimeoutTime # None /\ wd.TimeoutTime < now
NoTimeLeft_Never == FALSE

\* kwsysProcessGetTimeoutLeft: no time is left.  A caller who asked for a zero
\* timeout still gets one look at the pipes.
NoTimeLeft == /\ wd.TimeoutTime # None /\ wd.TimeoutTime < now
              /\ ~(wd.User /\ userTimeout = 0)

\* The end of WaitForData, on its own or inside WaitForExit.
WaitOver == IF call = "WaitForData" THEN Return
            ELSE pc' = "finish" /\ UNCHANGED <<args, idx, wd, reason>>

-----------------------------------------------------------------------------
(* kwsysProcess_New, kwsysProcess_SetOption(Detach). *)

New == /\ pc = "deleted" /\ pc' = "idle" /\ Initialize
       /\ State' = "Starting" /\ PipeReadEnds' = {} /\ SignalPipe' = FALSE
       /\ OptionDetach' = FALSE /\ Detached' = FALSE /\ UNCHANGED opened
       /\ NoChildren /\ UNCHANGED <<registered, args, idx, wd, reason, signal, now>>

SetOption ==
  /\ pc = "idle" /\ (SetOptionAnytime \/ State # "Executing")
  /\ OptionDetach' = ~OptionDetach
  /\ UNCHANGED <<State, pipes, notify, pids, flags, Detached, opened, caller,
                 system>>

-----------------------------------------------------------------------------
(* kwsysProcess_Execute. *)

\* The signal pipe, the table entry and the stderr pipe are set up.
ExecuteBegin ==
  /\ pc = "idle" /\ State # "Executing" /\ Enter("Execute", "create")
  /\ State' = "Starting" /\ Initialize /\ now' = 0
  /\ PipeReadEnds' = {"STDERR"} \cup (IF OptionDetach THEN {} ELSE {"SIGNAL"})
  /\ SignalPipe' = ~OptionDetach /\ registered' = (registered \/ ~OptionDetach)
  /\ NoChildren /\ sigByte' = 0 /\ opened' = {"StdErr"}
  /\ UNCHANGED <<detach, sigPending>>

\* One of those fails and what was set up is undone.
ExecuteFails ==
  /\ pc = "idle" /\ State # "Executing"
  /\ State' = "Error" /\ Initialize /\ PipeReadEnds' = {} /\ SignalPipe' = FALSE
  /\ registered' = (registered /\ OptionDetach)
  /\ NoChildren /\ UNCHANGED <<detach, opened, caller, signal, now>>

\* kwsysProcessCreate starts a child, all of which share stderr.
CreateChild ==
  /\ pc = "create" /\ idx \in Cmds /\ idx' = idx + 1
  /\ ForkPIDs' = ForkPIDs \cup {idx} /\ CommandsLeft' = CommandsLeft + 1
  /\ child' = [child EXCEPT ![idx] = IF OptionDetach THEN "adopted"
                                     ELSE "running"]
  /\ writers' = [p \in DataPipes |->
                   IF p = "STDERR" \/ idx = NumberOfCommands
                   THEN writers[p] \cup {idx} ELSE writers[p]]
  /\ opened' = {"StdErr", "readEnd"}
  /\ UNCHANGED <<State, pipes, notify, CommandExitCodes, flags, detach, args,
                 pc, wd, reason, data, signal, now>>

\* What a command reads: a file or nothing for the first, for any other the
\* read end of the pipe before.
StdIns == IF idx = 1 THEN {{}, {"StdIn"}} ELSE {{"StdIn"}}

\* The steps of kwsysProcessCreate that fail without a process: stdin or the
\* stdout pipe is not there, when readEnd has become 0 ("zero") for a later
\* command; a later pipe or flag; the fork, or the second one of a detached
\* start, whose pid -1 is kept.
NothingStarted ==
  /\ UNCHANGED <<CommandsLeft, child, sigPending>>
  /\ \E in \in StdIns :
       \/ /\ opened' = {"StdErr"} \cup in \cup IF idx = 1 THEN {} ELSE {"zero"}
          /\ UNCHANGED ForkPIDs
       \/ /\ \E error \in SUBSET {"ErrorPipe"} :
               opened' = {"StdErr", "readEnd", "StdOut"} \cup in \cup error
          /\ UNCHANGED ForkPIDs
       \/ /\ opened' = {"StdErr", "readEnd", "StdOut", "ErrorPipe"} \cup in
          /\ ForkPIDs' = ForkPIDs \cup {idx}

\* The child's exec fails, and it exits.
ExecFails ==
  /\ ForkPIDs' = ForkPIDs \cup {idx} /\ CommandsLeft' = CommandsLeft + 1
  /\ child' = [child EXCEPT ![idx] = IF OptionDetach THEN "gone" ELSE "exited"]
  /\ sigPending' = (sigPending \/ ~OptionDetach)
  /\ \E in \in StdIns : opened' = {"StdErr", "readEnd", "StdOut"} \cup in

CreateFails ==
  /\ pc = "create" /\ idx \in Cmds /\ (NothingStarted \/ ExecFails)
  /\ State' = "Error" /\ pc' = "cleanup" /\ idx' = 1
  /\ UNCHANGED <<pipes, notify, CommandExitCodes, flags, detach, args, wd,
                 reason, writers, data, sigByte, now>>

\* The entry of ForkPIDs is the -1 of a fork that failed.
ForkFailed(i) == i \in ForkPIDs /\ child[i] = "none"

CleanupKill ==
  /\ pc = "cleanup" /\ idx \in Cmds /\ ~ForkFailed(idx)
  /\ KillChild(idx) /\ idx' = idx + 1
  /\ UNCHANGED <<object, args, pc, wd, reason, data, sigByte, now>>

\* kill(-1, SIGKILL) takes every process that this user may signal but the
\* caller, and waitpid(-1) any child there is: all of ours are reaped by now.
CleanupKillsAll ==
  /\ pc = "cleanup" /\ idx \in Cmds /\ ForkFailed(idx) /\ idx' = idx + 1
  /\ writers' = [p \in DataPipes |-> {}]
  /\ UNCHANGED sigPending \/ sigPending' = TRUE
  /\ UNCHANGED <<object, args, pc, wd, reason, child, data, sigByte, now>>

\* Mistake: the error pipe of a fork that failed is forgotten.
CleanupDone_KeepsErrorPipe ==
  /\ pc = "cleanup" /\ idx \notin Cmds /\ Cleanup /\ Return
  /\ opened' = opened \cap {"ErrorPipe"}
  /\ UNCHANGED <<State, PipesLeft, PipeSet, CommandExitCodes, CommandsLeft,
                 flags, detach, child, writers, signal, now>>

\* kwsysProcess_Execute closes what it holds itself.
CleanupDone ==
  /\ pc = "cleanup" /\ idx \notin Cmds /\ Cleanup /\ Return
  /\ opened' = {}
  /\ UNCHANGED <<State, PipesLeft, PipeSet, CommandExitCodes, CommandsLeft,
                 flags, detach, child, writers, signal, now>>

ExecuteDone ==
  /\ pc = "create" /\ idx \notin Cmds /\ Return
  /\ PipeReadEnds' = PipeReadEnds \cup {"STDOUT"}
  /\ PipesLeft' = KWSYSPE_PIPE_COUNT
  /\ State' = "Executing" /\ Detached' = OptionDetach /\ opened' = {}
  /\ UNCHANGED <<PipeSet, notify, pids, flags, OptionDetach, system>>

-----------------------------------------------------------------------------
(* kwsysProcess_WaitForData, kwsysProcess_WaitForExit, kwsysProcess_Delete,  *)
(* kwsysProcess_Disown and kwsysProcess_Kill.  The calls that return at once *)
(* and change nothing have no action.                                        *)

StartWait(name, want, ut) ==
  /\ call' = name /\ wantData' = want /\ userTimeout' = ut
  /\ wd' = GetTimeoutTime(ut) /\ pc' = "wait"
  /\ UNCHANGED <<object, idx, reason, system>>

Stopped == Killed \/ TimeoutExpired

WaitForData ==
  /\ pc = "idle" /\ State = "Executing" /\ ~Stopped
  /\ \E want \in BOOLEAN, ut \in Finite \cup {None} :
       StartWait("WaitForData", want, ut)

WaitForExit ==
  /\ pc = "idle" /\ State = "Executing"
  /\ \/ ~Stopped /\ \E ut \in Finite \cup {None} :
                      StartWait("WaitForExit", FALSE, ut)
     \/ Stopped /\ Enter("WaitForExit", "finish") /\ UNCHANGED <<object, system>>

\* An executing object is disowned or waited for before its memory is freed.
Delete ==
  /\ pc = "idle"
  /\ \/ /\ State # "Executing" \/ (Detached /\ Stopped)
        /\ Enter("none", "deleted") /\ UNCHANGED <<object, system>>
     \/ /\ State = "Executing" /\ ~Detached /\ ~Stopped
        /\ StartWait("Delete", FALSE, None)
     \/ /\ State = "Executing" /\ ~Detached /\ Stopped
        /\ Enter("Delete", "finish") /\ UNCHANGED <<object, system>>
     \/ /\ State = "Executing" /\ Detached /\ ~Stopped
        /\ call' = "Delete" /\ pc' = "closepipes" /\ reason' = "disown"
        /\ UNCHANGED <<object, idx, wantData, userTimeout, wd, system>>

Disown ==
  /\ pc = "idle" /\ State = "Executing" /\ Detached /\ ~Stopped
  /\ call' = "Disown" /\ pc' = "closepipes" /\ reason' = "disown"
  /\ UNCHANGED <<object, idx, wantData, userTimeout, wd, system>>

\* Mistake: the write end of the signal pipe stays open.
Kill_KeepsSignalPipe ==
  /\ pc = "idle" /\ State = "Executing"
  /\ call' = "Kill" /\ pc' = "closepipes" /\ reason' = "user"
  /\ UNCHANGED <<object, idx, wantData, userTimeout, wd, system>>

Kill ==
  /\ pc = "idle" /\ State = "Executing"
  /\ call' = "Kill" /\ pc' = "closepipes" /\ reason' = "user"
  /\ SignalPipe' = FALSE
  /\ UNCHANGED <<State, pipes, registered, pids, flags, detach, opened, idx,
                 wantData, userTimeout, wd, system>>

-----------------------------------------------------------------------------
(* The wait loop and kwsysProcessWaitForPipe.  In "scan" it takes the pipes  *)
(* the last select reported, one by one.                                     *)

Reported == PipeSet \cap PipeReadEnds

\* Mistake: the loop runs while children are left, not pipes.
WaitLoop_Commands ==
  /\ pc = "wait" /\ pc' = IF CommandsLeft > 0 THEN "scan" ELSE "end"
  /\ UNCHANGED <<object, args, idx, wd, reason, system>>

WaitLoop ==
  /\ pc = "wait" /\ pc' = IF PipesLeft > 0 THEN "scan" ELSE "end"
  /\ UNCHANGED <<object, args, idx, wd, reason, system>>

Scanning(p) == pc = "scan" /\ Reported # {} /\ p = FirstPipe(Reported)

ReadData(p) ==
  /\ Scanning(p) /\ p \in DataPipes /\ data[p] > 0
  /\ PipeSet' = PipeSet \ {p} /\ data' = [data EXCEPT ![p] = @ - 1]
  /\ IF wantData THEN pc' = "end" /\ wd' = [wd EXCEPT !.PipeId = p]
     ELSE UNCHANGED <<pc, wd>>
  /\ UNCHANGED <<State, PipeReadEnds, PipesLeft, notify, pids, flags, detach,
                 opened, args, idx, reason, child, writers, signal, now>>

\* End of file, or nothing in the signal pipe, whose read does not block.
ReadNothing(p) ==
  /\ Scanning(p) /\ ClosePipe(p)
  /\ \/ p \in DataPipes /\ data[p] = 0 /\ writers[p] = {}
     \/ p = "SIGNAL" /\ sigByte = 0
  /\ UNCHANGED <<State, notify, pids, flags, detach, opened, caller, child,
                 writers, signal, now>>

ReadSignal ==
  /\ Scanning("SIGNAL") /\ sigByte = 1
  /\ PipeSet' = PipeSet \ {"SIGNAL"} /\ sigByte' = 0
  /\ pc' = "destroy" /\ idx' = 1
  /\ UNCHANGED <<State, PipeReadEnds, PipesLeft, notify, pids, flags, detach,
                 opened, args, wd, reason, family, sigPending, now>>

\* kwsysProcessDestroy: waitpid(WNOHANG) for one pid ...
DestroyReaps ==
  /\ pc = "destroy" /\ idx \in ForkPIDs /\ child[idx] \in Zombie
  /\ CommandExitCodes' = [CommandExitCodes EXCEPT ![idx] = child[idx]]
  /\ ForkPIDs' = ForkPIDs \ {idx} /\ CommandsLeft' = CommandsLeft - 1
  /\ SignalPipe' = (SignalPipe /\ CommandsLeft' # 0)
  /\ child' = [child EXCEPT ![idx] = "gone"] /\ idx' = idx + 1
  /\ UNCHANGED <<State, pipes, registered, flags, detach, opened, args, pc, wd,
                 reason, writers, data, signal, now>>

\* ... which still runs, or whose waitpid fails: it is not our child (any more).
DestroySkips ==
  /\ pc = "destroy" /\ idx \in Cmds
  /\ \/ idx \notin ForkPIDs /\ UNCHANGED State
     \/ idx \in ForkPIDs /\ child[idx] = "running" /\ UNCHANGED State
     \/ idx \in ForkPIDs /\ child[idx] \in {"adopted", "gone"} /\ State' = "Error"
  /\ idx' = idx + 1
  /\ UNCHANGED <<pipes, notify, pids, flags, detach, opened, args, pc, wd,
                 reason, system>>

\* Mistake: the signal pipe is emptied after the reaping, too.
DestroyDone_ReadsAgain ==
  /\ pc = "destroy" /\ idx \notin Cmds /\ idx' = 1 /\ pc' = "scan"
  /\ sigByte' = 0
  /\ UNCHANGED <<object, args, wd, reason, family, sigPending, now>>

DestroyDone ==
  /\ pc = "destroy" /\ idx \notin Cmds /\ idx' = 1 /\ pc' = "scan"
  /\ UNCHANGED <<object, args, wd, reason, system>>

\* The deadline has passed, no pipe is left, or select is called.
ScanDone ==
  /\ pc = "scan" /\ Reported = {} /\ PipeSet' = {}
  /\ IF NoTimeLeft THEN pc' = "end" /\ wd' = [wd EXCEPT !.Expired = TRUE]
     ELSE /\ pc' = IF PipeReadEnds = {} THEN "end" ELSE "select"
          /\ UNCHANGED wd
  /\ UNCHANGED <<State, PipeReadEnds, PipesLeft, notify, pids, flags, detach,
                 opened, args, idx, reason, system>>

\* Mistake: the set given to select is taken for its answer.
SelectReports_All ==
  /\ pc = "select" /\ Ready # {} /\ PipeSet' = PipeReadEnds /\ pc' = "wait"
  /\ UNCHANGED <<State, PipeReadEnds, PipesLeft, notify, pids, flags, detach,
                 opened, args, idx, wd, reason, system>>

SelectReports ==
  /\ pc = "select" /\ Ready # {} /\ PipeSet' = Ready /\ pc' = "wait"
  /\ UNCHANGED <<State, PipeReadEnds, PipesLeft, notify, pids, flags, detach,
                 opened, args, idx, wd, reason, system>>

SelectExpires ==
  /\ pc = "select" /\ Ready = {} /\ wd.TimeoutTime # None
  /\ now >= wd.TimeoutTime
  /\ pc' = "end" /\ wd' = [wd EXCEPT !.Expired = TRUE]
  /\ UNCHANGED <<object, args, idx, reason, system>>

\* Select fails and leaves the set it was given.  The inner kwsysProcess_Kill
\* does nothing once a waitpid error has changed the state.
SelectFailure ==
  /\ pc = "select" /\ SelectFails /\ PipeSet' = PipeReadEnds
  /\ \/ /\ State = "Executing" /\ pc' = "closepipes" /\ reason' = "select"
        /\ SignalPipe' = FALSE /\ UNCHANGED flags
     \/ /\ State # "Executing" /\ pc' = "wait" /\ SelectError' = TRUE
        /\ Killed' = FALSE
        /\ UNCHANGED <<reason, SignalPipe, TimeoutExpired>>
  /\ UNCHANGED <<State, PipeReadEnds, PipesLeft, registered, pids, detach,
                 opened, args, idx, wd, system>>

-----------------------------------------------------------------------------
(* The end of WaitForData and of WaitForExit. *)

\* Data, a user timeout, or nothing more to read.
WaitReturns ==
  /\ pc = "end" /\ ~(wd.PipeId = "None" /\ wd.Expired /\ ~wd.User)
  /\ IF wd.Expired THEN Return ELSE WaitOver
  /\ UNCHANGED <<object, system>>

\* The process timeout: the children are killed, unless a waitpid error has
\* already changed the state.
WaitExpires ==
  /\ pc = "end" /\ wd.PipeId = "None" /\ wd.Expired /\ ~wd.User
  /\ \/ /\ State = "Executing" /\ pc' = "closepipes" /\ reason' = "timeout"
        /\ SignalPipe' = FALSE
        /\ UNCHANGED <<args, idx, wd, Killed, TimeoutExpired>>
     \/ /\ State # "Executing" /\ Killed' = FALSE /\ TimeoutExpired' = TRUE
        /\ WaitOver /\ UNCHANGED SignalPipe
  /\ UNCHANGED <<State, pipes, registered, pids, SelectError, detach, opened,
                 system>>

\* Mistake: the first command of the pipeline decides.
Outcome_First == IF Killed THEN "Killed"
                 ELSE IF TimeoutExpired THEN "Expired"
                 ELSE IF CommandExitCodes[1] = "signaled"
                      THEN "Exception" ELSE "Exited"

Outcome == IF Killed THEN "Killed"
           ELSE IF TimeoutExpired THEN "Expired"
           ELSE IF CommandExitCodes[NumberOfCommands] = "signaled"
                THEN "Exception" ELSE "Exited"

Finish ==
  /\ pc = "finish" /\ Cleanup /\ Return
  /\ State' = IF State = "Error" \/ SelectError THEN "Error" ELSE Outcome
  /\ UNCHANGED <<PipesLeft, PipeSet, CommandExitCodes, CommandsLeft, flags,
                 detach, opened, child, writers, signal, now>>

-----------------------------------------------------------------------------
(* kwsysProcessClosePipes, then the kills of kwsysProcess_Kill or the end of *)
(* kwsysProcess_Disown.                                                      *)

\* A pipe that select reported is read first, which may block.
ClosePipes(p) ==
  /\ pc = "closepipes" /\ PipeReadEnds # {} /\ p = FirstPipe(PipeReadEnds)
  /\ p \in PipeSet => p = "SIGNAL" \/ Readable(p)
  /\ ClosePipe(p)
  /\ UNCHANGED <<State, notify, pids, flags, detach, opened, caller, child,
                 writers, signal, now>>

PipesClosed ==
  /\ pc = "closepipes" /\ PipeReadEnds = {}
  /\ reason # "disown" /\ pc' = "kill" /\ idx' = 1 /\ Killed' = TRUE
  /\ UNCHANGED <<State, pipes, notify, pids, TimeoutExpired, SelectError,
                 detach, opened, args, wd, reason, system>>

Disowned ==
  /\ pc = "closepipes" /\ PipeReadEnds = {}
  /\ reason = "disown" /\ Cleanup /\ State' = "Disowned" /\ Return
  /\ UNCHANGED <<PipesLeft, PipeSet, CommandExitCodes, CommandsLeft, flags,
                 detach, opened, child, writers, signal, now>>

\* The pid stays in ForkPIDs.
KillOne ==
  /\ pc = "kill" /\ idx \in Cmds /\ KillChild(idx) /\ idx' = idx + 1
  /\ UNCHANGED <<object, args, pc, wd, reason, data, sigByte, now>>

KillDone ==
  /\ pc = "kill" /\ idx \notin Cmds /\ CommandsLeft' = 0
  /\ \/ reason = "user" /\ Return /\ UNCHANGED flags
     \/ /\ reason = "timeout" /\ Killed' = FALSE /\ TimeoutExpired' = TRUE
        /\ IF call = "WaitForData" THEN Return
           ELSE /\ pc' = "finish" /\ idx' = 1
                /\ UNCHANGED <<args, wd, reason>>
        /\ UNCHANGED SelectError
     \/ /\ reason = "select" /\ Killed' = FALSE /\ SelectError' = TRUE
        /\ pc' = "wait" /\ idx' = 1 /\ UNCHANGED <<args, wd, reason>>
        /\ UNCHANGED TimeoutExpired
  /\ UNCHANGED <<State, pipes, notify, ForkPIDs, CommandExitCodes, detach,
                 opened, system>>

-----------------------------------------------------------------------------
(* The rest of the machine. *)

Write(p) ==
  /\ writers[p] # {} /\ data[p] < MaxData
  /\ p \in PipeReadEnds \/ pc = "create"
  /\ data' = [data EXCEPT ![p] = @ + 1]
  /\ UNCHANGED <<object, caller, child, writers, signal, now>>

CloseEarly(p, i) ==
  /\ i \in writers[p] /\ i # Orphan /\ writers' = [writers EXCEPT ![p] = @ \ {i}]
  /\ UNCHANGED <<object, caller, child, data, signal, now>>

\* A child exits, or is killed by a signal that is not ours; a process it has
\* started may keep its pipes.
ChildExit(i) ==
  /\ child[i] \in Alive
  /\ \E st \in Zombie, left \in {FALSE, Orphans} :
       /\ child' = [child EXCEPT ![i] = IF @ = "running" THEN st ELSE "gone"]
       /\ writers' = [p \in DataPipes |->
                        (writers[p] \ {i})
                        \cup {o \in {Orphan} : left /\ i \in writers[p]}]
  /\ sigPending' = (sigPending \/ child[i] = "running")
  /\ UNCHANGED <<object, caller, data, sigByte, now>>

OrphanExit ==
  /\ \E p \in DataPipes : Orphan \in writers[p]
  /\ writers' = [p \in DataPipes |-> writers[p] \ {Orphan}]
  /\ UNCHANGED <<object, caller, child, data, signal, now>>

\* A child of another kwsysProcess, or of none, exits.
OtherChildExit ==
  /\ registered /\ ~sigPending /\ sigPending' = TRUE
  /\ UNCHANGED <<object, caller, family, sigByte, now>>

\* Another part of this program calls wait.
ExternalReap(i) ==
  /\ ExternalReaper /\ child[i] \in Zombie
  /\ child' = [child EXCEPT ![i] = "gone"]
  /\ UNCHANGED <<object, caller, writers, data, signal, now>>

\* Mistake: the handler empties the pipe and does not write.
SignalHandler_NoWrite ==
  /\ sigPending /\ sigPending' = FALSE /\ sigByte' = 0
  /\ UNCHANGED <<object, caller, family, now>>

\* kwsysProcessesSignalHandler for this object: the pipe holds one byte after
\* it, or none if its write end is closed.
SignalHandler ==
  /\ sigPending /\ sigPending' = FALSE
  /\ sigByte' = IF ~registered \/ "SIGNAL" \notin PipeReadEnds THEN sigByte
                ELSE IF SignalPipe THEN 1 ELSE 0
  /\ UNCHANGED <<object, caller, family, now>>

Tick ==
  /\ State = "Executing" \/ pc \notin {"idle", "deleted"}
  /\ now < MaxTime /\ now' = now + 1
  /\ UNCHANGED <<object, caller, family, signal>>

-----------------------------------------------------------------------------
Init ==
  /\ State = "Starting" /\ PipeReadEnds = {} /\ SignalPipe = FALSE
  /\ ForkPIDs = {} /\ CommandExitCodes = [i \in Cmds |-> "zero"]
  /\ CommandsLeft = 0 /\ PipesLeft = 0 /\ PipeSet = {}
  /\ Killed = FALSE /\ TimeoutExpired = FALSE /\ SelectError = FALSE
  /\ OptionDetach = FALSE /\ Detached = FALSE /\ registered = FALSE
  /\ opened = {}
  /\ call = "none" /\ pc = "idle" /\ idx = 1 /\ wantData = FALSE
  /\ userTimeout = None /\ wd = NoWait /\ reason = "user"
  /\ child = [i \in Cmds |-> "none"] /\ writers = [p \in DataPipes |-> {}]
  /\ data = [p \in DataPipes |-> 0] /\ sigByte = 0 /\ sigPending = FALSE
  /\ now = 0

\* The caller starts a call, or goes on with the one it is in.
Call == \/ New \/ SetOption \/ ExecuteBegin \/ ExecuteFails \/ WaitForData
        \/ WaitForExit \/ Delete \/ Disown \/ Kill

ExecuteStep == \/ CreateChild \/ CreateFails \/ ExecuteDone
               \/ CleanupKill \/ CleanupKillsAll \/ CleanupDone

WaitStep == \/ WaitLoop \/ ReadSignal \/ ScanDone \/ SelectReports \/ SelectExpires
            \/ SelectFailure \/ \E p \in DataPipes : ReadData(p)
            \/ \E p \in Pipes : ReadNothing(p)

ReapStep == DestroyReaps \/ DestroySkips \/ DestroyDone

EndStep == WaitReturns \/ WaitExpires \/ Finish

KillStep == \/ \E p \in Pipes : ClosePipes(p)
            \/ PipesClosed \/ Disowned \/ KillOne \/ KillDone

Step == ExecuteStep \/ WaitStep \/ ReapStep \/ EndStep \/ KillStep

Environment ==
  \/ OrphanExit \/ OtherChildExit
  \/ \E p \in DataPipes : Write(p) \/ \E i \in Cmds : CloseEarly(p, i)
  \/ \E i \in Cmds : ChildExit(i) \/ ExternalReap(i)

Next == Call \/ Step \/ Environment \/ SignalHandler \/ Tick

Spec == Init /\ [][Next]_vars

\* A call that has begun goes on, pending signals are delivered, time passes.
\* Nothing is assumed of the children.
FairSpec == Spec /\ WF_vars(Step) /\ WF_vars(SignalHandler) /\ WF_vars(Tick)

\* For an object without timeout: every process exits in the end.
MortalSpec == /\ FairSpec /\ WF_vars(OrphanExit)
              /\ \A i \in Cmds : WF_vars(ChildExit(i))

-----------------------------------------------------------------------------
(* Properties. *)

FlagTypeOK ==
  /\ SignalPipe \in BOOLEAN /\ registered \in BOOLEAN
  /\ Killed \in BOOLEAN /\ TimeoutExpired \in BOOLEAN /\ SelectError \in BOOLEAN
  /\ OptionDetach \in BOOLEAN /\ Detached \in BOOLEAN

PipeTypeOK == /\ PipeReadEnds \subseteq Pipes /\ PipeSet \subseteq Pipes
              /\ opened \subseteq {"StdIn", "StdOut", "StdErr", "ErrorPipe",
                                   "readEnd", "zero"}

CountTypeOK == PipesLeft \in 0..3 /\ CommandsLeft \in 0..NumberOfCommands

PidTypeOK == ForkPIDs \subseteq Cmds /\ CommandExitCodes \in [Cmds -> Statuses]

CallerTypeOK ==
  /\ call \in {"none", "Execute", "WaitForData", "WaitForExit", "Delete",
               "Disown", "Kill"}
  /\ pc \in {"idle", "deleted", "create", "cleanup", "wait", "scan", "destroy",
             "select", "end", "finish", "closepipes", "kill"}
  /\ wantData \in BOOLEAN /\ userTimeout \in UserTimeouts \cup {None}
  /\ reason \in {"user", "timeout", "select", "disown"}

IndexTypeOK == idx \in 1..(NumberOfCommands + 1)

WaitTypeOK ==
  wd \in [PipeId : DataPipes \cup {"None"}, Expired : BOOLEAN, User : BOOLEAN,
          TimeoutTime : Nat \cup {None}]

FamilyTypeOK ==
  /\ child \in [Cmds -> ChildStates]
  /\ writers \in [DataPipes -> SUBSET (Cmds \cup {Orphan})]
  /\ data \in [DataPipes -> 0..MaxData]

SignalTypeOK == sigByte \in {0, 1} /\ sigPending \in BOOLEAN /\ now \in 0..MaxTime

TypeOK == /\ State \in States
          /\ FlagTypeOK /\ PipeTypeOK /\ CountTypeOK /\ PidTypeOK /\ CallerTypeOK
          /\ IndexTypeOK /\ WaitTypeOK /\ FamilyTypeOK /\ SignalTypeOK

\* A child that has exited is never forgotten: as long as the object expects
\* news of it, a signal is pending, a byte waits in the signal pipe, or the
\* reaping loop has yet to come to it.  (The handler empties the pipe before it
\* writes, WaitForPipe reads the byte before it reaps.)
NoLostChildExit ==
  \A i \in ForkPIDs : child[i] \in Zombie /\ SignalPipe =>
     sigPending \/ sigByte = 1 \/ (pc = "destroy" /\ idx <= i)

\* The handler never writes into a pipe without reader, which would raise
\* SIGPIPE, nor is the write end open on an object it does not know.
NoSigPipe == SignalPipe => registered /\ "SIGNAL" \in PipeReadEnds

\* "The pipe is ready to read without blocking": whatever a select reported,
\* possibly in an earlier call, can still be read when its turn comes.
ReportedIsReadable == Reported \subseteq Ready

Count(b) == IF b THEN 1 ELSE 0

\* The count the wait loop runs on is that of the open read ends; the signal
\* pipe that a detached process does not have is counted as well.
PipesLeftCounts ==
  State = "Executing" =>
    PipesLeft = Count("STDOUT" \in PipeReadEnds) + Count("STDERR" \in PipeReadEnds)
                + Count("SIGNAL" \in PipeReadEnds) + Count(Detached)

\* The count that closes the signal pipe is that of the children to reap,
\* until they are killed.
CommandsLeftCounts ==
  State = "Executing" /\ ~Stopped /\ pc # "kill" /\ ~SelectError =>
    CommandsLeft = Cardinality(ForkPIDs)

\* The counts, which errors and kills must keep in step, are right.
CountersAgree == PipesLeftCounts /\ CommandsLeftCounts

\* A caller who sees an outcome, or has deleted the object, holds nothing of
\* the run, and what a start that failed at any of its steps had opened has
\* been closed: no descriptor, no entry in the signal handler's table, no child
\* that still runs or waits to be reaped.
Released ==
  pc = "deleted" \/ (pc = "idle" /\ State \in Outcomes \cup {"Disowned"}) =>
    /\ PipeReadEnds = {} /\ opened = {} /\ ~SignalPipe /\ ~registered
    /\ \A i \in Cmds : child[i] \notin {"running"} \cup Zombie

\* "Kill any children already started": the loop in kwsysProcessCleanup kills
\* and waits for children of this object, not for the -1 of a failed fork.
KillsOwnChildren == pc = "cleanup" /\ idx \in Cmds => ~ForkFailed(idx)

\* "Release resources that may have been allocated for this process before an
\* error occurred": kwsysProcess_Execute does not close descriptor 0.
ClosesOwnDescriptors == "zero" \notin opened

\* An outcome other than a kill is reported when the output has been read to
\* its end and the last child's status is known.
ExitMeansDrained ==
  [][State = "Executing" /\ State' \in {"Exited", "Exception"} =>
       /\ \A p \in DataPipes : writers[p] = {} /\ data[p] = 0
       /\ Detached \/ CommandExitCodes[NumberOfCommands] # "zero"]_vars

\* Expired is reported only if the process timeout has passed.
ExpiredInTime ==
  [][State' = "Expired" /\ State # "Expired" => Timeout > 0 /\ now >= Timeout]_vars

\* A zero user timeout polls: it does not expire while there is something to
\* read, however late the call comes.
ZeroTimeoutPolls ==
  [][wd'.Expired /\ ~wd.Expired /\ wd.User /\ userTimeout = 0 => Ready = {}]_vars

\* Every call returns, however late its children exit and whoever reaps them,
\* unless select fails for ever or a read blocks: a select that fails leaves
\* the set it was given, whose pipes are then read though nobody has looked.
\* (Without such failures ReportedIsReadable says that no read blocks.)
BlockedInRead ==
  \E p \in DataPipes \cap Reported :
    /\ ~Readable(p)
    /\ Scanning(p) \/ (pc = "closepipes" /\ p = FirstPipe(PipeReadEnds))
CallsReturn ==
  <>[][~SelectFailure]_vars =>
    (pc \notin {"idle", "deleted"} ~> pc \in {"idle", "deleted"} \/ BlockedInRead)

\* What has become of each child, for ProcessLifecycle.
fate == [i \in Cmds |->
           CASE child[i] = "adopted" -> "detached"
             [] child[i] = "gone" -> IF CommandExitCodes[i] = "zero" THEN "lost"
                                     ELSE CommandExitCodes[i]
             [] OTHER -> child[i]]

\* The object implements its interface.
Lifecycle == INSTANCE ProcessLifecycle
  WITH State <- IF pc = "cleanup" THEN "Starting" ELSE State,
       HasTimeout <- Timeout # 0, MayError <- SelectFails
LifecycleSpec == Lifecycle!Spec

=============================================================================
