------------------------- MODULE KwsysProcessProofs -------------------------
(***************************************************************************)
(* Proofs about KwsysProcess for every length of the pipeline, every       *)
(* timeout and every bound, where no other code reaps our children, select *)
(* does not fail and the detach option is set between runs; and, at the    *)
(* end, about ProcessTime, the time arithmetic of the same file.           *)
(***************************************************************************)
EXTENDS KwsysProcess, ProcessTime, FiniteSetTheorems, TLAPS

NoFaults == ~SetOptionAnytime /\ ~ExternalReaper /\ ~SelectFails

Loop == {"wait", "scan", "destroy", "select", "end"}
Starting == pc \in {"create", "cleanup"}
Executing == State = "Executing"
Ours == {"running"} \cup Zombie       \* a child that is to be reaped

\* Which state goes with which part of the code.
Places ==
  /\ pc \in Loop \cup {"finish", "closepipes", "kill"} => Executing
  /\ pc = "create" => State = "Starting"
  /\ pc = "cleanup" => State = "Error"
  /\ pc \in Loop \/ Starting => ~Stopped
  /\ pc = "kill" => Killed
  /\ pc = "closepipes" /\ reason = "disown" => Detached
  /\ pc \in {"closepipes", "kill"} => reason # "select"
  /\ ~SelectError
  /\ Starting => PipeSet = {}
  /\ opened # {} => Starting
  /\ pc = "deleted" => ~Executing \/ Detached
  /\ pc \in {"idle", "deleted"} => idx = 1

\* Which call is in which part of the code.  Only WaitForData reports data, and
\* Delete waits without a timeout.
Calls ==
  /\ Starting => call = "Execute"
  /\ pc \in Loop => call \in {"WaitForData", "WaitForExit", "Delete"}
  /\ pc \in {"closepipes", "kill"} /\ reason = "user" => call = "Kill"
  /\ call \in {"WaitForExit", "Delete"} => ~wantData /\ wd.PipeId = "None"
  /\ call = "Delete" => ~wd.User
  /\ pc \in {"idle", "deleted"} => ~wantData /\ wd.PipeId = "None" /\ ~wd.User

\* A detached process has no signal pipe, any other has one until its children
\* are reaped or killed.
Pipes_ ==
  /\ Executing => Detached = OptionDetach
  /\ (Starting /\ OptionDetach) \/ (Executing /\ Detached)
       => "SIGNAL" \notin PipeReadEnds
  /\ pc = "create" /\ ~OptionDetach => SignalPipe
  /\ pc = "create" => "STDERR" \in PipeReadEnds
  /\ registered => ~OptionDetach
  /\ SignalPipe => Starting \/ (Executing /\ pc # "closepipes" /\ ~Stopped)
  /\ Executing /\ ~Detached /\ ~Stopped /\ ~SignalPipe /\ pc # "closepipes"
       => ForkPIDs = {}
  /\ registered \/ PipeReadEnds # {} \/ ForkPIDs # {} => Starting \/ Executing

\* The pids are those of the children to be reaped, until they are killed or a
\* fork fails.
Children ==
  /\ \A i \in Cmds : child[i] \in Ours => i \in ForkPIDs
  /\ pc = "create" => ForkPIDs = 1..(idx - 1)
  /\ (pc = "create" /\ ~OptionDetach) \/ (Executing /\ ~Detached /\ ~Stopped) =>
       \A i \in ForkPIDs : child[i] \in Ours
  /\ pc = "create" \/ (Executing /\ ~Stopped) => CommandsLeft = Cardinality(ForkPIDs)
  /\ pc = "destroy" => ~Detached

\* The kill loops have dealt with the children before idx.
KilledSoFar ==
  /\ pc \in {"cleanup", "kill"} => \A i \in 1..(idx - 1) : child[i] \notin Ours
  /\ Executing /\ (Stopped \/ Detached) /\ pc # "kill"
       => \A i \in Cmds : child[i] \notin Ours
  /\ Starting /\ OptionDetach => \A i \in Cmds : child[i] \notin Ours
  /\ Executing /\ Stopped => PipeReadEnds = {}

\* Nothing is left to read when a wait ends for no other reason.
Drained ==
  /\ pc = "end" /\ wd.PipeId = "None" /\ ~wd.Expired => PipeReadEnds = {}
  /\ pc = "finish" /\ ~Stopped => PipeReadEnds = {}
  /\ pc = "deleted" => PipeReadEnds = {}

\* A pipe is closed when it has been read to its end, a pid dropped when its
\* exit code is known, until the children are killed.
Collected ==
  /\ Executing /\ ~Stopped /\ pc # "closepipes" =>
       \A p \in DataPipes \ PipeReadEnds : writers[p] = {} /\ data[p] = 0
  /\ Executing /\ ~Detached /\ ~Stopped =>
       \A i \in Cmds \ ForkPIDs : CommandExitCodes[i] \in Zombie

\* Whatever says that the process has timed out, its timeout has passed.
TimedOut == Timeout > 0 /\ now >= Timeout
Deadlines ==
  /\ ~wd.User /\ wd.TimeoutTime # None => Timeout > 0 /\ wd.TimeoutTime = Timeout
  /\ wd.Expired => wd.TimeoutTime # None /\ now >= wd.TimeoutTime
  /\ pc \in {"idle", "deleted"} => ~wd.Expired
  /\ pc \in {"closepipes", "kill"} /\ reason = "timeout" => TimedOut
  /\ TimeoutExpired => TimedOut

IInv == /\ TypeOK /\ Places /\ Calls /\ Pipes_ /\ Children /\ KilledSoFar /\ Drained
        /\ Collected /\ Deadlines
        /\ NoSigPipe /\ NoLostChildExit /\ ReportedIsReadable /\ PipesLeftCounts

\* What is expanded wherever it occurs: the names of small sets and of groups
\* of variables, and the actions.
USE DEF Count, None, DataPipes, Pipes, Cmds, Zombie, Alive, Loop, Ours, notify,
        pids, flags, detach, args, signal, family, object, caller, system,
        pipes
USE DEF New, SetOption, ExecuteBegin, ExecuteFails, WaitForData, WaitForExit,
        Delete, Disown, Kill, CreateChild, CreateFails, CleanupKill,
        CleanupKillsAll, CleanupDone, ExecuteDone, WaitLoop, ReadSignal, ScanDone,
        SelectReports, SelectExpires, SelectFailure, ReadData, ReadNothing,
        DestroyReaps, DestroySkips, DestroyDone, WaitReturns, WaitExpires,
        Finish, PipesClosed, Disowned, KillOne, KillDone, ClosePipes,
        OrphanExit, OtherChildExit, Write, CloseEarly, ChildExit, ExternalReap,
        SignalHandler, Tick, Step, Call, ExecuteStep, WaitStep, ReapStep,
        EndStep, KillStep, Environment

\* The number of pids, which CommandsLeft is to be, is a number.
LEMMA FinitePids ==
  ASSUME PidTypeOK
  PROVE  /\ IsFiniteSet(ForkPIDs) /\ Cardinality(ForkPIDs) \in 0..NumberOfCommands
         /\ Cardinality(ForkPIDs) = 0 <=> ForkPIDs = {}
<1>1. IsFiniteSet(Cmds) /\ Cardinality(Cmds) = NumberOfCommands
  BY FS_Interval, ConstantsAssumption DEF Cmds
<1>2. IsFiniteSet(ForkPIDs) /\ Cardinality(ForkPIDs) <= Cardinality(Cmds)
  BY <1>1, FS_Subset DEF PidTypeOK
<1>3. Cardinality(ForkPIDs) \in Nat
  BY <1>2, FS_CardinalityType
<1>. QED BY <1>1, <1>2, <1>3, FS_EmptySet, ConstantsAssumption

\* The pipe that is looked at first is one of those to look at.
LEMMA FirstPipeIn ==
  ASSUME NEW S \in SUBSET Pipes, S # {}
  PROVE  FirstPipe(S) \in S
  BY DEF FirstPipe

\* GetTimeoutTime yields well-typed wait data.
LEMMA TimeoutTimeType ==
  ASSUME IInv, NEW ut \in Finite \cup {None}, wd' = GetTimeoutTime(ut)
  PROVE  WaitTypeOK'
<1>1. now \in Nat /\ ut \in Nat \cup {None} /\ Timeout \in Nat
  BY ConstantsAssumption DEF IInv, TypeOK, SignalTypeOK, Finite
<1> QED BY <1>1 DEF GetTimeoutTime, WaitTypeOK

\* So does keeping or dropping them.
LEMMA WaitTypeKept ==
  ASSUME IInv, wd' = wd \/ wd' = NoWait
  PROVE  WaitTypeOK'
<1>1. wd' \in [PipeId : DataPipes \cup {"None"}, Expired : BOOLEAN, User : BOOLEAN,
               TimeoutTime : Nat \cup {None}]
  <2>1. CASE wd' = wd
    BY <2>1 DEF IInv, TypeOK, WaitTypeOK
  <2>2. CASE wd' = NoWait
    BY <2>2 DEF NoWait
  <2> QED BY <2>1, <2>2
<1> QED BY <1>1 DEF WaitTypeOK

\* The deadline of a wait is that of the process, unless it is its caller's.
LEMMA TimeoutTimeIs ==
  ASSUME NEW ut, NEW w, w = GetTimeoutTime(ut)
  PROVE  /\ ~w.Expired
         /\ ~w.User /\ w.TimeoutTime # None => Timeout > 0 /\ w.TimeoutTime = Timeout
<1>1. /\ w.Expired = FALSE
      /\ w.TimeoutTime # None /\ ~w.User => Timeout # 0 /\ w.TimeoutTime = Timeout
  BY ConstantsAssumption DEF GetTimeoutTime
<1> QED BY <1>1, ConstantsAssumption

-----------------------------------------------------------------------------
(* Every step keeps every part of the invariant. *)

\* The state stays one of the enumerated ones (kwsysProcess_State_e).
LEMMA StatesKept ==
  ASSUME NoFaults, IInv, Next
  PROVE  State' \in States
  BY DEF Next, IInv, NoFaults, TypeOK, States, Outcomes, Outcome, Initialize,
     NoChildren, Enter, StartWait, GetTimeoutTime, NoWait, Finite

\* The flags stay flags.
LEMMA FlagTypeKept ==
  ASSUME NoFaults, IInv, Next
  PROVE  FlagTypeOK'
<1>1. CASE New \/ SetOption \/ ExecuteBegin \/ ExecuteFails \/ WaitForData
           \/ WaitForExit \/ Delete \/ Disown \/ Kill
  BY <1>1 DEF IInv, TypeOK, FlagTypeOK, Initialize, NoFaults, StartWait,
     GetTimeoutTime, NoWait, Finite, Enter
<1>2. CASE ExecuteStep \/ WaitStep
  BY <1>2 DEF IInv, TypeOK, FlagTypeOK, Cleanup
<1>3. CASE ReapStep \/ EndStep
  BY <1>3 DEF IInv, TypeOK, FlagTypeOK, Cleanup
<1>4. CASE SignalHandler \/ Tick
  BY <1>4 DEF IInv, TypeOK, FlagTypeOK
<1>5. CASE KillStep
  BY <1>5 DEF IInv, TypeOK, FlagTypeOK, Cleanup
<1>6. CASE Environment
  BY <1>6 DEF IInv, TypeOK, FlagTypeOK
<1> QED BY <1>1, <1>2, <1>3, <1>4, <1>5, <1>6 DEF Next

\* Only the three pipes are ever open or reported.
LEMMA PipeTypeKept ==
  ASSUME NoFaults, IInv, Next
  PROVE  PipeTypeOK'
<1>1. CASE CreateFails
  BY <1>1 DEF NothingStarted, ExecFails, StdIns, IInv, TypeOK, PipeTypeOK
<1>2. CASE \/ Call \/ WaitStep \/ ReapStep \/ EndStep \/ KillStep
           \/ CreateChild \/ ExecuteDone
           \/ CleanupKill \/ CleanupKillsAll \/ CleanupDone
           \/ Environment \/ SignalHandler \/ Tick
  BY <1>2 DEF IInv, NoFaults, TypeOK, PipeTypeOK, Ready, Initialize,
     NoChildren, Enter, StartWait, GetTimeoutTime, NoWait, Finite, Cleanup,
     Scanning, Reported, ClosePipe, Readable
<1> QED BY <1>1, <1>2 DEF Next

\* PipesLeft and CommandsLeft never leave their range: neither is decremented
\* below zero, because a pipe that is closed was open and counted, and a child
\* that is reaped was started and counted.
LEMMA CountTypeKept ==
  ASSUME NoFaults, IInv, Next
  PROVE  CountTypeOK'
<1>1. CASE Call \/ EndStep \/ Environment \/ SignalHandler \/ Tick
           \/ CleanupKill \/ CleanupKillsAll \/ CleanupDone
           \/ WaitLoop \/ ReadSignal \/ ScanDone
           \/ SelectReports \/ SelectExpires \/ SelectFailure
           \/ (\E p \in DataPipes : ReadData(p)) \/ DestroySkips \/ DestroyDone
           \/ PipesClosed \/ Disowned \/ KillOne \/ KillDone
  BY <1>1, ConstantsAssumption DEF IInv, NoFaults, TypeOK, CountTypeOK,
     Initialize, NoChildren, Enter, StartWait, GetTimeoutTime, NoWait, Finite
<1>2. CASE CreateChild
  <2>1. idx \in Cmds /\ CommandsLeft = Cardinality(ForkPIDs) /\ ForkPIDs = 1..(idx - 1)
    BY <1>2 DEF IInv, Children, Starting
  <2>2. Cardinality(1..(idx - 1)) = idx - 1
    BY <2>1, FS_Interval, ConstantsAssumption
  <2> QED BY <1>2, <2>1, <2>2, ConstantsAssumption DEF IInv, TypeOK,
     CountTypeOK
<1>3. CASE CreateFails
  <2>1. idx \in Cmds /\ CommandsLeft = Cardinality(ForkPIDs) /\ ForkPIDs = 1..(idx - 1)
    BY <1>3 DEF IInv, Children, Starting
  <2>2. Cardinality(1..(idx - 1)) = idx - 1
    BY <2>1, FS_Interval, ConstantsAssumption
  <2> QED BY <1>3, <2>1, <2>2, ConstantsAssumption DEF IInv, TypeOK,
     CountTypeOK, NothingStarted, ExecFails
<1>4. CASE ExecuteDone
  BY <1>4 DEF IInv, TypeOK, CountTypeOK, KWSYSPE_PIPE_COUNT
<1>5. ASSUME NEW p \in Pipes, ReadNothing(p)
      PROVE  CountTypeOK'
  <2>1. p \in PipeReadEnds
    BY <1>5, FirstPipeIn DEF Scanning, Reported, IInv, TypeOK, PipeTypeOK
  <2>2. PipesLeft >= 1
    BY <1>5, <2>1 DEF IInv, PipesLeftCounts, Places, Executing, Scanning
  <2> QED BY <1>5, <2>2 DEF IInv, TypeOK, CountTypeOK, ClosePipe
<1>6. ASSUME NEW p \in Pipes, ClosePipes(p)
      PROVE  CountTypeOK'
  <2>1. p \in PipeReadEnds
    BY <1>6, FirstPipeIn DEF IInv, TypeOK, PipeTypeOK
  <2>2. PipesLeft >= 1
    BY <1>6, <2>1 DEF IInv, PipesLeftCounts, Places, Executing
  <2> QED BY <1>6, <2>2 DEF IInv, TypeOK, CountTypeOK, ClosePipe
<1>7. CASE DestroyReaps
  <2>1. Cardinality(ForkPIDs) \in Nat \ {0} /\ CommandsLeft = Cardinality(ForkPIDs)
    BY <1>7, FinitePids DEF IInv, TypeOK, Places, Children, Executing, Stopped
  <2> QED BY <1>7, <2>1, ConstantsAssumption DEF IInv, TypeOK, CountTypeOK
<1> QED BY <1>1, <1>2, <1>3, <1>4, <1>5, <1>6, <1>7 DEF Next

\* Pids and exit codes belong to commands of the pipeline.
LEMMA PidTypeKept ==
  ASSUME NoFaults, IInv, Next
  PROVE  PidTypeOK'
<1>1. CASE CreateFails
  BY <1>1 DEF NothingStarted, ExecFails, IInv, TypeOK, PidTypeOK
<1>2. CASE \/ Call \/ WaitStep \/ ReapStep \/ EndStep \/ KillStep
           \/ CreateChild \/ ExecuteDone
           \/ CleanupKill \/ CleanupKillsAll \/ CleanupDone
           \/ Environment \/ SignalHandler \/ Tick
  BY <1>2 DEF IInv, NoFaults, TypeOK, PidTypeOK, Statuses, Initialize,
     NoChildren, Enter, StartWait, GetTimeoutTime, NoWait, Finite, Cleanup
<1> QED BY <1>1, <1>2 DEF Next

\* The caller is at a known place of a known call.
LEMMA CallerTypeKept ==
  ASSUME NoFaults, IInv, Next
  PROVE  CallerTypeOK'
<1>1. CASE Call
  <2>1. CASE WaitForData \/ WaitForExit \/ Delete
    BY <2>1 DEF IInv, TypeOK, CallerTypeOK, Enter, StartWait, Finite
  <2>2. CASE New
    BY <2>2 DEF IInv, TypeOK, CallerTypeOK
  <2>3. CASE SetOption \/ ExecuteFails
    BY <2>3 DEF IInv, TypeOK, CallerTypeOK
  <2>4. CASE ExecuteBegin
    <3>1. /\ call' = "Execute" /\ pc' = "create"
          /\ UNCHANGED <<wantData, userTimeout, reason>>
      BY <2>4 DEF Enter
    <3> QED BY <3>1 DEF IInv, TypeOK, CallerTypeOK
  <2>5. CASE Disown \/ Kill
    BY <2>5 DEF IInv, TypeOK, CallerTypeOK
  <2> QED BY <1>1, <2>1, <2>2, <2>3, <2>4, <2>5
<1>2. CASE WaitStep
  BY <1>2 DEF IInv, TypeOK, CallerTypeOK
<1>3. CASE EndStep
  BY <1>3 DEF IInv, TypeOK, CallerTypeOK, Return, WaitOver
<1>4. CASE ExecuteStep \/ ReapStep \/ KillStep
  BY <1>4 DEF IInv, TypeOK, CallerTypeOK, Return
<1>5. CASE Environment \/ SignalHandler \/ Tick
  BY <1>5 DEF IInv, TypeOK, CallerTypeOK
<1> QED BY <1>1, <1>2, <1>3, <1>4, <1>5 DEF Next

\* No loop over the commands runs past them by more than one.
LEMMA IndexTypeKept ==
  ASSUME NoFaults, IInv, Next
  PROVE  IndexTypeOK'
  BY ConstantsAssumption DEF Next, IInv, TypeOK, IndexTypeOK, PidTypeOK, Enter,
     StartWait, Return, WaitOver

\* The wait data keep their types: a deadline is a time or none.
LEMMA WaitTypeOKKept ==
  ASSUME NoFaults, IInv, Next
  PROVE  WaitTypeOK'
<1>1. \/ wd' = wd \/ wd' = NoWait
      \/ \E ut \in Finite \cup {None} : wd' = GetTimeoutTime(ut)
      \/ wd' = [wd EXCEPT !.Expired = TRUE]
      \/ \E p \in DataPipes : wd' = [wd EXCEPT !.PipeId = p]
  <2>1. CASE WaitForData \/ WaitForExit \/ Delete
    BY <2>1 DEF StartWait, Enter
  <2>2. CASE Step
    BY <2>2 DEF WaitOver, Return, Scanning
  <2>3. CASE \/ New \/ SetOption \/ ExecuteBegin \/ ExecuteFails \/ Disown
             \/ Kill \/ Environment \/ SignalHandler \/ Tick
    BY <2>3 DEF Enter
  <2> QED BY <2>1, <2>2, <2>3 DEF Next
<1> QED BY <1>1, WaitTypeKept, TimeoutTimeType DEF IInv, TypeOK, WaitTypeOK

\* So does what the operating system knows of the children.
LEMMA FamilyTypeKept ==
  ASSUME NoFaults, IInv, Next
  PROVE  FamilyTypeOK'
<1>1. CASE ReapStep \/ EndStep \/ KillStep \/ SignalHandler
  BY <1>1, ConstantsAssumption DEF IInv, TypeOK, FamilyTypeOK, ChildStates,
     Cleanup, KillChild, ClosePipe
<1>2. CASE Tick \/ OrphanExit \/ OtherChildExit
  BY <1>2 DEF IInv, TypeOK, FamilyTypeOK, ChildStates
<1>3. CASE ExecuteStep \/ WaitStep
  BY <1>3, ConstantsAssumption DEF IInv, TypeOK, FamilyTypeOK, ChildStates,
     KillChild, Cleanup, ClosePipe, NothingStarted, ExecFails
<1>4. CASE (\E p \in DataPipes : Write(p))
           \/ (\E p \in DataPipes, i \in Cmds : CloseEarly(p, i))
  BY <1>4, ConstantsAssumption DEF IInv, TypeOK, FamilyTypeOK, ChildStates
<1>5. CASE Call
  BY <1>5, ConstantsAssumption DEF IInv, NoFaults, TypeOK, FamilyTypeOK,
     ChildStates, Initialize, NoChildren, Enter, StartWait, GetTimeoutTime,
     NoWait, Finite
<1>6. ASSUME NEW i \in Cmds, ChildExit(i)
      PROVE  FamilyTypeOK'
  BY <1>6 DEF IInv, TypeOK, FamilyTypeOK, ChildStates
<1>7. ASSUME NEW i \in Cmds, ExternalReap(i)
      PROVE  FamilyTypeOK'
  BY <1>7 DEF IInv, TypeOK, FamilyTypeOK, ChildStates
<1> QED BY <1>1, <1>2, <1>3, <1>4, <1>5, <1>6, <1>7 DEF Next

\* The signal pipe holds at most one byte.
LEMMA SignalTypeKept ==
  ASSUME NoFaults, IInv, Next
  PROVE  SignalTypeOK'
<1>1. CASE WaitStep \/ ReapStep
  BY <1>1 DEF IInv, TypeOK, SignalTypeOK
<1>2. CASE EndStep \/ KillStep
  BY <1>2 DEF IInv, TypeOK, SignalTypeOK, KillChild
<1>3. CASE Call
  BY <1>3, ConstantsAssumption DEF IInv, NoFaults, TypeOK, SignalTypeOK,
     Initialize, NoChildren, Enter, StartWait, GetTimeoutTime, NoWait, Finite
<1>4. CASE ExecuteStep
  BY <1>4 DEF IInv, TypeOK, SignalTypeOK, KillChild, NothingStarted, ExecFails
<1>5. CASE Environment
  BY <1>5 DEF IInv, TypeOK, SignalTypeOK
<1>6. CASE SignalHandler
  BY <1>6 DEF IInv, TypeOK, SignalTypeOK
<1>7. CASE Tick
  BY <1>7, ConstantsAssumption DEF IInv, TypeOK, SignalTypeOK
<1> QED BY <1>1, <1>2, <1>3, <1>4, <1>5, <1>6, <1>7 DEF Next

\* Every place of the code keeps to its states.
LEMMA PlacesKept ==
  ASSUME NoFaults, IInv, Next
  PROVE  Places'
<1>1. CASE Call \/ WaitStep \/ Environment \/ SignalHandler \/ Tick
           \/ CreateChild \/ CreateFails
           \/ CleanupKill \/ CleanupKillsAll \/ CleanupDone
           \/ DestroyReaps \/ DestroyDone \/ WaitExpires \/ Finish
           \/ PipesClosed \/ Disowned \/ KillOne
           \/ (\E p \in Pipes : ClosePipes(p))
  BY <1>1 DEF IInv, NoFaults, TypeOK, Places, Reported, Pipes_, Executing,
     Starting, Stopped, Initialize, Enter, StartWait, Scanning, Ready,
     ClosePipe, Return, WaitOver, Outcome, Readable
<1>2. CASE ExecuteDone
  <2>1. /\ pc' = "idle" /\ idx' = 1 /\ State' = "Executing"
        /\ ~Stopped' /\ SelectError' = SelectError /\ PipeSet' = PipeSet
        /\ opened' = {}
    BY <1>2 DEF Return, IInv, Places, Calls, Starting, Stopped
  <2> QED BY <2>1 DEF IInv, Places, Executing, Starting, Stopped
<1>3. CASE DestroySkips
  <2>1. State' = State
    BY <1>3 DEF IInv, NoFaults, Children, Places, Executing, Stopped
  <2> QED BY <1>3, <2>1 DEF IInv, Places, Executing, Starting, Stopped
<1>4. CASE WaitReturns
  <2>1. UNCHANGED <<State, Killed, TimeoutExpired, SelectError, PipeSet, Detached,
                    opened>>
    BY <1>4
  <2>2. pc = "end" /\ Executing /\ ~Stopped /\ ~SelectError /\ opened = {}
    BY <1>4 DEF IInv, Places, Starting
  <2>3. CASE Return
    <3>1. idx' = 1 /\ (pc' = "idle" \/ (pc' = "deleted" /\ call = "Delete"))
      BY <2>3 DEF Return
    <3>2. call # "Delete"
      BY <1>4, <2>3 DEF WaitOver, Return, IInv, Calls
    <3> QED BY <2>1, <2>2, <3>1, <3>2 DEF Places, Executing, Starting, Stopped
  <2>4. CASE WaitOver /\ ~Return
    BY <1>4, <2>1, <2>2, <2>4 DEF WaitOver, IInv, Places, Executing, Starting,
       Stopped
  <2> QED BY <1>4, <2>3, <2>4
<1>5. CASE KillDone
  <2>1. CASE reason = "user"
    BY <1>5, <2>1 DEF Return, IInv, Places, Calls, Executing, Starting, Stopped
  <2>2. CASE reason = "timeout"
    BY <1>5, <2>2 DEF Return, IInv, Places, Executing, Starting, Stopped
  <2> QED BY <1>5, <2>1, <2>2 DEF IInv, Places
<1> QED BY <1>1, <1>2, <1>3, <1>4, <1>5 DEF Next

\* Every call keeps to its places.
LEMMA CallsKept ==
  ASSUME NoFaults, IInv, Next
  PROVE  Calls'
<1>1. CASE Call \/ ExecuteStep \/ ReapStep \/ EndStep \/ Environment
           \/ SignalHandler \/ Tick \/ WaitLoop \/ ReadSignal
  BY <1>1, ConstantsAssumption DEF IInv, NoFaults, Calls, NoWait, Executing,
     Starting, Stopped, Enter, StartWait, GetTimeoutTime, Finite, Return,
     WaitOver, Scanning, Reported, FirstPipe
<1>2. CASE (\E p \in Pipes : ReadNothing(p)) \/ PipesClosed \/ Disowned
           \/ KillOne \/ (\E p \in Pipes : ClosePipes(p))
  BY <1>2 DEF IInv, Calls, NoWait, Executing, Starting, Stopped, Return
<1>3. CASE SelectFailure \/ (\E p \in DataPipes : ReadData(p))
  BY <1>3 DEF IInv, NoFaults, Calls, NoWait, Executing, Starting, Stopped,
     Scanning, Reported
<1>4. CASE SelectReports
  BY <1>4 DEF IInv, Calls, NoWait, Executing, Starting, Stopped
<1>5. CASE SelectExpires
  BY <1>5 DEF IInv, Calls, NoWait, Executing, Starting, Stopped
<1>6. CASE ScanDone
  BY <1>6 DEF IInv, Calls, TypeOK, WaitTypeOK, Starting
<1>7. CASE KillDone
  <2>1. CASE reason = "user"
    BY <1>7, <2>1 DEF Return, NoWait, IInv, Calls, Starting
  <2>2. CASE reason = "timeout"
    BY <1>7, <2>2 DEF Return, NoWait, IInv, Calls, Starting
  <2> QED BY <1>7, <2>1, <2>2 DEF IInv, Places
<1> QED BY <1>1, <1>2, <1>3, <1>4, <1>5, <1>6, <1>7 DEF Next

\* The signal pipe is there as long as it is needed.
LEMMA PipesKept ==
  ASSUME NoFaults, IInv, Next
  PROVE  Pipes_'
<1>1. CASE WaitForData \/ WaitForExit \/ Kill \/ CreateChild \/ CreateFails
           \/ CleanupKill \/ CleanupKillsAll \/ ExecuteDone
           \/ DestroyDone \/ WaitReturns \/ WaitExpires
  BY <1>1 DEF IInv, TypeOK, Pipes_, Places, Executing, Starting, Stopped,
     StartWait, Enter, Return, WaitOver
<1>2. CASE WaitStep \/ KillStep \/ Environment \/ SignalHandler
  BY <1>2 DEF IInv, NoFaults, TypeOK, Pipes_, Places, Executing, Starting,
     Stopped, Scanning, Reported, FirstPipe, NoTimeLeft, Ready, ClosePipe,
     Cleanup, Return
<1>3. CASE Tick \/ New
  BY <1>3 DEF IInv, TypeOK, Pipes_, Places, Executing, Starting, Stopped,
     Initialize
<1>4. CASE SetOption
  BY <1>4 DEF IInv, NoFaults, TypeOK, Pipes_, Places, Executing, Starting,
     Stopped
<1>5. CASE ExecuteBegin
  BY <1>5 DEF IInv, TypeOK, Pipes_, Places, Executing, Starting, Stopped,
     Initialize, Enter
<1>6. CASE ExecuteFails
  BY <1>6 DEF IInv, TypeOK, Pipes_, Places, Executing, Starting, Stopped,
     Initialize
<1>7. CASE Delete
  BY <1>7 DEF StartWait, Enter, IInv, Pipes_, NoSigPipe, Executing, Starting,
     Stopped
<1>8. CASE Disown
  BY <1>8 DEF IInv, Pipes_, NoSigPipe, Executing, Starting, Stopped
<1>9. CASE CleanupDone
  BY <1>9 DEF Cleanup, Return, IInv, Pipes_, Places, NoSigPipe, Executing,
     Starting, Stopped
<1>10. CASE Finish
  <2>1. State' # "Executing" /\ pc' \in {"idle", "deleted"} /\ ForkPIDs' = {} /\
          PipeReadEnds' = {}
    BY <1>10 DEF Cleanup, Return, Outcome
  <2>2. ~registered' /\ ~SignalPipe'
    BY <1>10 DEF Cleanup, IInv, Pipes_, Places, NoSigPipe, Executing
  <2> QED BY <2>1, <2>2 DEF Pipes_, Executing, Starting
<1>11. CASE DestroyReaps
  <2>1. CommandsLeft = Cardinality(ForkPIDs) /\ idx \in ForkPIDs
    BY <1>11 DEF IInv, Places, Children, Executing, Stopped
  <2>2. Cardinality(ForkPIDs \ {idx}) = Cardinality(ForkPIDs) - 1
    BY <2>1, FinitePids, FS_RemoveElement DEF IInv, TypeOK
  <2>3. IsFiniteSet(ForkPIDs \ {idx})
    BY FinitePids, FS_Subset DEF IInv, TypeOK
  <2>4. CommandsLeft' = 0 => ForkPIDs' = {}
    BY <1>11, <2>1, <2>2, <2>3, FS_EmptySet
  <2> QED BY <1>11, <2>4 DEF IInv, TypeOK, FlagTypeOK, Pipes_, Places,
     Executing, Starting, Stopped
<1>12. CASE DestroySkips
  <2>1. State' = State
    BY <1>12 DEF IInv, NoFaults, Children, Places, Executing, Stopped
  <2> QED BY <1>12, <2>1 DEF IInv, Pipes_, Executing, Starting, Stopped
<1> QED BY <1>1, <1>2, <1>3, <1>4, <1>5, <1>6, <1>7, <1>8, <1>9, <1>10, <1>11, <1>12 DEF
   Next

\* ForkPIDs stays the set of the children to be reaped, but for the pid -1.
LEMMA ChildrenKept ==
  ASSUME NoFaults, IInv, Next
  PROVE  Children'
<1>. DEFINE Kept ==
       /\ UNCHANGED <<child, ForkPIDs, CommandsLeft>>
       /\ UNCHANGED <<pc, idx>> \/ pc' \notin {"create", "cleanup", "destroy"}
       /\ Starting' => Starting /\ UNCHANGED OptionDetach
       /\ Executing' /\ ~Stopped' => Executing /\ ~Stopped
       /\ Executing' \/ pc' = "destroy" => UNCHANGED Detached
<1>1. CASE Kept
  BY <1>1 DEF IInv, Children, Starting, Executing
<1>2. CASE New \/ ExecuteFails
  BY <1>2, FS_EmptySet DEF Children, Initialize, NoChildren, Starting, Executing
<1>3. CASE ExecuteBegin
  <2>1. /\ child' = [i \in Cmds |-> "none"] /\ ForkPIDs' = {} /\ CommandsLeft' = 0
        /\ pc' = "create" /\ idx' = idx
    BY <1>3 DEF Enter, NoChildren, Initialize
  <2>2. idx = 1
    BY <1>3 DEF IInv, Places
  <2>3. Cardinality({}) = 0
    BY FS_EmptySet
  <2>4. 1..0 = {}
    OBVIOUS
  <2> QED BY <2>1, <2>2, <2>3, <2>4 DEF Children, Starting, Executing
<1>4. CASE CreateChild
  <2>1. idx \in Cmds /\ CommandsLeft = Cardinality(ForkPIDs) /\ ForkPIDs = 1..(idx - 1)
    BY <1>4 DEF IInv, Children, Starting
  <2>2. ForkPIDs' = 1..(idx' - 1) /\ CommandsLeft' = CommandsLeft + 1 /\ idx' = idx + 1
    BY <1>4, <2>1, ConstantsAssumption
  <2>3. Cardinality(1..(idx - 1)) = idx - 1 /\ Cardinality(1..(idx' - 1)) = idx' - 1
    BY <2>1, <2>2, FS_Interval, ConstantsAssumption
  <2>4. CommandsLeft' = Cardinality(ForkPIDs')
    BY <2>1, <2>2, <2>3, ConstantsAssumption
  <2>5. \A i \in Cmds : child'[i] \in Ours => i \in ForkPIDs'
    BY <1>4 DEF IInv, TypeOK, FamilyTypeOK, Children
  <2>6. ~OptionDetach => \A i \in ForkPIDs' : child'[i] \in Ours
    BY <1>4, <2>1 DEF IInv, TypeOK, FamilyTypeOK, PidTypeOK, Children
  <2> QED BY <1>4, <2>2, <2>4, <2>5, <2>6 DEF Children, IInv, Places,
     Starting, Executing, Stopped
<1>5. CASE CreateFails
  <2>1. /\ idx \in Cmds /\ CommandsLeft = Cardinality(ForkPIDs) /\ ForkPIDs = 1..(idx - 1)
        /\ pc' = "cleanup" /\ State' = "Error"
    BY <1>5 DEF IInv, Children, Starting
  <2>2. CASE NothingStarted
    <3>1. child' = child /\ ForkPIDs \subseteq ForkPIDs'
      BY <2>2 DEF NothingStarted
    <3> QED BY <2>1, <3>1 DEF IInv, Children, Executing
  <2>3. CASE ExecFails
    <3>1. \A i \in Cmds : i # idx => child'[i] = child[i]
      BY <2>3 DEF ExecFails, IInv, TypeOK, FamilyTypeOK
    <3>2. \A i \in Cmds : child'[i] \in Ours => i \in ForkPIDs'
      <4>1. \A i \in Cmds : i # idx /\ child'[i] \in Ours => i \in ForkPIDs
        BY <3>1 DEF IInv, Children
      <4>2. idx \in ForkPIDs' /\ ForkPIDs \subseteq ForkPIDs'
        BY <2>3 DEF ExecFails
      <4> QED BY <4>1, <4>2
    <3> QED BY <2>1, <3>2 DEF Children, Executing
  <2> QED BY <1>5, <2>2, <2>3
<1>6. CASE CleanupKill
  BY <1>6, ConstantsAssumption DEF IInv, TypeOK, Children, Places,
     FamilyTypeOK, PidTypeOK, Executing, Starting, Stopped, KillChild
<1>7. CASE CleanupDone
  <2>1. \A i \in Cmds : child[i] \notin Ours
    BY <1>7, ConstantsAssumption DEF IInv, KilledSoFar, TypeOK, IndexTypeOK
  <2>2. child' = child /\ ForkPIDs' = {} /\ pc' \in {"idle", "deleted"} /\ State' = "Error"
    BY <1>7 DEF Cleanup, Return, IInv, Places
  <2> QED BY <2>1, <2>2 DEF Children, Starting, Executing
<1>8. CASE ExecuteDone
  BY <1>8, ConstantsAssumption DEF IInv, TypeOK, Children, Places,
     FamilyTypeOK, PidTypeOK, Executing, Starting, Stopped, Return, NoWait
<1>9. CASE ReadSignal
  <2>1. "SIGNAL" \in PipeReadEnds
    BY <1>9, FirstPipeIn DEF Scanning, Reported, IInv, TypeOK, PipeTypeOK
  <2>2. ~Detached
    BY <1>9, <2>1 DEF Scanning, IInv, Places, Pipes_, Executing
  <2> QED BY <1>9, <2>2 DEF Scanning, IInv, Children, Starting, Executing,
     Stopped
<1>10. CASE DestroyReaps
  <2>1. CommandsLeft = Cardinality(ForkPIDs) /\ idx \in ForkPIDs /\ ~Detached
    BY <1>10 DEF IInv, Places, Children, Executing, Stopped
  <2>2. Cardinality(ForkPIDs \ {idx}) = Cardinality(ForkPIDs) - 1
    BY <2>1, FinitePids, FS_RemoveElement DEF IInv, TypeOK
  <2>3. CommandsLeft' = Cardinality(ForkPIDs')
    BY <1>10, <2>1, <2>2
  <2>4. \A i \in Cmds : child'[i] \in Ours => i \in ForkPIDs'
    BY <1>10 DEF IInv, TypeOK, FamilyTypeOK, PidTypeOK, Children
  <2>5. \A i \in ForkPIDs' : child'[i] \in Ours
    BY <1>10, <2>1 DEF IInv, TypeOK, FamilyTypeOK, PidTypeOK, Children,
       Places, Executing, Stopped
  <2> QED BY <1>10, <2>1, <2>3, <2>4, <2>5 DEF Children, IInv, Places,
     Starting, Executing, Stopped
<1>11. CASE DestroySkips
  BY <1>11, ConstantsAssumption DEF IInv, TypeOK, Children, Places,
     FamilyTypeOK, PidTypeOK, Executing, Starting, Stopped
<1>12. CASE Finish
  <2>1. \A i \in Cmds : child[i] \notin Ours
    BY <1>12 DEF IInv, KilledSoFar, Children, Drained, Pipes_, NoSigPipe,
       Places, TypeOK, FlagTypeOK, Executing, Stopped
  <2>2. child' = child /\ ForkPIDs' = {} /\ pc' \in {"idle", "deleted"} /\
          State' # "Executing"
    BY <1>12 DEF Cleanup, Return, Outcome
  <2> QED BY <2>1, <2>2 DEF Children, Starting, Executing
<1>13. CASE Disowned
  <2>1. \A i \in Cmds : child[i] \notin Ours
    BY <1>13 DEF IInv, KilledSoFar, Places, Executing
  <2>2. child' = child /\ ForkPIDs' = {} /\ pc' \in {"idle", "deleted"} /\
          State' = "Disowned"
    BY <1>13 DEF Cleanup, Return
  <2> QED BY <2>1, <2>2 DEF Children, Starting, Executing
<1>14. CASE KillOne
  BY <1>14, ConstantsAssumption DEF IInv, TypeOK, Children, Places,
     FamilyTypeOK, PidTypeOK, Executing, Starting, Stopped, KillChild
<1>15. CASE KillDone
  <2>1. UNCHANGED <<child, ForkPIDs, State, Detached>>
    BY <1>15
  <2>2. Stopped' /\ Executing /\ pc' \notin {"create", "cleanup", "destroy"}
    <3>1. CASE reason = "user"
      BY <1>15, <3>1 DEF Return, IInv, Places, Executing, Stopped
    <3>2. CASE reason = "timeout"
      BY <1>15, <3>2 DEF Return, IInv, Places, Executing, Stopped
    <3> QED BY <1>15, <3>1, <3>2 DEF IInv, Places
  <2> QED BY <2>1, <2>2 DEF IInv, Children, Starting, Executing
<1>16. ASSUME NEW i \in Cmds, ChildExit(i)
      PROVE  Children'
  BY <1>16, ConstantsAssumption DEF IInv, TypeOK, Children, Places,
     FamilyTypeOK, PidTypeOK, Executing, Starting, Stopped
<1>17. ASSUME NEW i \in Cmds, ExternalReap(i)
      PROVE  Children'
  BY <1>17, ConstantsAssumption DEF IInv, NoFaults, TypeOK, Children, Places,
     FamilyTypeOK, PidTypeOK, Executing, Starting, Stopped
<1>18. ASSUME SetOption \/ WaitForData \/ WaitForExit \/ Delete \/ Disown \/ Kill
      PROVE  Kept
  BY <1>18 DEF IInv, NoFaults, Places, Enter, StartWait, Starting, Executing,
     Stopped
<1>19. ASSUME WaitLoop \/ ScanDone \/ SelectReports \/ SelectExpires \/ SelectFailure
      PROVE  Kept
  BY <1>19 DEF NoFaults, Starting, Executing, Stopped
<1>20. ASSUME (\E p \in DataPipes : ReadData(p)) \/
         (\E p \in Pipes : ReadNothing(p) \/ ClosePipes(p))
      PROVE  Kept
  BY <1>20 DEF Scanning, ClosePipe, Starting, Executing, Stopped
<1>21. ASSUME DestroyDone \/ WaitReturns \/ WaitExpires \/ PipesClosed
      PROVE  Kept
  BY <1>21 DEF IInv, Places, Return, WaitOver, Starting, Executing, Stopped
<1>22. ASSUME OrphanExit \/ OtherChildExit \/ (\E p \in DataPipes : Write(p) \/
         \E i \in Cmds : CloseEarly(p, i)) \/ SignalHandler \/ Tick
      PROVE  Kept
  BY <1>22 DEF Starting, Executing, Stopped
<1>23. CASE CleanupKillsAll
  BY <1>23 DEF IInv, Children, Executing, Stopped
<1> QED BY <1>1, <1>2, <1>3, <1>4, <1>5, <1>6, <1>7, <1>8, <1>9, <1>10, <1>11, <1>12,
   <1>13, <1>14, <1>15, <1>16, <1>17, <1>18, <1>19, <1>20, <1>21, <1>22, <1>23 DEF
   Next

\* The kill loops kill every child.
LEMMA KilledSoFarKept ==
  ASSUME NoFaults, IInv, Next
  PROVE  KilledSoFar'
<1>. DEFINE Kept ==
       /\ UNCHANGED child
       /\ UNCHANGED <<pc, idx>> \/ pc' \notin {"cleanup", "kill"}
       /\ Starting' => Starting /\ UNCHANGED OptionDetach
       /\ Executing' => /\ Executing /\ UNCHANGED Detached
                        /\ PipeReadEnds' \subseteq PipeReadEnds
                        /\ Stopped' => Stopped
                        /\ pc = "kill" => pc' = "kill"
<1>1. CASE Kept
  <2>1. pc' \in {"cleanup", "kill"} => \A i \in 1..(idx' - 1) : child'[i] \notin Ours
    BY <1>1 DEF IInv, KilledSoFar
  <2>2. Executing' /\ (Stopped' \/ Detached') /\ pc' # "kill"
          => \A i \in Cmds : child'[i] \notin Ours
    BY <1>1 DEF IInv, KilledSoFar
  <2>3. Starting' /\ OptionDetach' => \A i \in Cmds : child'[i] \notin Ours
    BY <1>1 DEF IInv, KilledSoFar
  <2>4. Executing' /\ Stopped' => PipeReadEnds' = {}
    BY <1>1 DEF IInv, KilledSoFar
  <2> QED BY <2>1, <2>2, <2>3, <2>4 DEF KilledSoFar
<1>2. CASE New \/ ExecuteBegin \/ ExecuteFails
  BY <1>2 DEF KilledSoFar, Initialize, NoChildren, Enter, IInv, Places, Starting, Executing, Stopped
<1>3. CASE CreateChild
  BY <1>3, ConstantsAssumption DEF IInv, TypeOK, KilledSoFar, Children, Places,
     FamilyTypeOK, IndexTypeOK, Pipes_, Executing, Starting, Stopped
<1>4. CASE CreateFails
  <2>1. pc' = "cleanup" /\ idx' = 1 /\ ~Executing' /\ pc = "create"
    BY <1>4 DEF Executing
  <2>2. OptionDetach => \A i \in Cmds : child'[i] \notin Ours
    BY <1>4 DEF NothingStarted, ExecFails, IInv, TypeOK, FamilyTypeOK,
       KilledSoFar, Starting
  <2>3. 1..0 = {}
    OBVIOUS
  <2> QED BY <1>4, <2>1, <2>2, <2>3 DEF KilledSoFar
<1>5. CASE CleanupKill
  BY <1>5, ConstantsAssumption DEF IInv, TypeOK, KilledSoFar, Children, Places,
     FamilyTypeOK, IndexTypeOK, Pipes_, Executing, Starting, Stopped, KillChild
<1>6. CASE CleanupDone
  BY <1>6, ConstantsAssumption DEF IInv, TypeOK, KilledSoFar, Children, Places,
     FamilyTypeOK, IndexTypeOK, Pipes_, Executing, Starting, Stopped, Cleanup,
     Return, NoWait
<1>7. CASE ExecuteDone
  BY <1>7, ConstantsAssumption DEF IInv, TypeOK, KilledSoFar, Children, Places,
     FamilyTypeOK, IndexTypeOK, Pipes_, Executing, Starting, Stopped, Return,
     NoWait
<1>8. CASE DestroyReaps
  BY <1>8, ConstantsAssumption DEF IInv, TypeOK, KilledSoFar, Children, Places,
     FamilyTypeOK, IndexTypeOK, Pipes_, Executing, Starting, Stopped
<1>9. CASE PipesClosed
  BY <1>9, ConstantsAssumption DEF IInv, TypeOK, KilledSoFar, Children, Places,
     FamilyTypeOK, IndexTypeOK, Pipes_, Executing, Starting, Stopped
<1>10. CASE KillOne
  BY <1>10, ConstantsAssumption DEF IInv, TypeOK, KilledSoFar, Children,
     Places, FamilyTypeOK, IndexTypeOK, Pipes_, Executing, Starting, Stopped,
     KillChild
<1>11. CASE KillDone
  <2>1. \A i \in Cmds : child[i] \notin Ours
    BY <1>11, ConstantsAssumption DEF IInv, KilledSoFar, TypeOK, IndexTypeOK
  <2>2. UNCHANGED <<child, State, PipeReadEnds>> /\ Executing /\ Stopped
    BY <1>11 DEF IInv, Places, Executing, Stopped
  <2>3. pc' \notin {"create", "cleanup", "kill"}
    BY <1>11 DEF Return
  <2> QED BY <2>1, <2>2, <2>3 DEF IInv, KilledSoFar, Starting, Executing
<1>12. ASSUME NEW i \in Cmds, ChildExit(i)
      PROVE  KilledSoFar'
  BY <1>12, ConstantsAssumption DEF IInv, TypeOK, KilledSoFar, Children,
     Places, FamilyTypeOK, IndexTypeOK, Pipes_, Executing, Starting, Stopped
<1>13. ASSUME NEW i \in Cmds, ExternalReap(i)
      PROVE  KilledSoFar'
  BY <1>13, ConstantsAssumption DEF IInv, NoFaults, TypeOK, KilledSoFar,
     Children, Places, FamilyTypeOK, IndexTypeOK, Pipes_, Executing, Starting,
     Stopped
<1>14. ASSUME SetOption \/ WaitForData \/ WaitForExit \/ Delete \/ Disown \/ Kill
      PROVE  Kept
  BY <1>14 DEF IInv, NoFaults, Places, Enter, StartWait, Starting, Executing,
     Stopped
<1>15. ASSUME WaitLoop \/ ReadSignal \/ ScanDone \/ SelectReports \/
         SelectExpires \/ SelectFailure
      PROVE  Kept
  BY <1>15 DEF NoFaults, Scanning, Starting, Executing, Stopped
<1>16. ASSUME (\E p \in DataPipes : ReadData(p)) \/
         (\E p \in Pipes : ReadNothing(p) \/ ClosePipes(p))
      PROVE  Kept
  BY <1>16 DEF Scanning, ClosePipe, Starting, Executing, Stopped
<1>17. ASSUME DestroySkips \/ DestroyDone
      PROVE  Kept
  BY <1>17 DEF Starting, Executing, Stopped
<1>18. ASSUME WaitReturns \/ WaitExpires \/ Finish \/ Disowned
      PROVE  Kept
  BY <1>18 DEF IInv, Places, Return, WaitOver, Cleanup, Outcome, Starting,
     Executing, Stopped
<1>19. ASSUME OrphanExit \/ OtherChildExit \/ (\E p \in DataPipes : Write(p) \/
         \E i \in Cmds : CloseEarly(p, i)) \/ SignalHandler \/ Tick
      PROVE  Kept
  BY <1>19 DEF Starting, Executing, Stopped
<1>20. CASE CleanupKillsAll
  <2>1. \A i \in 1..idx : child[i] \notin Ours
    BY <1>20, ConstantsAssumption DEF IInv, KilledSoFar, ForkFailed
  <2> QED BY <1>20, <2>1, ConstantsAssumption DEF IInv, Places, KilledSoFar,
     Executing, Starting
<1> QED BY <1>1, <1>2, <1>3, <1>4, <1>5, <1>6, <1>7, <1>8, <1>9, <1>10, <1>11, <1>12,
   <1>13, <1>14, <1>15, <1>16, <1>17, <1>18, <1>19, <1>20 DEF Next

\* A wait that ends without timeout or data has closed every pipe.
LEMMA DrainedKept ==
  ASSUME NoFaults, IInv, Next
  PROVE  Drained'
<1>1. CASE Call \/ ReapStep \/ KillStep \/ Environment \/ SignalHandler \/ Tick
           \/ CreateChild \/ CreateFails
  BY <1>1 DEF IInv, NoFaults, Drained, Places, Pipes_, KilledSoFar, Executing,
     Starting, Stopped, Enter, StartWait, GetTimeoutTime, NoWait, Finite,
     Cleanup, Return, ClosePipe, Readable
<1>2. CASE CleanupKill \/ CleanupKillsAll \/ CleanupDone \/ ReadSignal
           \/ SelectReports
  BY <1>2 DEF IInv, Drained, Places, Pipes_, KilledSoFar, Executing, Starting,
     Stopped, Cleanup, Return, NoWait, Scanning, Reported, Ready
<1>3. CASE (\E p \in Pipes : ReadNothing(p)) \/ WaitExpires \/ Finish
  BY <1>3 DEF IInv, Drained, Places, Pipes_, KilledSoFar, Executing, Starting,
     Stopped, Scanning, Reported, ClosePipe, WaitOver, Return, NoWait, Cleanup
<1>4. CASE SelectExpires
  BY <1>4 DEF IInv, Drained, Places, Pipes_, KilledSoFar, Executing, Starting,
     Stopped
<1>5. CASE SelectFailure
  BY <1>5 DEF IInv, NoFaults, Drained, Places, Pipes_, KilledSoFar, Executing,
     Starting, Stopped
<1>6. CASE ExecuteDone
  <2>1. pc' = "idle"
    BY <1>6 DEF Return, IInv, Calls, Starting
  <2> QED BY <2>1 DEF Drained
<1>7. CASE WaitLoop
  <2>1. PipesLeft = 0 \/ PipesLeft > 0
    BY DEF IInv, TypeOK, CountTypeOK
  <2>2. PipesLeft = 0 => PipeReadEnds = {}
    BY <1>7 DEF IInv, Places, PipesLeftCounts, TypeOK, PipeTypeOK, FlagTypeOK,
       Executing
  <2> QED BY <1>7, <2>1, <2>2 DEF Drained
<1>8. CASE ScanDone
  <2>1. wd' = [wd EXCEPT !.Expired = TRUE] => wd'.Expired
    BY DEF IInv, TypeOK, WaitTypeOK
  <2> QED BY <1>8, <2>1 DEF Drained
<1>9. ASSUME NEW p \in DataPipes, ReadData(p)
      PROVE  Drained'
  <2>1. wantData => wd'.PipeId = p
    BY <1>9 DEF IInv, TypeOK, WaitTypeOK
  <2> QED BY <1>9, <2>1 DEF Scanning, Drained
<1>10. CASE WaitReturns
  <2>1. pc' = "deleted" => call = "Delete" /\ Return
    BY <1>10 DEF WaitOver, Return
  <2>2. pc' # "deleted"
    BY <1>10, <2>1 DEF WaitOver, Return, IInv, Calls
  <2>3. pc' = "finish" => PipeReadEnds = {}
    BY <1>10 DEF WaitOver, Return, IInv, Drained, Calls
  <2> QED BY <1>10, <2>2, <2>3 DEF WaitOver, Return, Drained
<1> QED BY <1>1, <1>2, <1>3, <1>4, <1>5, <1>6, <1>7, <1>8, <1>9, <1>10 DEF Next

\* The read end of the signal pipe outlives the write end.
LEMMA NoSigPipeKept ==
  ASSUME NoFaults, IInv, Next
  PROVE  NoSigPipe'
<1>1. CASE Call \/ ExecuteStep \/ ReapStep \/ EndStep \/ KillStep
           \/ Environment \/ SignalHandler \/ Tick \/ WaitLoop \/ ReadSignal
           \/ ScanDone \/ SelectReports \/ SelectExpires \/ SelectFailure
           \/ (\E p \in DataPipes : ReadData(p))
  BY <1>1 DEF IInv, NoFaults, NoSigPipe, Pipes_, Places, Executing, Starting,
     Stopped, Initialize, NoChildren, Enter, StartWait, GetTimeoutTime, NoWait,
     Finite, Cleanup, ClosePipe
<1>2. ASSUME NEW p \in Pipes, ReadNothing(p)
      PROVE  NoSigPipe'
  <2>1. p \in Reported
    BY <1>2, FirstPipeIn DEF Scanning, Reported, IInv, TypeOK, PipeTypeOK
  <2>2. p = "SIGNAL" => ~SignalPipe
    BY <1>2, <2>1 DEF IInv, ReportedIsReadable, Ready, Readable
  <2> QED BY <1>2, <2>2 DEF IInv, NoSigPipe, ClosePipe
<1> QED BY <1>1, <1>2 DEF Next

\* No step loses the news of a child's exit.
LEMMA NoLostChildExitKept ==
  ASSUME NoFaults, IInv, Next
  PROVE  NoLostChildExit'
<1>. DEFINE Kept ==
       /\ UNCHANGED <<child, sigByte>> /\ ForkPIDs' \subseteq ForkPIDs
       /\ SignalPipe' => SignalPipe
       /\ sigPending => sigPending'
       /\ pc = "destroy" => UNCHANGED <<pc, idx>>
<1>1. CASE Kept
  <2>1. SUFFICES ASSUME NEW i \in ForkPIDs', child'[i] \in Zombie, SignalPipe'
                 PROVE  sigPending' \/ sigByte' = 1 \/ (pc' = "destroy" /\ idx' <= i)
    BY DEF NoLostChildExit
  <2>2. i \in ForkPIDs /\ child[i] \in Zombie /\ SignalPipe
    BY <1>1, <2>1
  <2>3. sigPending \/ sigByte = 1 \/ (pc = "destroy" /\ idx <= i)
    BY <2>2 DEF IInv, NoLostChildExit
  <2> QED BY <1>1, <2>3
<1>2. CASE New \/ ExecuteBegin \/ ExecuteFails
  BY <1>2 DEF NoLostChildExit, Initialize
<1>3. CASE CreateChild
  BY <1>3, ConstantsAssumption DEF IInv, TypeOK, NoLostChildExit, NoSigPipe,
     FamilyTypeOK, PidTypeOK, IndexTypeOK, Pipes_, Places, Executing, Starting,
     Stopped
<1>4. CASE CreateFails
  <2>1. pc' = "cleanup" /\ SignalPipe' = SignalPipe /\ sigByte' = sigByte /\ pc = "create"
    BY <1>4
  <2>2. CASE NothingStarted
    <3>1. UNCHANGED <<child, sigPending>> /\ (ForkPIDs' = ForkPIDs \/ ForkPIDs' = ForkPIDs \cup {idx})
      BY <2>2 DEF NothingStarted
    <3>2. \A i \in ForkPIDs' : child[i] \in Zombie => i \in ForkPIDs
      BY <1>4, <3>1 DEF IInv, Children
    <3> QED BY <2>1, <3>1, <3>2 DEF IInv, NoLostChildExit
  <2>3. CASE sigPending' = (sigPending \/ ~OptionDetach) /\ ~OptionDetach
    BY <2>1, <2>3 DEF NoLostChildExit
  <2>4. CASE OptionDetach
    BY <2>1, <2>4 DEF NoLostChildExit, IInv, NoSigPipe, Pipes_
  <2> QED BY <1>4, <2>2, <2>3, <2>4 DEF ExecFails
<1>5. CASE CleanupKill
  BY <1>5, ConstantsAssumption DEF IInv, TypeOK, NoLostChildExit, NoSigPipe,
     FamilyTypeOK, PidTypeOK, IndexTypeOK, Pipes_, Places, Executing, Starting,
     Stopped, KillChild
<1>6. CASE KillOne
  BY <1>6, ConstantsAssumption DEF IInv, TypeOK, NoLostChildExit, NoSigPipe,
     FamilyTypeOK, PidTypeOK, IndexTypeOK, Pipes_, Places, Executing, Starting,
     Stopped, KillChild
<1>7. CASE ReadSignal
  BY <1>7, ConstantsAssumption DEF IInv, TypeOK, NoLostChildExit, NoSigPipe,
     FamilyTypeOK, PidTypeOK, IndexTypeOK, Pipes_, Places, Executing, Starting,
     Stopped, Scanning, Reported, FirstPipe
<1>8. CASE DestroyReaps
  <2>1. \A i \in ForkPIDs' : i # idx /\ i \in Cmds /\ i \in ForkPIDs /\ child'[i] = child[i]
    BY <1>8 DEF IInv, TypeOK, PidTypeOK, FamilyTypeOK
  <2>2. SignalPipe' => SignalPipe
    BY <1>8
  <2>3. \A i \in Cmds : i \in Int
    BY ConstantsAssumption
  <2>4. idx \in Int /\ idx' = idx + 1 /\ pc' = pc /\ pc = "destroy"
    BY <1>8, <2>3 DEF IInv, TypeOK, PidTypeOK
  <2>5. \A i \in ForkPIDs' : idx <= i => idx' <= i
    BY <2>1, <2>3, <2>4
  <2> QED BY <1>8, <2>1, <2>2, <2>4, <2>5 DEF IInv, NoLostChildExit
<1>9. CASE DestroySkips
  BY <1>9, ConstantsAssumption DEF IInv, TypeOK, NoLostChildExit, NoSigPipe,
     FamilyTypeOK, PidTypeOK, IndexTypeOK, Pipes_, Places, Executing, Starting,
     Stopped
<1>10. CASE DestroyDone
  BY <1>10, ConstantsAssumption DEF IInv, TypeOK, NoLostChildExit, NoSigPipe,
     FamilyTypeOK, PidTypeOK, IndexTypeOK, Pipes_, Places, Executing, Starting,
     Stopped
<1>11. ASSUME NEW i \in Cmds, ChildExit(i)
      PROVE  NoLostChildExit'
  BY <1>11, ConstantsAssumption DEF IInv, TypeOK, NoLostChildExit, NoSigPipe,
     FamilyTypeOK, PidTypeOK, IndexTypeOK, Pipes_, Places, Executing, Starting,
     Stopped
<1>12. ASSUME NEW i \in Cmds, ExternalReap(i)
      PROVE  NoLostChildExit'
  BY <1>12, ConstantsAssumption DEF IInv, NoFaults, TypeOK, NoLostChildExit,
     NoSigPipe, FamilyTypeOK, PidTypeOK, IndexTypeOK, Pipes_, Places,
     Executing, Starting, Stopped
<1>13. CASE SignalHandler
  BY <1>13, ConstantsAssumption DEF IInv, TypeOK, NoLostChildExit, NoSigPipe,
     FamilyTypeOK, PidTypeOK, IndexTypeOK, Pipes_, Places, Executing, Starting,
     Stopped
<1>14. ASSUME SetOption \/ WaitForData \/ WaitForExit \/ Delete \/ Disown \/ Kill
      PROVE  Kept
  BY <1>14 DEF Enter, StartWait
<1>15. ASSUME WaitLoop \/ ScanDone \/ SelectReports \/ SelectExpires \/ SelectFailure
      PROVE  Kept
  BY <1>15
<1>16. ASSUME (\E p \in DataPipes : ReadData(p)) \/
         (\E p \in Pipes : ReadNothing(p) \/ ClosePipes(p))
      PROVE  Kept
  BY <1>16 DEF Scanning, ClosePipe
<1>17. ASSUME CleanupKillsAll \/ CleanupDone \/ ExecuteDone \/ EndStep
         \/ PipesClosed \/ Disowned \/ KillDone
      PROVE  Kept
  BY <1>17 DEF Return, WaitOver, Cleanup
<1>18. ASSUME OrphanExit \/ OtherChildExit \/ (\E p \in DataPipes : Write(p) \/
         \E i \in Cmds : CloseEarly(p, i)) \/ Tick
      PROVE  Kept
  BY <1>18
<1> QED BY <1>1, <1>2, <1>3, <1>4, <1>5, <1>6, <1>7, <1>8, <1>9, <1>10, <1>11, <1>12,
   <1>13, <1>14, <1>15, <1>16, <1>17, <1>18 DEF Next

\* What select has reported stays readable, whatever the children do.
LEMMA ReportedIsReadableKept ==
  ASSUME NoFaults, IInv, Next
  PROVE  ReportedIsReadable'
<1>1. CASE Call \/ ExecuteStep \/ ReapStep \/ EndStep \/ SignalHandler \/ Tick
           \/ WaitLoop \/ ReadSignal \/ ScanDone \/ SelectReports
  BY <1>1, ConstantsAssumption DEF IInv, NoFaults, TypeOK, ReportedIsReadable,
     Reported, Ready, Readable, FamilyTypeOK, Places, Executing, Starting,
     Stopped, Initialize, NoChildren, Enter, StartWait, GetTimeoutTime, NoWait,
     Finite, WaitOver, Return, Cleanup, Outcome, Scanning
<1>2. CASE Disowned \/ KillDone \/ OtherChildExit
  BY <1>2 DEF IInv, NoFaults, TypeOK, ReportedIsReadable, Reported, Ready,
     Readable, FamilyTypeOK, Places, Executing, Starting, Stopped, Cleanup,
     Return, NoWait
<1>3. CASE SelectExpires \/ SelectFailure
  BY <1>3 DEF IInv, TypeOK, ReportedIsReadable, Reported, Ready, Readable,
     FamilyTypeOK, Places, Executing, Starting, Stopped, NoFaults
<1>4. CASE (\E p \in Pipes : ReadNothing(p)) \/ PipesClosed
  BY <1>4 DEF IInv, NoFaults, TypeOK, ReportedIsReadable, Reported, Ready,
     Readable, FamilyTypeOK, Places, Executing, Starting, Stopped, Scanning,
     ClosePipe, FirstPipe
<1>5. ASSUME NEW p \in DataPipes, ReadData(p)
      PROVE  ReportedIsReadable'
  BY <1>5 DEF IInv, TypeOK, ReportedIsReadable, Reported, Ready, Readable,
     FamilyTypeOK, Places, Executing, Starting, Stopped, Scanning
<1>6. ASSUME NEW p \in DataPipes, Write(p)
      PROVE  ReportedIsReadable'
  BY <1>6 DEF IInv, TypeOK, ReportedIsReadable, Reported, Ready, Readable,
     FamilyTypeOK, Places, Executing, Starting, Stopped
<1>7. ASSUME NEW p \in DataPipes, NEW i \in Cmds, CloseEarly(p, i)
      PROVE  ReportedIsReadable'
  BY <1>7 DEF IInv, TypeOK, ReportedIsReadable, Reported, Ready, Readable,
     FamilyTypeOK, Places, Executing, Starting, Stopped
<1>8. ASSUME NEW i \in Cmds, ExternalReap(i)
      PROVE  ReportedIsReadable'
  BY <1>8 DEF IInv, NoFaults, TypeOK, ReportedIsReadable, Reported, Ready,
     Readable, FamilyTypeOK, Places, Executing, Starting, Stopped
<1>9. CASE KillOne
  <2>1. \A q \in DataPipes : writers'[q] \subseteq writers[q]
    BY <1>9 DEF KillChild
  <2> QED BY <1>9, <2>1 DEF IInv, ReportedIsReadable, Reported, Ready,
     Readable, TypeOK, PipeTypeOK, FamilyTypeOK
<1>10. ASSUME NEW p \in Pipes, ClosePipes(p)
      PROVE  ReportedIsReadable'
  BY <1>10 DEF ClosePipe, IInv, ReportedIsReadable, Reported, Ready, Readable,
     TypeOK, PipeTypeOK
<1>11. CASE OrphanExit
  <2>1. \A q \in DataPipes : writers[q] = {} => writers'[q] = {}
    BY <1>11
  <2> QED BY <1>11, <2>1 DEF IInv, ReportedIsReadable, Reported, Ready,
     Readable, TypeOK, PipeTypeOK
<1>12. ASSUME NEW i \in Cmds, ChildExit(i)
      PROVE  ReportedIsReadable'
  <2>1. \A q \in DataPipes : writers[q] = {} => writers'[q] = {}
    BY <1>12
  <2> QED BY <1>12, <2>1 DEF IInv, ReportedIsReadable, Reported, Ready,
     Readable, TypeOK, PipeTypeOK
<1> QED BY <1>1, <1>2, <1>3, <1>4, <1>5, <1>6, <1>7, <1>8, <1>9, <1>10, <1>11, <1>12 DEF
   Next

\* Closing and counting go together.
LEMMA PipesLeftCountsKept ==
  ASSUME NoFaults, IInv, Next
  PROVE  PipesLeftCounts'
<1>1. CASE Call \/ ReapStep \/ EndStep \/ Environment \/ SignalHandler \/ Tick
           \/ CreateChild \/ CreateFails
           \/ CleanupKill \/ CleanupKillsAll \/ CleanupDone
           \/ WaitLoop \/ ReadSignal \/ ScanDone \/ SelectReports
           \/ SelectExpires \/ SelectFailure
           \/ (\E p \in DataPipes : ReadData(p)) \/ PipesClosed \/ Disowned
           \/ KillOne \/ KillDone
  BY <1>1 DEF IInv, NoFaults, PipesLeftCounts, Places, Pipes_, Executing,
     Starting, Stopped, Initialize, NoChildren, Enter, StartWait,
     GetTimeoutTime, NoWait, Finite, Cleanup, Outcome
<1>2. CASE ExecuteDone
  BY <1>2 DEF IInv, PipesLeftCounts, Pipes_, NoSigPipe, KWSYSPE_PIPE_COUNT,
     Starting, TypeOK, PipeTypeOK
<1>3. ASSUME NEW p \in Pipes, ReadNothing(p)
      PROVE  PipesLeftCounts'
  <2>1. p \in PipeReadEnds
    BY <1>3, FirstPipeIn DEF Scanning, Reported, IInv, TypeOK, PipeTypeOK
  <2> QED BY <1>3, <2>1 DEF IInv, PipesLeftCounts, ClosePipe, TypeOK,
     CountTypeOK
<1>4. ASSUME NEW p \in Pipes, ClosePipes(p)
      PROVE  PipesLeftCounts'
  <2>1. p \in PipeReadEnds
    BY <1>4, FirstPipeIn DEF IInv, TypeOK, PipeTypeOK
  <2> QED BY <1>4, <2>1 DEF IInv, PipesLeftCounts, ClosePipe, TypeOK,
     CountTypeOK
<1> QED BY <1>1, <1>2, <1>3, <1>4 DEF Next

\* Nothing is closed or dropped before it has been read or reaped.
LEMMA CollectedKept ==
  ASSUME NoFaults, IInv, Next
  PROVE  Collected'
<1>1. CASE EndStep \/ KillStep \/ Environment \/ SignalHandler \/ Tick
  BY <1>1, ConstantsAssumption DEF IInv, NoFaults, TypeOK, Collected, Places,
     Calls, FamilyTypeOK, PidTypeOK, PipeTypeOK, IndexTypeOK, Children, Pipes_,
     Executing, Starting, Stopped, WaitOver, Return, NoWait, Cleanup, Outcome,
     KillChild, ClosePipe
<1>2. CASE Call \/ ExecuteStep
  BY <1>2, ConstantsAssumption DEF IInv, NoFaults, TypeOK, Collected, Places,
     Calls, FamilyTypeOK, PidTypeOK, PipeTypeOK, IndexTypeOK, Children, Pipes_,
     Executing, Starting, Stopped, Initialize, NoChildren, Enter, StartWait,
     KillChild, Cleanup, Return
<1>3. CASE WaitStep
  BY <1>3, ConstantsAssumption DEF IInv, NoFaults, TypeOK, Collected, Places,
     Calls, FamilyTypeOK, PidTypeOK, PipeTypeOK, IndexTypeOK, Children, Pipes_,
     Executing, Starting, Stopped, Scanning, Reported, FirstPipe, NoTimeLeft,
     Ready, ClosePipe
<1>4. CASE ReapStep
  BY <1>4 DEF IInv, TypeOK, Collected, Places, Calls, FamilyTypeOK, PidTypeOK,
     PipeTypeOK, IndexTypeOK, Children, Pipes_, Executing, Starting, Stopped
<1> QED BY <1>1, <1>2, <1>3, <1>4 DEF Next

\* The clock decides what has timed out.
LEMMA DeadlinesKept ==
  ASSUME NoFaults, IInv, Next
  PROVE  Deadlines'
<1>1. CASE ExecuteStep \/ WaitStep \/ ReapStep \/ EndStep \/ KillStep
           \/ Environment \/ SignalHandler \/ Tick
  BY <1>1, ConstantsAssumption DEF IInv, TypeOK, WaitTypeOK, SignalTypeOK,
     Deadlines, TimedOut, Places, Calls, Executing, Starting, Stopped, Return,
     NoWait, NoFaults, Scanning, Reported, FirstPipe, NoTimeLeft, Ready,
     ClosePipe, WaitOver
<1>2. CASE New \/ SetOption \/ ExecuteBegin \/ ExecuteFails
  BY <1>2 DEF IInv, TypeOK, WaitTypeOK, SignalTypeOK, Deadlines, TimedOut,
     Places, Calls, Executing, Starting, Stopped, Initialize, NoFaults, Enter
<1>3. CASE Delete \/ Disown \/ Kill
  BY <1>3, ConstantsAssumption DEF IInv, TypeOK, WaitTypeOK, SignalTypeOK,
     Deadlines, TimedOut, Places, Calls, Executing, Starting, Stopped,
     StartWait, GetTimeoutTime, NoWait, Enter
<1>4. CASE WaitForData
  <2>1. PICK ut \in Finite \cup {None} : wd' = GetTimeoutTime(ut)
    BY <1>4 DEF StartWait
  <2> QED BY <1>4, <2>1, TimeoutTimeIs DEF StartWait, IInv, Deadlines, TimedOut
<1>5. CASE WaitForExit
  <2>1. CASE UNCHANGED wd
    BY <1>5, <2>1 DEF StartWait, Enter, IInv, Deadlines, TimedOut
  <2>2. CASE \E ut \in Finite \cup {None} : wd' = GetTimeoutTime(ut)
    <3>1. PICK ut \in Finite \cup {None} : wd' = GetTimeoutTime(ut)
      BY <2>2
    <3> QED BY <1>5, <3>1, TimeoutTimeIs DEF StartWait, Enter, IInv,
       Deadlines, TimedOut
  <2> QED BY <1>5, <2>1, <2>2 DEF StartWait, Enter
<1> QED BY <1>1, <1>2, <1>3, <1>4, <1>5 DEF Next

-----------------------------------------------------------------------------
(* The invariant, and what follows from it. *)

\* The invariant holds at first.
LEMMA InitInv ==
  ASSUME Init
  PROVE  IInv
<1>1. Cardinality({}) = 0
  BY FS_EmptySet
<1>2. TypeOK
  <2>1. WaitTypeOK
    BY DEF Init, WaitTypeOK, NoWait
  <2>2. FamilyTypeOK
    BY ConstantsAssumption DEF Init, FamilyTypeOK, ChildStates
  <2>3. PidTypeOK
    BY DEF Init, PidTypeOK, Statuses
  <2>4. SignalTypeOK
    <3>1. 0 \in 0..MaxTime
      BY ConstantsAssumption
    <3>2. now \in 0..MaxTime
      BY <3>1 DEF Init
    <3> QED BY <3>2 DEF Init, SignalTypeOK
  <2>5. CountTypeOK /\ IndexTypeOK
    BY ConstantsAssumption DEF Init, CountTypeOK, IndexTypeOK
  <2> QED BY <2>1, <2>2, <2>3, <2>4, <2>5 DEF Init, TypeOK, States, FlagTypeOK, PipeTypeOK,
             CallerTypeOK
<1>3. Places /\ Calls /\ Pipes_ /\ Children
  BY <1>1 DEF Init, Places, Calls, Pipes_, Children, NoWait, Starting, Executing
<1>4. KilledSoFar /\ Drained /\ Collected /\ Deadlines
  BY DEF Init, KilledSoFar, Drained, Collected, Deadlines, NoWait, Starting,
         Executing
<1>5. NoSigPipe /\ NoLostChildExit /\ ReportedIsReadable /\ PipesLeftCounts
  BY DEF Init, NoSigPipe, NoLostChildExit, ReportedIsReadable, Reported,
         PipesLeftCounts
<1> QED BY <1>2, <1>3, <1>4, <1>5 DEF IInv

\* A step that changes nothing keeps it.
LEMMA StutterInv ==
  ASSUME IInv, UNCHANGED vars
  PROVE  IInv'
<1>. USE DEF vars, Executing, Starting, Stopped
<1>1. TypeOK'
  BY DEF IInv, TypeOK, FlagTypeOK, PipeTypeOK, CountTypeOK, PidTypeOK,
         CallerTypeOK, IndexTypeOK, WaitTypeOK, FamilyTypeOK, SignalTypeOK
<1>2. Places' /\ Calls' /\ Pipes_' /\ Children'
  BY DEF IInv, Places, Calls, Pipes_, Children
<1>3. KilledSoFar' /\ Drained' /\ Collected' /\ Deadlines'
  BY DEF IInv, KilledSoFar, Drained, Collected, Deadlines, TimedOut
<1>4. NoSigPipe' /\ NoLostChildExit' /\ ReportedIsReadable' /\ PipesLeftCounts'
  BY DEF IInv, NoSigPipe, NoLostChildExit, ReportedIsReadable, Reported, Ready,
         Readable, PipesLeftCounts
<1> QED BY <1>1, <1>2, <1>3, <1>4 DEF IInv

\* Every step of the program keeps it.
LEMMA NextInv ==
  ASSUME NoFaults, IInv, Next
  PROVE  IInv'
<1>1. TypeOK'
  BY StatesKept, FlagTypeKept, PipeTypeKept, CountTypeKept, PidTypeKept,
     CallerTypeKept, IndexTypeKept, WaitTypeOKKept, FamilyTypeKept,
     SignalTypeKept DEF TypeOK
<1> QED BY <1>1, PlacesKept, CallsKept, PipesKept, ChildrenKept, KilledSoFarKept,
           DrainedKept, CollectedKept, DeadlinesKept, NoSigPipeKept,
           NoLostChildExitKept, ReportedIsReadableKept, PipesLeftCountsKept
        DEF IInv

\* The invariant holds in every reachable state.
THEOREM Invariance ==
  ASSUME NoFaults
  PROVE  Spec => []IInv
<1>1. Init => IInv
  BY InitInv
<1>2. IInv /\ [Next]_vars => IInv'
  BY NextInv, StutterInv
<1> QED BY <1>1, <1>2, PTL DEF Spec

\* The variables keep their types: in particular, no counter is decremented
\* below zero and no loop over the commands leaves the pipeline.
THEOREM TypesCorrect ==
  ASSUME NoFaults
  PROVE  Spec => []TypeOK
<1>1. IInv => TypeOK
  BY DEF IInv
<1> QED BY <1>1, Invariance, PTL

\* The exit of a child is never forgotten, wherever the signal interrupts.
THEOREM ChildExitsNotLost ==
  ASSUME NoFaults
  PROVE  Spec => []NoLostChildExit
<1>1. IInv => NoLostChildExit
  BY DEF IInv
<1> QED BY <1>1, Invariance, PTL

\* The signal handler never writes to a pipe without reader.
THEOREM SignalPipeHasReader ==
  ASSUME NoFaults
  PROVE  Spec => []NoSigPipe
<1>1. IInv => NoSigPipe
  BY DEF IInv
<1> QED BY <1>1, Invariance, PTL

\* A pipe that select has reported never blocks the read that follows.
THEOREM ReportedPipesReadable ==
  ASSUME NoFaults
  PROVE  Spec => []ReportedIsReadable
<1>1. IInv => ReportedIsReadable
  BY DEF IInv
<1> QED BY <1>1, Invariance, PTL

\* The two counts that end the wait loop and close the signal pipe are right.
THEOREM CountsCorrect ==
  ASSUME NoFaults
  PROVE  Spec => []CountersAgree
<1>1. IInv => CountersAgree
  BY DEF IInv, CountersAgree, CommandsLeftCounts, Children, Executing
<1> QED BY <1>1, Invariance, PTL

\* With the outcome, or when the start has failed at any of its steps, the fork
\* included, everything the run has used is given back.
THEOREM EverythingReleased ==
  ASSUME NoFaults
  PROVE  Spec => []Released
<1>1. ASSUME IInv
      PROVE  Released
  <2>1. CASE pc = "deleted" /\ Executing
    <3>1. Detached /\ PipeReadEnds = {} /\ opened = {} /\ ~registered /\ ~SignalPipe
      BY <1>1, <2>1 DEF IInv, Places, Drained, Pipes_, NoSigPipe, Starting
    <3>2. \A i \in Cmds : child[i] \notin Ours
      BY <1>1, <2>1, <3>1 DEF IInv, KilledSoFar
    <3> QED BY <3>1, <3>2 DEF Released
  <2>2. CASE pc \in {"idle", "deleted"} /\ ~Executing
    <3>1. PipeReadEnds = {} /\ opened = {} /\ ~registered /\ ~SignalPipe /\ ForkPIDs = {}
      BY <1>1, <2>2 DEF IInv, Places, Pipes_, NoSigPipe, Starting
    <3>2. \A i \in Cmds : child[i] \notin Ours
      BY <1>1, <3>1 DEF IInv, Children
    <3> QED BY <3>1, <3>2 DEF Released
  <2>3. CASE pc = "idle" /\ Executing
    BY <2>3 DEF Released, Outcomes, Executing
  <2>4. CASE pc \notin {"idle", "deleted"}
    BY <2>4 DEF Released
  <2> QED BY <2>1, <2>2, <2>3, <2>4
<1> QED BY <1>1, Invariance, PTL

\* Only Finish ends a run with the outcome of its children, or of its timeout.
LEMMA OutcomeFromFinish ==
  ASSUME Next, State' # State, State' \in {"Exited", "Exception", "Expired"}
  PROVE  Finish /\ State' = Outcome
<1>1. CASE Call
  BY <1>1 DEF Enter, StartWait
<1>2. CASE ExecuteStep \/ WaitStep \/ ReapStep
  BY <1>2 DEF Return, Cleanup, Scanning, ClosePipe
<1>3. CASE WaitReturns \/ WaitExpires \/ KillStep
  BY <1>3 DEF Return, WaitOver, Cleanup, ClosePipe
<1>4. CASE Environment \/ SignalHandler \/ Tick
  BY <1>4
<1>5. CASE Finish
  BY <1>5 DEF Finish
<1> QED BY <1>1, <1>2, <1>3, <1>4, <1>5 DEF Next

\* An exit is reported when all output has been read and the exit code of the
\* last command of the pipeline is known.
THEOREM ExitsMeanDrained ==
  ASSUME NoFaults
  PROVE  Spec => ExitMeansDrained
<1>. DEFINE Drains == State = "Executing" /\ State' \in {"Exited", "Exception"} =>
              /\ \A p \in DataPipes : writers[p] = {} /\ data[p] = 0
              /\ Detached \/ CommandExitCodes[NumberOfCommands] # "zero"
<1>1. IInv /\ [Next]_vars => Drains
  <2>1. SUFFICES ASSUME IInv, [Next]_vars, State = "Executing",
                        State' \in {"Exited", "Exception"}
                 PROVE  /\ \A p \in DataPipes : writers[p] = {} /\ data[p] = 0
                        /\ Detached \/ CommandExitCodes[NumberOfCommands] # "zero"
    OBVIOUS
  <2>2. Finish /\ State' = Outcome
    BY <2>1, OutcomeFromFinish DEF vars
  <2>3. Executing /\ ~Stopped /\ PipeReadEnds = {} /\ pc = "finish"
    BY <2>1, <2>2 DEF Finish, Outcome, IInv, Drained, Stopped, Executing
  <2>4. Detached \/ ForkPIDs = {}
    BY <2>1, <2>3 DEF IInv, TypeOK, FlagTypeOK, Pipes_, NoSigPipe
  <2> QED BY <2>1, <2>3, <2>4, ConstantsAssumption DEF IInv, Collected
<1> QED BY <1>1, Invariance, PTL DEF Spec, ExitMeansDrained

\* A timeout is reported after its time has passed, never before.
THEOREM TimeoutsExpireInTime ==
  ASSUME NoFaults
  PROVE  Spec => ExpiredInTime
<1>. DEFINE InTime == State' = "Expired" /\ State # "Expired"
                        => Timeout > 0 /\ now >= Timeout
<1>1. IInv /\ [Next]_vars => InTime
  <2>1. SUFFICES ASSUME IInv, [Next]_vars, State' = "Expired", State # "Expired"
                 PROVE  Timeout > 0 /\ now >= Timeout
    OBVIOUS
  <2>2. Finish /\ State' = Outcome
    BY <2>1, OutcomeFromFinish DEF vars
  <2> QED BY <2>1, <2>2 DEF Outcome, IInv, Deadlines, TimedOut
<1> QED BY <1>1, Invariance, PTL DEF Spec, ExpiredInTime

\* A poll looks at the pipes before it gives up, however late it comes.
THEOREM ZeroTimeoutsPoll ==
  ASSUME NoFaults
  PROVE  Spec => ZeroTimeoutPolls
<1>. DEFINE Polls == wd'.Expired /\ ~wd.Expired /\ wd.User /\ userTimeout = 0
                       => Ready = {}
<1>1. IInv /\ [Next]_vars => Polls
  <2>. SUFFICES ASSUME IInv, [Next]_vars, wd'.Expired, ~wd.Expired, wd.User,
                       userTimeout = 0
                PROVE  Ready = {}
    OBVIOUS
  <2>1. WaitTypeOK
    BY DEF IInv, TypeOK
  <2>2. CASE Call
    BY <2>2 DEF Enter, StartWait, GetTimeoutTime
  <2>3. CASE ExecuteStep \/ ReapStep \/ EndStep \/ KillStep
    BY <2>3 DEF Return, NoWait, WaitOver
  <2>4. CASE \E p \in DataPipes : ReadData(p)
    BY <2>1, <2>4 DEF WaitTypeOK
  <2>5. CASE ScanDone
    BY <2>5 DEF NoTimeLeft
  <2>6. CASE SelectExpires
    BY <2>6
  <2>7. CASE \/ WaitLoop \/ ReadSignal \/ SelectReports \/ SelectFailure
             \/ \E p \in Pipes : ReadNothing(p)
    BY <2>7
  <2>8. CASE Environment \/ SignalHandler \/ Tick \/ UNCHANGED vars
    BY <2>8 DEF vars
  <2> QED BY <2>2, <2>3, <2>4, <2>5, <2>6, <2>7, <2>8 DEF Next
<1> QED BY <1>1, Invariance, PTL DEF Spec, ZeroTimeoutPolls

-----------------------------------------------------------------------------
(* The object implements ProcessLifecycle.                                   *)

\* What is known of a child from the place of the call: the children forked so
\* far are those in ForkPIDs until a fork fails, all of them when the pipeline
\* executes; only a child that has been reaped has a status; a start that fails
\* leaves nothing.
Fates ==
  /\ Starting => \A i \in Cmds : /\ i \notin ForkPIDs => child[i] = "none"
                                 /\ CommandExitCodes[i] = "zero"
  /\ pc = "create" => \A i \in ForkPIDs : child[i] # "none"
  /\ Executing => \A i \in Cmds : child[i] # "none"
  /\ \A i \in Cmds : CommandExitCodes[i] # "zero" => child[i] = "gone"
  /\ pc = "cleanup" => \A i \in 1..(idx - 1) : child[i] \in {"none", "gone"}

LEMMA FatesInit == Init => Fates
<1> QED BY DEF Init, Fates, Starting, Executing

\* Every step keeps it.
LEMMA FatesKept ==
  ASSUME NoFaults, IInv, Fates, Next
  PROVE  Fates'
<1>. USE DEF Starting, Executing
<1>1. PidTypeOK /\ FamilyTypeOK /\ IndexTypeOK /\ NumberOfCommands \in Nat
  BY ConstantsAssumption DEF IInv, TypeOK
<1>2. CASE New \/ ExecuteBegin \/ ExecuteFails
  BY <1>2 DEF Fates, Initialize, NoChildren, Enter
<1>3. CASE SetOption \/ WaitForData \/ WaitForExit \/ Delete \/ Disown \/ Kill
  BY <1>3 DEF Fates, Enter, StartWait, IInv, Places
<1>4. CASE CreateChild
  BY <1>1, <1>4 DEF Fates, PidTypeOK, FamilyTypeOK, IInv, Places, Children
<1>5. CASE CreateFails
  <2>1. CASE NothingStarted
    BY <1>1, <1>5, <2>1 DEF NothingStarted, Fates, IInv, Places
  <2>2. CASE ExecFails
    BY <1>1, <1>5, <2>2 DEF ExecFails, Fates, PidTypeOK, FamilyTypeOK, IInv, Places,
       Children
  <2> QED BY <1>5, <2>1, <2>2
<1>6. CASE CleanupKill \/ KillOne
  BY <1>1, <1>6 DEF Fates, PidTypeOK, FamilyTypeOK, IndexTypeOK, KillChild, IInv, Places
<1>7. CASE CleanupDone \/ ExecuteDone
  BY <1>1, <1>7 DEF Fates, PidTypeOK, Return, Cleanup, IInv, Places, Children, IndexTypeOK
<1>8. CASE Finish \/ Disowned
  <2>1. /\ State' # "Executing" /\ pc' \in {"idle", "deleted"}
        /\ child' = child /\ CommandExitCodes' = CommandExitCodes
    BY <1>8 DEF Return, Outcome
  <2> QED BY <2>1 DEF Fates
<1>9. CASE WaitStep
  BY <1>9 DEF Fates, Scanning, ClosePipe, IInv, Places
<1>10. CASE DestroyReaps
  BY <1>1, <1>10 DEF Fates, PidTypeOK, FamilyTypeOK, IInv, Places
<1>11. CASE DestroySkips \/ DestroyDone \/ WaitReturns \/ WaitExpires
  BY <1>11 DEF Fates, Return, WaitOver, IInv, Places
<1>12. CASE (\E p \in Pipes : ClosePipes(p)) \/ PipesClosed \/ KillDone
  BY <1>12 DEF Fates, ClosePipe, Return, IInv, Places
<1>13. CASE \E i \in Cmds : ChildExit(i)
  BY <1>1, <1>13 DEF Fates, FamilyTypeOK
<1>14. CASE \/ OrphanExit \/ OtherChildExit \/ SignalHandler \/ Tick
            \/ \E p \in DataPipes : Write(p) \/ \E i \in Cmds : CloseEarly(p, i)
  BY <1>14 DEF Fates
<1>15. CASE \E i \in Cmds : ExternalReap(i)
  BY <1>15 DEF NoFaults
<1>16. CASE CleanupKillsAll
  BY <1>1, <1>16 DEF Fates, ForkFailed, IndexTypeOK, IInv, Places
<1> QED BY <1>2, <1>3, <1>4, <1>5, <1>6, <1>7, <1>8, <1>9, <1>10, <1>11, <1>12, <1>13,
           <1>14, <1>15, <1>16 DEF Next

\* The fate of a child, state by state.
LEMMA FateIs ==
  ASSUME FamilyTypeOK, NEW i \in Cmds
  PROVE  /\ child[i] = "adopted" => fate[i] = "detached"
         /\ child[i] = "gone" /\ CommandExitCodes[i] = "zero" => fate[i] = "lost"
         /\ child[i] = "gone" /\ CommandExitCodes[i] # "zero" => fate[i] = CommandExitCodes[i]
         /\ child[i] \in {"none", "running"} \cup Zombie => fate[i] = child[i]
<1> QED BY DEF fate

\* It stays what it is if nothing becomes of the child.
LEMMA FateKept ==
  ASSUME NEW i \in Cmds, child'[i] = child[i], CommandExitCodes'[i] = CommandExitCodes[i]
  PROVE  fate'[i] = fate[i]
<1> QED BY DEF fate

LEMMA FatesSame ==
  ASSUME child' = child, CommandExitCodes' = CommandExitCodes
  PROVE  fate' = fate
<1> QED BY DEF fate

\* A step that changes one child changes one fate.
LEMMA FateChanged ==
  ASSUME FamilyTypeOK, NEW i \in Cmds, NEW c, child' = [child EXCEPT ![i] = c],
         CommandExitCodes' = CommandExitCodes
  PROVE  /\ child'[i] = c
         /\ fate' = [fate EXCEPT ![i] = fate'[i]]
<1>1. child'[i] = c /\ \A j \in Cmds : j # i => child'[j] = child[j]
  BY DEF FamilyTypeOK
<1>2. \A j \in Cmds : j # i => fate'[j] = fate[j]
  BY <1>1, FateKept
<1>3. fate = [j \in Cmds |-> fate[j]] /\ fate' = [j \in Cmds |-> fate'[j]]
  BY DEF fate
<1> QED BY <1>1, <1>2, <1>3

\* No child runs when an outcome is reported, or the object given up.
LEMMA NoneRuns ==
  ASSUME IInv, Fates
  PROVE  /\ pc = "finish" \/ (Executing /\ Detached /\ pc # "kill") =>
              \A i \in Cmds : child[i] \in {"adopted", "gone"}
         /\ (pc = "idle" /\ ~Executing) \/ pc = "deleted" =>
              \A i \in Cmds : child[i] # "running"
<1>1. FamilyTypeOK /\ FlagTypeOK
  BY DEF IInv, TypeOK
<1>2. CASE Executing /\ (Stopped \/ Detached) /\ pc # "kill"
  <2>1. \A i \in Cmds : child[i] \notin Ours /\ child[i] # "none"
    BY <1>2 DEF IInv, KilledSoFar, Fates
  <2> QED BY <1>1, <2>1 DEF FamilyTypeOK, ChildStates
<1>3. CASE pc = "finish" /\ ~Stopped /\ ~Detached
  <2>1. Executing /\ ForkPIDs = {}
    BY <1>1, <1>3 DEF IInv, Places, Drained, NoSigPipe, Pipes_
  <2>2. \A i \in Cmds : child[i] \notin Ours /\ child[i] # "none"
    BY <2>1 DEF IInv, Children, Fates
  <2> QED BY <1>1, <1>3, <2>2 DEF FamilyTypeOK, ChildStates
<1>4. CASE pc \in {"idle", "deleted"} /\ ~Executing
  <2>1. ForkPIDs = {}
    BY <1>4 DEF IInv, Pipes_, Starting
  <2> QED BY <1>4, <2>1 DEF IInv, Children
<1>5. CASE pc = "deleted" /\ Executing
  BY <1>2, <1>5 DEF IInv, Places
<1>6. pc = "finish" => Executing
  BY DEF IInv, Places
<1> QED BY <1>2, <1>3, <1>4, <1>5, <1>6

LEMMA CallSimulates ==
  ASSUME NoFaults, IInv, Fates, Call
  PROVE  Lifecycle!Next \/ UNCHANGED Lifecycle!vars
<1>1. CASE New \/ ExecuteBegin \/ ExecuteFails
  <2>1. \A i \in Cmds : fate[i] # "running"
    <3>1. \A i \in Cmds : child[i] # "running"
      BY <1>1, NoneRuns DEF Executing
    <3>2. FamilyTypeOK /\ CommandExitCodes \in [Cmds -> Statuses]
      BY DEF IInv, TypeOK, PidTypeOK
    <3> QED BY <3>1, <3>2 DEF fate, Statuses
  <2>2. fate' = [i \in Cmds |-> "none"]
    BY <1>1 DEF NoChildren, fate
  <2>3. State' \in {"Starting", "Error"} /\ pc' # "cleanup"
    BY <1>1 DEF Enter
  <2>4. Lifecycle!Begin
    BY <2>1, <2>2, <2>3 DEF Lifecycle!Begin, Lifecycle!Cmds
  <2> QED BY <2>4 DEF Lifecycle!Next
<1>2. CASE SetOption \/ WaitForData \/ WaitForExit \/ Delete \/ Disown \/ Kill
  <2>1. fate' = fate
    BY <1>2, FatesSame DEF Enter, StartWait
  <2>2. State' = State /\ pc # "cleanup" /\ pc' # "cleanup"
    BY <1>2 DEF Enter, StartWait
  <2> QED BY <2>1, <2>2 DEF Lifecycle!vars
<1> QED BY <1>1, <1>2

\* A kill loop kills a child, or finds that none is left of it.
LEMMA KillSimulates ==
  ASSUME IInv, Fates, CleanupKill \/ KillOne
  PROVE  Lifecycle!Next \/ UNCHANGED Lifecycle!vars
<1>1. FamilyTypeOK /\ CommandExitCodes \in [Cmds -> Statuses]
  BY DEF IInv, TypeOK, PidTypeOK
<1>2. /\ pc \in {"cleanup", "kill"} /\ pc' = pc /\ idx \in Cmds /\ State' = State
      /\ pc = "kill" => State = "Executing"
      /\ CommandExitCodes' = CommandExitCodes /\ KillChild(idx)
  BY DEF IInv, Places, Executing
<1>3. CASE idx \in ForkPIDs /\ child[idx] # "gone"
  <2>1. child[idx] # "none" /\ CommandExitCodes[idx] = "zero"
    BY <1>2, <1>3 DEF Fates, Starting, Executing, ForkFailed
  <2>2. fate[idx] \in Lifecycle!Started
    BY <1>1, <1>2, <1>3, <2>1 DEF fate, FamilyTypeOK, ChildStates, Lifecycle!Started
  <2>3. child' = [child EXCEPT ![idx] = "gone"]
    BY <1>2, <1>3 DEF KillChild
  <2>4. child'[idx] = "gone" /\ fate' = [fate EXCEPT ![idx] = fate'[idx]]
    BY <1>1, <1>2, <2>3, FateChanged
  <2>5. fate'[idx] = "lost"
    BY <1>2, <2>1, <2>4 DEF fate
  <2>6. Lifecycle!Kill(idx)
    BY <1>2, <2>2, <2>4, <2>5 DEF Lifecycle!Kill
  <2> QED BY <1>2, <2>6 DEF Lifecycle!Next, Lifecycle!Cmds
<1>4. CASE idx \notin ForkPIDs \/ child[idx] = "gone"
  <2>1. child' = child
    BY <1>1, <1>2, <1>4 DEF KillChild, FamilyTypeOK
  <2>2. fate' = fate
    BY <1>2, <2>1, FatesSame
  <2> QED BY <1>2, <2>2 DEF Lifecycle!vars
<1> QED BY <1>3, <1>4

LEMMA ExecuteSimulates ==
  ASSUME NoFaults, IInv, Fates, ExecuteStep
  PROVE  Lifecycle!Next \/ UNCHANGED Lifecycle!vars
<1>1. /\ FamilyTypeOK /\ PidTypeOK /\ IndexTypeOK /\ NumberOfCommands \in Nat
      /\ CommandExitCodes \in [Cmds -> Statuses]
  BY ConstantsAssumption DEF IInv, TypeOK, PidTypeOK
<1>2. CASE CreateChild \/ (CreateFails /\ child' # child)
  <2>1. /\ pc = "create" /\ idx \in Cmds /\ State = "Starting" /\ ForkPIDs = 1..(idx - 1)
        /\ CommandExitCodes' = CommandExitCodes
    BY <1>2 DEF IInv, Places, Children
  <2>2. child[idx] = "none" /\ \A j \in 1..(idx - 1) : child[j] # "none"
    BY <1>1, <2>1 DEF Fates, Starting, PidTypeOK
  <2>3. PICK c \in {"running", "adopted", "exited", "gone"} :
          child' = [child EXCEPT ![idx] = c]
    BY <1>2 DEF NothingStarted, ExecFails
  <2>4. CommandExitCodes[idx] = "zero"
    BY <2>1, <2>2 DEF Fates
  <2>5. child'[idx] = c /\ fate' = [fate EXCEPT ![idx] = fate'[idx]]
    BY <1>1, <2>1, <2>3, FateChanged
  <2>6. fate'[idx] \in {"running", "detached", "exited", "lost"}
    BY <2>1, <2>4, <2>5 DEF fate
  <2>7. fate[idx] = "none" /\ \A j \in 1..(idx - 1) : fate[j] # "none"
    <3>1. \A j \in 1..(idx - 1) : j \in Cmds
      BY <1>1, <2>1
    <3> QED BY <1>1, <2>1, <2>2, <3>1 DEF fate, Statuses
  <2>8. (IF pc' = "cleanup" THEN "Starting" ELSE State') = "Starting"
    BY <1>2, <2>1
  <2>9. Lifecycle!Fork(idx)
    BY <2>1, <2>5, <2>6, <2>7, <2>8 DEF Lifecycle!Fork
  <2> QED BY <2>1, <2>9 DEF Lifecycle!Next, Lifecycle!Cmds
<1>3. CASE CreateFails /\ child' = child
  <2>1. fate' = fate
    BY <1>3, FatesSame
  <2>2. pc = "create" /\ State = "Starting" /\ pc' = "cleanup"
    BY <1>3 DEF IInv, Places
  <2> QED BY <2>1, <2>2 DEF Lifecycle!vars
<1>4. CASE CleanupKill \/ CleanupKillsAll
  <2>1. CASE CleanupKillsAll
    <3>1. fate' = fate
      BY <2>1, FatesSame
    <3> QED BY <2>1, <3>1 DEF Lifecycle!vars
  <2> QED BY <1>4, <2>1, KillSimulates
<1>5. CASE CleanupDone
  <2>1. State = "Error" /\ State' = State /\ pc = "cleanup" /\ pc' # "cleanup"
    BY <1>5 DEF Return, IInv, Places
  <2>2. fate' = fate
    BY <1>5, FatesSame
  <2>3. \A i \in Cmds : child[i] \in {"none", "gone"} /\ CommandExitCodes[i] = "zero"
    <3>1. \A i \in Cmds : child[i] \in {"none", "gone"}
      BY <1>1, <1>5 DEF Fates, IndexTypeOK
    <3>2. \A i \in Cmds : CommandExitCodes[i] = "zero"
      BY <2>1 DEF Fates, Starting
    <3> QED BY <3>1, <3>2
  <2>4. \A i \in Cmds : fate[i] \notin Lifecycle!Started
    BY <2>3 DEF fate, Lifecycle!Started
  <2>5. Lifecycle!Fail
    BY <2>1, <2>2, <2>4 DEF Lifecycle!Fail, Lifecycle!Cmds
  <2> QED BY <2>5 DEF Lifecycle!Next
<1>6. CASE ExecuteDone
  <2>1. /\ State = "Starting" /\ State' = "Executing" /\ pc = "create" /\ pc' # "cleanup"
        /\ fate' = fate
    BY <1>6, FatesSame DEF Return, IInv, Places
  <2>2. \A i \in Cmds : child[i] # "none"
    BY <1>1, <1>6 DEF Fates, Starting, IInv, Children, IndexTypeOK
  <2>3. \A i \in Cmds : fate[i] # "none"
    BY <1>1, <2>2 DEF fate, Statuses
  <2>4. Lifecycle!Start
    BY <2>1, <2>3 DEF Lifecycle!Start, Lifecycle!Cmds
  <2> QED BY <2>4 DEF Lifecycle!Next
<1> QED BY <1>2, <1>3, <1>4, <1>5, <1>6

LEMMA WaitSimulates ==
  ASSUME NoFaults, IInv, Fates, WaitStep \/ WaitReturns \/ WaitExpires
  PROVE  Lifecycle!Next \/ UNCHANGED Lifecycle!vars
<1>1. State' = State /\ child' = child /\ CommandExitCodes' = CommandExitCodes
  OBVIOUS
<1>2. pc # "cleanup" /\ pc' # "cleanup"
  BY DEF Scanning, Return, WaitOver
<1>3. fate' = fate
  BY <1>1, FatesSame
<1> QED BY <1>1, <1>2, <1>3 DEF Lifecycle!vars

\* Reaping a child makes known how it ended, which is what became of it.
LEMMA ReapSimulates ==
  ASSUME NoFaults, IInv, Fates, ReapStep
  PROVE  Lifecycle!Next \/ UNCHANGED Lifecycle!vars
<1>1. FamilyTypeOK /\ CommandExitCodes \in [Cmds -> Statuses]
  BY DEF IInv, TypeOK, PidTypeOK
<1>2. pc # "cleanup" /\ pc' # "cleanup"
  OBVIOUS
<1>3. CASE DestroyReaps
  <2>1. /\ child[idx] \in Zombie /\ idx \in Cmds /\ State' = State
        /\ child' = [child EXCEPT ![idx] = "gone"]
        /\ CommandExitCodes' = [CommandExitCodes EXCEPT ![idx] = child[idx]]
    BY <1>3 DEF IInv, TypeOK, PidTypeOK
  <2>2. ASSUME NEW i \in Cmds
        PROVE  fate'[i] = fate[i]
    <3>1. CASE i = idx
      BY <1>1, <2>1, <3>1 DEF fate, FamilyTypeOK
    <3>2. CASE i # idx
      BY <1>1, <2>1, <3>2, FateKept DEF FamilyTypeOK
    <3> QED BY <3>1, <3>2
  <2>3. fate' = fate
    BY <2>2 DEF fate
  <2> QED BY <1>2, <2>1, <2>3 DEF Lifecycle!vars
<1>4. CASE DestroySkips \/ DestroyDone
  <2>1. State' = State
    BY <1>4 DEF IInv, Places, Children, Executing
  <2>2. fate' = fate
    BY <1>4, FatesSame
  <2> QED BY <1>2, <2>1, <2>2 DEF Lifecycle!vars
<1> QED BY <1>3, <1>4

\* The outcome is reported when no child of ours runs, and says how the last
\* one ended.
LEMMA FinishSimulates ==
  ASSUME NoFaults, IInv, Fates, Finish
  PROVE  Lifecycle!Next \/ UNCHANGED Lifecycle!vars
<1>1. /\ FamilyTypeOK /\ CommandExitCodes \in [Cmds -> Statuses]
      /\ NumberOfCommands \in Cmds
  BY ConstantsAssumption DEF IInv, TypeOK, PidTypeOK
<1>2. /\ pc = "finish" /\ pc' # "cleanup" /\ State = "Executing" /\ State' = Outcome
      /\ fate' = fate
  <2>1. State = "Executing" /\ ~SelectError
    BY DEF IInv, Places, Executing
  <2>2. fate' = fate
    BY FatesSame
  <2> QED BY <2>1, <2>2 DEF Return
<1>3. \A i \in Cmds : /\ child[i] \in {"adopted", "gone"}
                      /\ CommandExitCodes[i] # "zero" => child[i] = "gone"
  BY <1>2, NoneRuns DEF Fates
<1>4. \A i \in Cmds :
        /\ fate[i] \in {"detached", "lost", "exited", "signaled"}
        /\ fate[i] = "signaled" <=> CommandExitCodes[i] = "signaled"
  <2>1. ASSUME NEW i \in Cmds
        PROVE  /\ fate[i] \in {"detached", "lost", "exited", "signaled"}
               /\ fate[i] = "signaled" <=> CommandExitCodes[i] = "signaled"
    <3>1. CommandExitCodes[i] \in Statuses
      BY <1>1
    <3>2. /\ child[i] \in {"adopted", "gone"}
          /\ CommandExitCodes[i] # "zero" => child[i] = "gone"
      BY <1>3
    <3> QED BY <1>1, <3>1, <3>2, FateIs DEF Statuses
  <2> QED BY <2>1
<1>5. \/ State' = "Exited" /\ fate[NumberOfCommands] \in {"exited", "detached", "lost"}
      \/ State' = "Exception" /\ fate[NumberOfCommands] = "signaled"
      \/ State' = "Expired" /\ Timeout # 0
      \/ State' = "Killed"
  <2>1. TimeoutExpired => Timeout # 0
    BY ConstantsAssumption DEF IInv, Deadlines, TimedOut
  <2> QED BY <1>1, <1>2, <1>4, <2>1 DEF Outcome
<1>6. Lifecycle!Finish
  BY <1>2, <1>4, <1>5 DEF Lifecycle!Finish, Lifecycle!Cmds
<1> QED BY <1>6 DEF Lifecycle!Next

LEMMA KillStepSimulates ==
  ASSUME NoFaults, IInv, Fates, KillStep
  PROVE  Lifecycle!Next \/ UNCHANGED Lifecycle!vars
<1>1. CASE KillOne
  BY <1>1, KillSimulates
<1>2. CASE (\E p \in Pipes : ClosePipes(p)) \/ PipesClosed \/ KillDone
  <2>1. State' = State /\ child' = child /\ CommandExitCodes' = CommandExitCodes
    BY <1>2 DEF ClosePipe
  <2>2. pc # "cleanup" /\ pc' # "cleanup"
    BY <1>2 DEF Return
  <2>3. fate' = fate
    BY <2>1, FatesSame
  <2> QED BY <2>1, <2>2, <2>3 DEF Lifecycle!vars
<1>3. CASE Disowned
  <2>1. /\ pc # "cleanup" /\ pc' # "cleanup" /\ State = "Executing" /\ State' = "Disowned"
        /\ fate' = fate
    BY <1>3, FatesSame DEF Return, Cleanup, IInv, Places, Executing
  <2>2. \A i \in Cmds : child[i] \in {"adopted", "gone"}
    BY <1>3, <2>1, NoneRuns DEF IInv, Places, Executing
  <2>3. CommandExitCodes \in [Cmds -> Statuses]
    BY DEF IInv, TypeOK, PidTypeOK
  <2>4. \A i \in Cmds : fate[i] # "running"
    BY <2>2, <2>3 DEF fate, Statuses
  <2>5. Lifecycle!Disown
    BY <2>1, <2>4 DEF Lifecycle!Disown, Lifecycle!Cmds
  <2> QED BY <2>5 DEF Lifecycle!Next
<1> QED BY <1>1, <1>2, <1>3

\* Children exit at any time; all else that happens around the object is not
\* seen in its interface.
LEMMA EnvironmentSimulates ==
  ASSUME NoFaults, IInv, Fates, Environment \/ SignalHandler \/ Tick
  PROVE  Lifecycle!Next \/ UNCHANGED Lifecycle!vars
<1>1. CASE \/ OrphanExit \/ OtherChildExit \/ SignalHandler \/ Tick
           \/ \E p \in DataPipes : Write(p) \/ \E i \in Cmds : CloseEarly(p, i)
  <2>1. State' = State /\ pc' = pc /\ child' = child /\ CommandExitCodes' = CommandExitCodes
    BY <1>1
  <2>2. fate' = fate
    BY <2>1, FatesSame
  <2> QED BY <2>1, <2>2 DEF Lifecycle!vars
<1>2. ASSUME NEW i \in Cmds, ChildExit(i)
      PROVE  Lifecycle!Exit(i)
  <2>1. /\ State' = State /\ pc' = pc /\ CommandExitCodes' = CommandExitCodes
        /\ child[i] \in Alive /\ FamilyTypeOK
    BY <1>2 DEF IInv, TypeOK
  <2>2. CommandExitCodes[i] = "zero"
    BY <2>1 DEF Fates
  <2>3. PICK c \in Zombie \cup {"gone"} :
          /\ child' = [child EXCEPT ![i] = c]
          /\ child[i] = "running" => c \in Zombie
          /\ child[i] = "adopted" => c = "gone"
    BY <1>2 DEF FamilyTypeOK
  <2>4. child'[i] = c /\ fate' = [fate EXCEPT ![i] = fate'[i]]
    BY <2>1, <2>3, FateChanged
  <2>5. CASE child[i] = "running"
    <3>1. fate[i] = "running" /\ fate'[i] \in {"exited", "signaled"}
      BY <2>3, <2>4, <2>5 DEF fate
    <3> QED BY <2>1, <2>4, <3>1 DEF Lifecycle!Exit
  <2>6. CASE child[i] = "adopted"
    <3>1. fate[i] = "detached" /\ fate'[i] = "lost"
      BY <2>1, <2>2, <2>3, <2>4, <2>6 DEF fate
    <3> QED BY <2>1, <2>4, <3>1 DEF Lifecycle!Exit
  <2> QED BY <2>1, <2>5, <2>6
<1>3. CASE \E i \in Cmds : ExternalReap(i)
  BY <1>3 DEF NoFaults
<1>4. CASE \E i \in Cmds : ChildExit(i)
  BY <1>2, <1>4 DEF Lifecycle!Next, Lifecycle!Cmds
<1> QED BY <1>1, <1>3, <1>4

\* The object does what its interface promises: whatever the interleaving, the
\* states a caller sees follow on each other as Process.h.in describes, and
\* say what has become of the children.
THEOREM ImplementsLifecycle ==
  ASSUME NoFaults
  PROVE  Spec => LifecycleSpec
<1>1. Init => Lifecycle!Init
  BY DEF Init, Lifecycle!Init, Lifecycle!Cmds, fate
<1>2. Init => Fates
  BY FatesInit
<1>3. IInv /\ Fates /\ [Next]_vars => Fates'
  <2>1. ASSUME IInv, Fates, UNCHANGED vars
        PROVE  Fates'
    BY <2>1 DEF Fates, vars, Starting, Executing
  <2> QED BY <2>1, FatesKept
<1>4. IInv /\ Fates /\ [Next]_vars => [Lifecycle!Next]_(Lifecycle!vars)
  <2>1. ASSUME IInv, Fates, UNCHANGED vars
        PROVE  UNCHANGED Lifecycle!vars
    BY <2>1, FatesSame DEF vars, Lifecycle!vars
  <2> QED BY <2>1, CallSimulates, ExecuteSimulates, WaitSimulates, ReapSimulates,
             FinishSimulates, KillStepSimulates, EnvironmentSimulates DEF Next
<1> QED BY <1>1, <1>2, <1>3, <1>4, Invariance, PTL
        DEF Spec, LifecycleSpec, Lifecycle!Spec

---------------------------------------------------------------------------
(***************************************************************************)
(* Proofs about ProcessTime, the arithmetic behind the times above, for a  *)
(* second of any length, any timeouts and any clock.                       *)
(***************************************************************************)

(* The arithmetic the provers need help with.                               *)
LEMMA Distribute ==
  ASSUME NEW a \in Int, NEW b \in Int, NEW c \in Int
  PROVE  (a + b) * c = a * c + b * c /\ (a - b) * c = a * c - b * c
  BY Z3

LEMMA Monotone ==
  ASSUME NEW a \in Int, NEW b \in Int, NEW c \in Nat, a <= b
  PROVE  a * c <= b * c
  BY Z3

LEMMA Division ==
  ASSUME NEW n \in Nat
  PROVE  /\ n \div Second \in Nat /\ n % Second \in 0..(Second - 1)
         /\ n = (n \div Second) * Second + (n % Second)
  BY TimeAssumption, Z3

---------------------------------------------------------------------------
(* The times the code computes with: their microseconds are at most a full  *)
(* second, which TimeAdd does not carry.                                    *)
Proper(t) == /\ t \in kwsysProcessTime
             /\ t.tv_usec <= Second
NotNegative(t) == Proper(t) /\ t.tv_sec >= 0 /\ t.tv_usec >= 0

(* The time of the clock is exact, and less than a second over its seconds. *)
LEMMA CurrentTime ==
  ASSUME clock \in Nat
  PROVE  /\ NotNegative(TimeGetCurrent) /\ TimeGetCurrent.tv_usec < Second
         /\ Micros(TimeGetCurrent) = clock
  BY Division, TimeAssumption
     DEF TimeGetCurrent, Time, NotNegative, Proper, kwsysProcessTime, Micros

(* A conversion loses at most a microsecond, towards zero.                  *)
LEMMA Converted ==
  ASSUME NEW d \in Int, NEW t \in TimeFromDouble(d)
  PROVE  /\ t \in kwsysProcessTime
         /\ -Second < t.tv_usec /\ t.tv_usec < Second
         /\ d >= 0 => /\ t.tv_sec >= 0 /\ t.tv_usec >= 0
                      /\ Micros(t) \in {d, d - 1}
         /\ d < 0 => t.tv_sec <= 0 /\ t.tv_usec <= 0
<1> DEFINE size == IF d < 0 THEN -d ELSE d
           sign == IF d < 0 THEN -1 ELSE 1
           s == size \div Second
           u == size % Second
<1>1. size \in Nat /\ sign \in {1, -1}
  OBVIOUS
<1>2. s \in Nat /\ u \in 0..(Second - 1) /\ size = s * Second + u
  BY <1>1, Division
<1>3. PICK usec \in {u, IF u = 0 THEN 0 ELSE u - 1} : t = Time(sign * s, sign * usec)
  BY DEF TimeFromDouble
<1>4. usec \in 0..(Second - 1) /\ usec \in {u, u - 1}
  BY <1>2, <1>3, TimeAssumption
<1> HIDE DEF size, s, u
<1>5. t.tv_sec = sign * s /\ t.tv_usec = sign * usec /\ t = Time(t.tv_sec, t.tv_usec)
  BY <1>3 DEF Time
<1>6. CASE d < 0
  <2>1. t.tv_sec = -s /\ t.tv_usec = -usec
    BY <1>2, <1>4, <1>5, <1>6
  <2> QED BY <1>2, <1>4, <1>5, <1>6, <2>1, TimeAssumption DEF kwsysProcessTime, Time
<1>7. CASE d >= 0
  <2>1. t.tv_sec = s /\ t.tv_usec = usec /\ size = d
    BY <1>2, <1>4, <1>5, <1>7 DEF size
  <2>2. Micros(t) \in {d, d - 1}
    BY <1>2, <1>4, <2>1, TimeAssumption DEF Micros
  <2> QED BY <1>2, <1>4, <1>5, <1>7, <2>1, <2>2, TimeAssumption DEF kwsysProcessTime, Time
<1> QED BY <1>6, <1>7

(* Addition and subtraction keep the value of their arguments.              *)
LEMMA AddExact ==
  ASSUME NEW a \in kwsysProcessTime, NEW b \in kwsysProcessTime
  PROVE  /\ TimeAdd(a, b) \in kwsysProcessTime
         /\ Micros(TimeAdd(a, b)) = Micros(a) + Micros(b)
<1> DEFINE sec == a.tv_sec + b.tv_sec
           usec == a.tv_usec + b.tv_usec
<1>1. /\ a.tv_sec \in Int /\ a.tv_usec \in Int /\ b.tv_sec \in Int /\ b.tv_usec \in Int
      /\ Second \in Int
  BY TimeAssumption DEF kwsysProcessTime
<1>2. /\ sec * Second = a.tv_sec * Second + b.tv_sec * Second
      /\ (sec + 1) * Second = sec * Second + Second
  BY <1>1, Distribute
<1> QED BY <1>1, <1>2 DEF TimeAdd, Time, Micros, kwsysProcessTime

LEMMA SubtractExact ==
  ASSUME NEW a \in kwsysProcessTime, NEW b \in kwsysProcessTime
  PROVE  /\ TimeSubtract(a, b) \in kwsysProcessTime
         /\ Micros(TimeSubtract(a, b)) = Micros(a) - Micros(b)
<1> DEFINE sec == a.tv_sec - b.tv_sec
           usec == a.tv_usec - b.tv_usec
<1>1. /\ a.tv_sec \in Int /\ a.tv_usec \in Int /\ b.tv_sec \in Int /\ b.tv_usec \in Int
      /\ Second \in Int
  BY TimeAssumption DEF kwsysProcessTime
<1>2. /\ sec * Second = a.tv_sec * Second - b.tv_sec * Second
      /\ (sec - 1) * Second = sec * Second - Second
  BY <1>1, Distribute
<1> QED BY <1>1, <1>2 DEF TimeSubtract, Time, Micros, kwsysProcessTime

(* A sum of the clock, or of a start, and a length is proper.               *)
LEMMA AddProper ==
  ASSUME NEW a, NotNegative(a), a.tv_usec < Second,
         NEW b \in kwsysProcessTime, b.tv_usec < Second
  PROVE  /\ Proper(TimeAdd(a, b))
         /\ b.tv_sec >= 0 /\ b.tv_usec >= 0 => NotNegative(TimeAdd(a, b))
         /\ TimeAdd(a, b).tv_usec < 0 => TimeAdd(a, b).tv_sec = a.tv_sec + b.tv_sec
  BY AddExact, TimeAssumption DEF TimeAdd, Time, Proper, NotNegative, kwsysProcessTime

(* The order of times is that of what they stand for, but that a full       *)
(* second of microseconds counts less than a second.                        *)
LEMMA LessIsLess ==
  ASSUME NEW a, Proper(a), NEW b, NotNegative(b), TimeLess(a, b)
  PROVE  Micros(a) <= Micros(b)
<1>1. CASE a.tv_sec < b.tv_sec
  <2>1. (a.tv_sec + 1) * Second <= b.tv_sec * Second
    BY <1>1, Monotone, TimeAssumption DEF Proper, NotNegative, kwsysProcessTime
  <2>2. (a.tv_sec + 1) * Second = a.tv_sec * Second + Second
    BY Distribute, TimeAssumption DEF Proper, kwsysProcessTime
  <2> QED BY <2>1, <2>2, TimeAssumption DEF Proper, NotNegative, kwsysProcessTime, Micros
<1>2. CASE a.tv_sec = b.tv_sec /\ a.tv_usec < b.tv_usec
  BY <1>2, TimeAssumption DEF Proper, NotNegative, kwsysProcessTime, Micros
<1> QED BY <1>1, <1>2 DEF TimeLess

LEMMA NotLess ==
  ASSUME NEW a, NotNegative(a), NEW b, NotNegative(b), ~TimeLess(a, b)
  PROVE  Micros(b) <= Micros(a)
<1>1. CASE TimeLess(b, a)
  BY <1>1, LessIsLess DEF NotNegative
<1>2. CASE ~TimeLess(b, a)
  BY <1>2, TimeAssumption DEF NotNegative, Proper, kwsysProcessTime, TimeLess, Micros
<1> QED BY <1>1, <1>2
---------------------------------------------------------------------------
(* The inductive invariant.                                                 *)

(* The time of the process, once it has started, and its deadline, once it  *)
(* has been computed, count from the clock.                                 *)
Asked(t) == t \in Timeouts /\ t > 0
StartInv ==
  /\ cpTimeout = 0 \/ Asked(cpTimeout)
  /\ stage # "idle" => NotNegative(StartTime) /\ StartTime.tv_usec < Second
  /\ \/ TimeoutTime = NoTime
     \/ /\ NotNegative(TimeoutTime)
        /\ \E t \in Timeouts : /\ t > 0
                               /\ Micros(TimeoutTime) - Micros(StartTime) \in {t - 1, t}

(* A wait has the deadline of the process or an earlier one.  Only a        *)
(* deadline of the past can have microseconds below zero.                   *)
DeadlineInv ==
  Waiting =>
    /\ wdTime.tv_usec <= Second
    /\ wdTime.tv_usec < 0 => wdTime.tv_sec * Second <= clock

DeadlinesInv == TimeTypeOK /\ StartInv /\ DeadlineInv /\ EarlierDeadline

LEMMA TimeInitInv == TimeInit => DeadlinesInv
<1>1. 0 \in Int /\ Time(0, 0) \in kwsysProcessTime /\ NoTime \in kwsysProcessTime
  BY DEF Time, NoTime, kwsysProcessTime
<1> SUFFICES ASSUME TimeInit PROVE DeadlinesInv
  OBVIOUS
<1>2. TimeTypeOK
  BY <1>1, TimeAssumption DEF TimeInit, TimeTypeOK
<1>3. StartInv /\ DeadlineInv /\ EarlierDeadline
  BY DEF TimeInit, StartInv, DeadlineInv, EarlierDeadline, Waiting
<1> QED BY <1>2, <1>3 DEF DeadlinesInv

(* Steps that leave the waiting alone, or begin and end it.                 *)
LEMMA QuietStep ==
  ASSUME DeadlinesInv, UNCHANGED cp, TimeTypeOK', ~Waiting', stage' # "idle" => stage # "idle"
  PROVE  DeadlinesInv'
  BY DEF DeadlinesInv, cp, StartInv, DeadlineInv, EarlierDeadline

LEMMA WaitingStep ==
  ASSUME DeadlinesInv, UNCHANGED <<cp, wait>>, TimeTypeOK', Waiting, clock' >= clock
  PROVE  DeadlinesInv'
<1>1. clock \in Int /\ clock' \in Int /\ Second \in Int /\ wdTime.tv_sec \in Int
  BY TimeAssumption DEF DeadlinesInv, TimeTypeOK, kwsysProcessTime
<1>2. StartInv'
  BY DEF DeadlinesInv, cp, StartInv, Waiting
<1>3. DeadlineInv'
  BY <1>1 DEF DeadlinesInv, wait, DeadlineInv
<1>4. EarlierDeadline'
  <2>1. callerTimeout # Null => callerTimeout \in Int
    BY DEF DeadlinesInv, TimeTypeOK
  <2>2. Micros(wdTime) \in Int
    BY TimeAssumption DEF DeadlinesInv, TimeTypeOK, kwsysProcessTime, Micros
  <2> QED BY <1>1, <2>1, <2>2 DEF DeadlinesInv, cp, wait, EarlierDeadline, Micros
<1> QED BY <1>2, <1>3, <1>4 DEF DeadlinesInv

LEMMA EndTypes ==
  ASSUME TimeTypeOK, End, UNCHANGED clock
  PROVE  TimeTypeOK'
<1>1. TimeGetCurrent \in kwsysProcessTime /\ userStartTime \in kwsysProcessTime
  BY CurrentTime DEF TimeTypeOK, NotNegative, Proper
<1>2. Micros(TimeSubtract(TimeGetCurrent, userStartTime)) \in Int
  BY <1>1, SubtractExact, TimeAssumption DEF Micros, kwsysProcessTime
<1> QED BY <1>2, TimeAssumption DEF TimeTypeOK, End, cp

(* The deadlines of a wait that begins.                                     *)
LEMMA GetTimeoutTimeInv ==
  ASSUME DeadlinesInv, kwsysProcessGetTimeoutTime
  PROVE  DeadlinesInv'
<1>1. PICK length \in TimeFromDouble(cpTimeout) : ProcessDeadline(length)
  BY DEF kwsysProcessGetTimeoutTime
<1> DEFINE user == IF callerTimeout = Null THEN 0 ELSE callerTimeout
<1>2. PICK userLength \in TimeFromDouble(user) :
        LET userTime == TimeAdd(TimeGetCurrent, userLength)
        IN /\ User' = /\ callerTimeout # Null
                      /\ TimeoutTime'.tv_sec < 0 \/ TimeLess(userTime, TimeoutTime')
           /\ wdTime' = IF User' THEN userTime ELSE TimeoutTime'
  BY DEF kwsysProcessGetTimeoutTime
<1> DEFINE userTime == TimeAdd(TimeGetCurrent, userLength)
<1>3. /\ clock \in Nat /\ cpTimeout \in Nat /\ user \in Int /\ stage = "deadline"
      /\ UNCHANGED <<clock, cpTimeout, StartTime, callerTimeout, userStartTime, wakeAt>>
      /\ stage' = "wait"
  BY DEF kwsysProcessGetTimeoutTime, DeadlinesInv, TimeTypeOK
<1>4. /\ NotNegative(TimeGetCurrent) /\ TimeGetCurrent.tv_usec < Second
      /\ Micros(TimeGetCurrent) = clock
  BY <1>3, CurrentTime
<1>5. /\ userLength \in kwsysProcessTime /\ userLength.tv_usec < Second
      /\ user >= 0 => /\ userLength.tv_sec >= 0 /\ userLength.tv_usec >= 0
                      /\ Micros(userLength) \in {user, user - 1}
      /\ user < 0 => userLength.tv_sec <= 0
  BY <1>3, Converted
<1>6. /\ length \in kwsysProcessTime /\ length.tv_usec < Second
      /\ length.tv_sec >= 0 /\ length.tv_usec >= 0
      /\ Micros(length) \in {cpTimeout, cpTimeout - 1}
  BY <1>3, Converted
<1> HIDE DEF user
<1>7. /\ Proper(userTime)
      /\ Micros(userTime) = clock + Micros(userLength)
      /\ user >= 0 => NotNegative(userTime)
      /\ userTime.tv_usec < 0 => userTime.tv_sec * Second <= clock
  <2>1. /\ Proper(userTime)
        /\ user >= 0 => NotNegative(userTime)
        /\ Micros(userTime) = clock + Micros(userLength)
        /\ userTime.tv_usec < 0 => userTime.tv_sec = TimeGetCurrent.tv_sec + userLength.tv_sec
    BY <1>4, <1>5, AddProper, AddExact DEF NotNegative, Proper
  <2>2. ASSUME userTime.tv_usec < 0 PROVE userTime.tv_sec * Second <= clock
    <3>1. user < 0
      BY <1>3, <2>1, <2>2 DEF NotNegative, Proper, kwsysProcessTime, user
    <3>2. userTime.tv_sec <= TimeGetCurrent.tv_sec
      BY <1>4, <1>5, <2>1, <2>2, <3>1 DEF NotNegative, Proper, kwsysProcessTime
    <3>3. userTime.tv_sec * Second <= TimeGetCurrent.tv_sec * Second
      BY <1>4, <2>1, <3>2, Monotone, TimeAssumption DEF NotNegative, Proper, kwsysProcessTime
    <3> HIDE DEF userTime
    <3> QED BY <1>4, <2>1, <3>3, TimeAssumption
            DEF Micros, NotNegative, Proper, kwsysProcessTime
  <2> QED BY <2>1, <2>2
<1> HIDE DEF userTime
<1>8. \/ TimeoutTime' = NoTime
      \/ /\ NotNegative(TimeoutTime')
         /\ \E t \in Timeouts : /\ t > 0
                                /\ Micros(TimeoutTime)' - Micros(StartTime)' \in {t - 1, t}
  <2>1. CASE cpTimeout # 0 /\ TimeoutTime.tv_sec < 0
    <3>1. TimeoutTime' = TimeAdd(StartTime, length)
      BY <1>1, <2>1 DEF ProcessDeadline
    <3>2. NotNegative(StartTime) /\ StartTime.tv_usec < Second /\ Asked(cpTimeout)
      BY <1>3, <2>1 DEF DeadlinesInv, StartInv
    <3>3. NotNegative(TimeoutTime')
      BY <1>6, <3>1, <3>2, AddProper
    <3>4. Micros(TimeoutTime') = Micros(StartTime) + Micros(length)
      BY <1>6, <3>1, <3>2, AddExact DEF NotNegative, Proper
    <3>5. Micros(StartTime) \in Int
      BY <3>2, TimeAssumption DEF NotNegative, Proper, Micros, kwsysProcessTime
    <3>6. Micros(TimeoutTime') - Micros(StartTime) \in {cpTimeout - 1, cpTimeout}
      BY <1>3, <1>6, <3>4, <3>5
    <3> QED BY <1>3, <3>2, <3>3, <3>6 DEF Asked, Micros
  <2>2. CASE ~(cpTimeout # 0 /\ TimeoutTime.tv_sec < 0)
    <3>1. TimeoutTime' = TimeoutTime
      BY <1>1, <2>2 DEF ProcessDeadline
    <3> QED BY <1>3, <3>1 DEF DeadlinesInv, StartInv, Micros
  <2> QED BY <2>1, <2>2
<1>9. StartInv'
  BY <1>3, <1>8 DEF DeadlinesInv, StartInv
<1>10. /\ wdTime' = IF User' THEN userTime ELSE TimeoutTime'
       /\ User' = /\ callerTimeout # Null
                  /\ TimeoutTime'.tv_sec < 0 \/ TimeLess(userTime, TimeoutTime')
  BY <1>2 DEF userTime
<1>11. TimeoutTime' \in kwsysProcessTime /\ TimeoutTime'.tv_usec <= Second
  BY <1>8, TimeAssumption DEF NotNegative, Proper, NoTime, Time, kwsysProcessTime
<1>12. TimeTypeOK'
  BY <1>3, <1>7, <1>10, <1>11 DEF DeadlinesInv, TimeTypeOK, Proper
<1>13. DeadlineInv'
  <2>1. CASE User'
    BY <1>3, <1>7, <1>10, <2>1 DEF DeadlineInv, Proper
  <2>2. CASE ~User'
    <3>1. wdTime' = TimeoutTime'
      BY <1>10, <2>2
    <3>2. NoTime.tv_sec * Second <= clock
      BY <1>3, TimeAssumption DEF NoTime, Time
    <3> QED BY <1>3, <1>8, <1>11, <3>1, <3>2
            DEF DeadlineInv, NotNegative, Proper, kwsysProcessTime
  <2> QED BY <2>1, <2>2
<1>14. EarlierDeadline'
  <2> SUFFICES ASSUME TimeoutTime' # NoTime
               PROVE  /\ Micros(wdTime)' <= Micros(TimeoutTime)'
                      /\ ~User' => wdTime' = TimeoutTime'
                      /\ ~User' /\ callerTimeout' # Null /\ callerTimeout' >= 0
                           => Micros(wdTime)' <= clock' + callerTimeout'
    BY DEF EarlierDeadline
  <2>1. NotNegative(TimeoutTime') /\ ~(TimeoutTime'.tv_sec < 0)
    BY <1>8 DEF NotNegative, Proper, kwsysProcessTime
  <2>2. Micros(TimeoutTime') \in Int
    BY <1>11, TimeAssumption DEF kwsysProcessTime, Micros
  <2>3. CASE User'
    <3>1. Micros(userTime) <= Micros(TimeoutTime')
      BY <1>7, <1>10, <2>1, <2>3, LessIsLess
    <3> QED BY <1>10, <2>3, <3>1 DEF Micros
  <2>4. CASE ~User'
    <3>1. wdTime' = TimeoutTime'
      BY <1>10, <2>4
    <3>2. ASSUME callerTimeout # Null, callerTimeout >= 0
          PROVE  Micros(TimeoutTime') <= clock + callerTimeout
      <4>1. user = callerTimeout /\ user >= 0
        BY <3>2 DEF user
      <4>2. ~TimeLess(userTime, TimeoutTime')
        BY <1>10, <2>4, <3>2
      <4>3. Micros(TimeoutTime') <= Micros(userTime)
        BY <1>7, <2>1, <4>1, <4>2, NotLess
      <4> QED BY <1>3, <1>5, <1>7, <2>2, <4>1, <4>3
    <3> QED BY <1>3, <2>2, <2>4, <3>1, <3>2 DEF Micros
  <2> QED BY <2>3, <2>4
<1> QED BY <1>9, <1>12, <1>13, <1>14 DEF DeadlinesInv

LEMMA TimeNextInv == DeadlinesInv /\ [TimeNext]_timeVars => DeadlinesInv'
<1> SUFFICES ASSUME DeadlinesInv, [TimeNext]_timeVars PROVE DeadlinesInv'
  OBVIOUS
<1>1. TimeTypeOK /\ clock \in Nat
  BY DEF DeadlinesInv, TimeTypeOK
<1>2. CASE SetTimeout
  <2>1. PICK t \in Timeouts : cpTimeout' = IF t < 0 THEN 0 ELSE t
    BY <1>2 DEF SetTimeout
  <2>2. t \in Int
    BY TimeAssumption
  <2>3. TimeTypeOK'
    BY <1>1, <1>2, <2>1, <2>2 DEF SetTimeout, wait, TimeTypeOK
  <2>4. cpTimeout' = 0 \/ Asked(cpTimeout')
    BY <2>1, <2>2 DEF Asked
  <2>5. ~Waiting'
    BY <1>2 DEF SetTimeout, Waiting
  <2> QED BY <1>2, <2>3, <2>4, <2>5
          DEF SetTimeout, wait, DeadlinesInv, StartInv, DeadlineInv, EarlierDeadline, Micros
<1>3. CASE Execute
  <2>1. NotNegative(TimeGetCurrent) /\ TimeGetCurrent.tv_usec < Second
    BY <1>1, CurrentTime
  <2>2. NoTime \in kwsysProcessTime
    BY DEF NoTime, Time, kwsysProcessTime
  <2>3. TimeTypeOK'
    BY <1>1, <1>3, <2>1, <2>2 DEF Execute, wait, TimeTypeOK, NotNegative, Proper
  <2> QED BY <1>3, <2>1, <2>3
          DEF Execute, DeadlinesInv, StartInv, DeadlineInv, EarlierDeadline, Waiting
<1>4. CASE kwsysProcess_WaitForData
  <2>1. TimeGetCurrent \in kwsysProcessTime
    BY <1>1, CurrentTime DEF NotNegative, Proper
  <2>2. TimeTypeOK'
    BY <1>1, <1>4, <2>1, TimeAssumption DEF kwsysProcess_WaitForData, cp, TimeTypeOK
  <2> QED BY <1>4, <2>2, QuietStep DEF kwsysProcess_WaitForData, Waiting
<1>5. CASE kwsysProcessGetTimeoutTime
  BY <1>5, GetTimeoutTimeInv
<1>6. CASE Expire
  BY <1>1, <1>6, EndTypes, QuietStep DEF Expire, End, Waiting
<1>7. CASE Select
  <2>1. TimeLeft \in kwsysProcessTime
    BY <1>1, CurrentTime, SubtractExact DEF TimeLeft, NotNegative, Proper, TimeTypeOK
  <2>2. wakeAt' \in Int \cup {Never}
    BY <1>1, <1>7, <2>1, TimeAssumption DEF Select, Micros, kwsysProcessTime
  <2>3. TimeTypeOK'
    BY <1>1, <1>7, <2>2 DEF Select, cp, wait, TimeTypeOK
  <2> QED BY <1>1, <1>7, <2>3, WaitingStep DEF Select, Waiting
<1>8. CASE PipeReady
  <2>1. CASE End
    BY <1>1, <1>8, <2>1, EndTypes, QuietStep DEF PipeReady, End, Waiting
  <2>2. CASE stage' = "wait" /\ UNCHANGED <<cp, wait, wakeAt>>
    <3>1. TimeTypeOK'
      BY <1>1, <1>8, <2>2 DEF PipeReady, cp, wait, TimeTypeOK
    <3> QED BY <1>1, <1>8, <2>2, <3>1, WaitingStep DEF PipeReady, Waiting
  <2> QED BY <1>8, <2>1, <2>2 DEF PipeReady
<1>9. CASE SelectTimesOut
  BY <1>1, <1>9, EndTypes, QuietStep DEF SelectTimesOut, End, Waiting
<1>10. CASE ProcessEnds
  <2>1. TimeTypeOK'
    BY <1>1, <1>10 DEF ProcessEnds, cp, wait, TimeTypeOK
  <2> QED BY <1>10, <2>1, QuietStep DEF ProcessEnds, Waiting
<1>11. CASE ClockTicks
  <2>1. TimeTypeOK' /\ clock' >= clock
    BY <1>1, <1>11 DEF ClockTicks, cp, wait, TimeTypeOK
  <2>2. CASE Waiting
    BY <1>11, <2>1, <2>2, WaitingStep DEF ClockTicks
  <2>3. CASE ~Waiting
    BY <1>11, <2>1, <2>3, QuietStep DEF ClockTicks, Waiting
  <2> QED BY <2>2, <2>3
<1>12. CASE UNCHANGED timeVars
  BY <1>12 DEF timeVars, cp, wait, DeadlinesInv, TimeTypeOK, StartInv, DeadlineInv,
               EarlierDeadline, Waiting, Micros
<1> QED BY <1>2, <1>3, <1>4, <1>5, <1>6, <1>7, <1>8, <1>9, <1>10, <1>11, <1>12 DEF TimeNext

LEMMA TimeInvariance == TimeSpec => []DeadlinesInv
  BY TimeInitInv, TimeNextInv, PTL DEF TimeSpec

(* The deadline of a process counts from its start, within the microsecond  *)
(* a conversion may lose, whenever it is first waited for.                  *)
THEOREM DeadlinesFromStart == TimeSpec => []DeadlineFromStart
<1>1. DeadlinesInv => DeadlineFromStart
  BY DEF DeadlinesInv, StartInv, DeadlineFromStart
<1> QED BY <1>1, TimeInvariance, PTL

(* The earlier of the two deadlines ends a wait, and its owner is known.    *)
THEOREM EarlierDeadlineEnds == TimeSpec => []EarlierDeadline
<1>1. DeadlinesInv => EarlierDeadline
  BY DEF DeadlinesInv
<1> QED BY <1>1, TimeInvariance, PTL

(* A wait expires when its deadline has passed, and at the earliest in the  *)
(* microsecond of it, in spite of the carry that TimeAdd leaves undone.     *)
THEOREM WaitsExpireInTime == TimeSpec => []ExpiresInTime
<1>1. DeadlinesInv => ExpiresInTime
  <2> SUFFICES ASSUME DeadlinesInv, stage = "wait", wdTime.tv_sec >= 0
               PROVE  /\ Micros(wdTime) < clock => TimeLeft.tv_sec < 0
                      /\ TimeLeft.tv_sec < 0 => Micros(wdTime) <= clock
    BY DEF ExpiresInTime
  <2> DEFINE current == TimeGetCurrent
  <2>1. /\ current \in kwsysProcessTime /\ current.tv_usec \in 0..(Second - 1) /\ current.tv_sec >= 0
        /\ Micros(current) = clock /\ wdTime \in kwsysProcessTime /\ clock \in Nat
    BY CurrentTime, TimeAssumption DEF DeadlinesInv, TimeTypeOK, NotNegative, Proper, kwsysProcessTime
  <2>2. /\ wdTime.tv_usec <= Second
        /\ wdTime.tv_usec < 0 => wdTime.tv_sec * Second <= clock
    BY DEF DeadlinesInv, DeadlineInv, Waiting
  <2> HIDE DEF current
  <2>3. TimeLeft \in kwsysProcessTime /\ Micros(TimeLeft) = Micros(wdTime) - clock
    BY <2>1, SubtractExact DEF TimeLeft, current
  <2>4. TimeLeft.tv_usec <= Second
    BY <2>1, <2>2, TimeAssumption DEF TimeLeft, TimeSubtract, Time, current, kwsysProcessTime
  <2>5. TimeLeft.tv_sec < 0 => Micros(wdTime) <= clock
    <3>1. TimeLeft.tv_sec < 0 => TimeLeft.tv_sec * Second <= -1 * Second
      BY <2>3, Monotone, TimeAssumption DEF kwsysProcessTime
    <3>2. Micros(wdTime) \in Int
      BY <2>1, TimeAssumption DEF Micros, kwsysProcessTime
    <3> QED BY <2>1, <2>3, <2>4, <3>1, <3>2, TimeAssumption DEF Micros, kwsysProcessTime
  <2>6. ASSUME Micros(wdTime) < clock PROVE TimeLeft.tv_sec < 0
    <3>1. CASE wdTime.tv_usec < 0
      <4>1. wdTime.tv_sec <= current.tv_sec
        <5>1. wdTime.tv_sec > current.tv_sec =>
                (current.tv_sec + 1) * Second <= wdTime.tv_sec * Second
          BY <2>1, Monotone, TimeAssumption DEF kwsysProcessTime
        <5>2. (current.tv_sec + 1) * Second = current.tv_sec * Second + Second
          BY <2>1, Distribute, TimeAssumption DEF kwsysProcessTime
        <5> QED BY <2>1, <2>2, <3>1, <5>1, <5>2, TimeAssumption DEF Micros, kwsysProcessTime
      <4> QED BY <2>1, <3>1, <4>1, TimeAssumption
              DEF TimeLeft, TimeSubtract, Time, current, kwsysProcessTime
    <3>2. CASE wdTime.tv_usec >= 0
      <4>1. TimeLeft.tv_usec >= 0
        BY <2>1, <3>2, TimeAssumption DEF TimeLeft, TimeSubtract, Time, current, kwsysProcessTime
      <4>2. TimeLeft.tv_sec >= 0 => TimeLeft.tv_sec * Second >= 0 * Second
        BY <2>3, Monotone, TimeAssumption DEF kwsysProcessTime
      <4>3. Micros(wdTime) \in Int
        BY <2>1, TimeAssumption DEF Micros, kwsysProcessTime
      <4> QED BY <2>1, <2>3, <2>6, <4>1, <4>2, <4>3, TimeAssumption
              DEF Micros, kwsysProcessTime
    <3> QED BY <2>1, <3>1, <3>2 DEF kwsysProcessTime
  <2> QED BY <2>5, <2>6
<1> QED BY <1>1, TimeInvariance, PTL
=============================================================================
