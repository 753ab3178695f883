-------------------------- MODULE ProcessLifecycle --------------------------
(***************************************************************************)
(* What Source/kwsys/Process.h.in promises of a process object, without    *)
(* its pipes, signals and loops: the states of kwsysProcess_GetState and   *)
(* what each of them says about the children.                              *)
(***************************************************************************)
EXTENDS Naturals

CONSTANTS NumberOfCommands,  \* length of the pipeline
          HasTimeout,        \* a process timeout is set
          MayError           \* a system call may fail after the start

VARIABLES State,             \* kwsysProcess_GetState
          fate               \* what has become of each child

vars == <<State, fate>>
Cmds == 1..NumberOfCommands

\* How the last command ended decides between Exited and Exception.  The fate
\* of a child that was killed or never was ours is "lost", before its start "none".
Started == {"running", "detached", "exited", "signaled"}

Init == State = "Starting" /\ fate = [i \in Cmds |-> "none"]

\* kwsysProcess_New, or the beginning of kwsysProcess_Execute, which may fail.
Begin == /\ \A i \in Cmds : fate[i] # "running"
         /\ State' \in {"Starting", "Error"} /\ fate' = [i \in Cmds |-> "none"]

Fork(i) ==
  /\ State = "Starting" /\ fate[i] = "none" /\ \A j \in 1..(i-1) : fate[j] # "none"
  /\ \E f \in {"running", "detached", "exited", "lost"} :
       fate' = [fate EXCEPT ![i] = f]
  /\ UNCHANGED State

Start == /\ State = "Starting" /\ \A i \in Cmds : fate[i] # "none"
         /\ State' = "Executing" /\ UNCHANGED fate

\* A start that fails leaves no child behind.
Fail == /\ State # "Executing" /\ \A i \in Cmds : fate[i] \notin Started
        /\ State' = "Error" /\ UNCHANGED fate

Exit(i) == /\ \/ /\ fate[i] = "running"
                 /\ \E f \in {"exited", "signaled"} : fate' = [fate EXCEPT ![i] = f]
              \/ fate[i] = "detached" /\ fate' = [fate EXCEPT ![i] = "lost"]
           /\ UNCHANGED State

Kill(i) == /\ State \in {"Starting", "Executing"} /\ fate[i] \in Started
           /\ fate' = [fate EXCEPT ![i] = "lost"] /\ UNCHANGED State

\* No outcome is reported while a child of ours runs.
Finish ==
  /\ State = "Executing" /\ \A i \in Cmds : fate[i] # "running"
  /\ \/ State' = "Exited" /\ fate[NumberOfCommands] \in {"exited", "detached", "lost"}
     \/ State' = "Exception" /\ fate[NumberOfCommands] = "signaled"
     \/ State' = "Expired" /\ HasTimeout
     \/ State' = "Killed"
     \/ State' = "Error" /\ MayError
  /\ UNCHANGED fate

Disown == /\ State = "Executing" /\ \A i \in Cmds : fate[i] # "running"
          /\ State' = "Disowned" /\ UNCHANGED fate

Next == \/ Begin \/ Start \/ Fail \/ Finish \/ Disown
        \/ \E i \in Cmds : Fork(i) \/ Exit(i) \/ Kill(i)

Spec == Init /\ [][Next]_vars

=============================================================================
