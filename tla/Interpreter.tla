---------------------------- MODULE Interpreter ----------------------------
(* The execution of list files by cmMakefile: ReadListFile, ExecuteCommand, *)
(* the function blockers of foreach, while, if, function and macro, the     *)
(* scopes of variables and the policy stack, over a directory "top" that    *)
(* may add one subdirectory "sub".                                          *)
(*                                                                          *)
(* The calls of the C++ code that are in progress are the frames, outermost *)
(* first.  A command is a record with its name in op; an opening command    *)
(* has its first argument in arg (the variable of a loop or condition, the  *)
(* name of a function), a closing command the set of its arguments in args. *)
(* Diagnostics, the cache, the expansion of arguments and the arguments of  *)
(* functions are left out; conditions are single variables.                 *)
EXTENDS Naturals, Sequences, FiniteSets, SequencesExt, FiniteSetsExt

CONSTANTS Programs,   \* records: files maps the name of a file to its commands
          Variables   \* the variables the programs use

VARIABLES program,    \* the list files of the project
          frames,     \* the calls in progress
          outcome,    \* status of the command that just ended, or Busy
          makefiles,  \* the cmMakefile of each directory
          commands,   \* functions and macros: newest definition first
          fatal,      \* cmSystemTools::s_FatalErrorOccured
          log,        \* what the plain commands have done, in order
          created,    \* number of function blockers created so far
          dangling    \* a running blocker has been deleted: undefined from here

vars == <<program, frames, outcome, makefiles, commands, fatal, log, created,
          dangling>>

Directories == {"top", "sub"}
Loops == {"foreach", "while"}
Openers == Loops \union {"if", "function", "macro"}
EndOf == [foreach |-> "endforeach", while |-> "endwhile", if |-> "endif",
          function |-> "endfunction", macro |-> "endmacro"]
Busy == {"busy"}

(* What is assumed of the list files: each directory has one, what they set *)
(* and test are the variables given, "list" not among them, and an          *)
(* undefined value is not the name of a file.                               *)
Truths == {"undef", "off", "on"}
Commands ==
  {c \in [op : STRING, arg : STRING, val : STRING, args : SUBSET STRING,
          items : Seq(Truths)] :
     /\ c.op \in Loops \union {"if", "elseif", "set", "raise"} => c.arg \in Variables
     /\ c.op \in {"set", "raise"} => c.val \in Truths}
FileNames == UNION {DOMAIN p.files : p \in Programs}

ASSUME VariablesAssumption == "list" \notin Variables

ASSUME ProgramsAssumption ==
  \A p \in Programs :
    /\ Directories \subseteq DOMAIN p.files
    /\ \A n \in DOMAIN p.files : n # "undef" /\ p.files[n] \in Seq(Commands)

(* cmFunctionHelperCommand, cmMacroHelperCommand, the blockers and          *)
(* ReadListFile each look at some parts of the status of the command they   *)
(* have executed, and hand some of them to their own caller.                *)
StopsAt == [file |-> {"return"}, function |-> {"error", "return"},
            macro |-> {"error", "return", "break"},
            foreach |-> {"return", "break"}, while |-> {"return", "break"},
            if |-> {"return", "break"}]
Passes == [file |-> {}, function |-> {"error"},
           macro |-> {"error", "return", "break"},
           foreach |-> {"return"}, while |-> {"return"},
           if |-> {"return", "break"}]

(* A list of commands whose blocks are closed: end has the position of the  *)
(* closing command of each opening one.  Blocks do not overlap, no closing  *)
(* command is left over, and an else belongs to no block other than an if.  *)
Opens(B) == {j \in DOMAIN B : B[j].op \in Openers}
Nested(B, end) ==
  /\ end \in [Opens(B) -> DOMAIN B]
  /\ \A j \in Opens(B) :
       /\ j < end[j]
       /\ B[end[j]].op = EndOf[B[j].op] /\ B[end[j]].args \subseteq {B[j].arg}
       /\ \A k \in Opens(B) : j < k /\ k < end[j] => end[k] < end[j]
  /\ \A c \in DOMAIN B : B[c].op \in {EndOf[o] : o \in Openers} =>
       \E j \in Opens(B) : end[j] = c
  /\ \A e \in DOMAIN B, j \in Opens(B) :
       B[e].op \in {"else", "elseif"} /\ j < e /\ e < end[j] /\ B[j].op # "if" =>
         \E k \in Opens(B) : j < k /\ k < e /\ e < end[k]

---------------------------------------------------------------------------
(* The cmMakefile of a directory: DefinitionStack, FunctionBlockers,        *)
(* PolicyStack (its size) and ListFileStack.  The variable "list" stands    *)
(* for CMAKE_CURRENT_LIST_FILE; an undefined value is "undef", an empty or  *)
(* false one is "off".                                                      *)
NewMakefile(scope) == [scopes |-> <<scope>>, blockers |-> <<>>,
                       policies |-> 1, files |-> <<>>]
NoVariables == [v \in Variables \union {"list"} |-> "undef"]

Value(m, v) == Last(m.scopes)[v]
SafeValue(m, v) == IF Value(m, v) = "undef" THEN "off" ELSE Value(m, v)
AddDefinition(m, v, x) == [m EXCEPT !.scopes[Len(m.scopes)][v] = x]
PushScope(m) == [m EXCEPT !.scopes = Append(@, Last(@))]
PopScope(m) == [m EXCEPT !.scopes = Front(@)]

Frame(op, d, body) ==
  [op |-> op, dir |-> d, body |-> body, i |-> 1, id |-> 0, arg |-> "",
   closer |-> "", items |-> <<>>, saved |-> "", blocking |-> FALSE,
   hasRun |-> FALSE]

Current == Last(frames)
Command == Current.body[Current.i]
Makefile == makefiles[Current.dir]
AtEnd == Current.i > Len(Current.body)
Replace(f) == frames' = Append(Front(frames), f)
SetMakefile(m) == makefiles' = [makefiles EXCEPT ![Current.dir] = m]

---------------------------------------------------------------------------
(* Function blockers.  IsFunctionBlocked asks them from the newest to the   *)
(* oldest, and only those that are not executing answer.                    *)
Recording == {k \in DOMAIN Makefile.blockers : ~Makefile.blockers[k].running}
Blocked == Recording # {}
Recorder == Max(Recording)

Closes_AnyDepth(c, b) == c.op = EndOf[b.op]
Closes(c, b) == c.op = EndOf[b.op] /\ b.depth = 0
ShouldRemove(c, b) == c.op = EndOf[b.op] /\ c.args \subseteq {b.arg}

Removable(m, c) == {k \in DOMAIN m.blockers : ShouldRemove(c, m.blockers[k])}
RemoveFunctionBlocker(m, c) ==
  IF Removable(m, c) = {} THEN m
  ELSE [m EXCEPT !.blockers = RemoveAt(@, Max(Removable(m, c)))]

(* The removal deletes the object whose IsFunctionBlocked is being executed *)
(* further out.                                                             *)
DeletesRunning(m, c, id) ==
  /\ Removable(m, c) # {}
  /\ LET b == m.blockers[Max(Removable(m, c))] IN b.running /\ b.id # id

(* Number of blocks of if that are open in the body of an executing if.     *)
IfDepth(f) ==
  Cardinality({k \in 1..f.i : f.body[k].op = "if"})
    - Cardinality({k \in 1..f.i : f.body[k].op = "endif"})
IsSwitch(f) == f.op = "if" /\ IfDepth(f) = 0 /\ f.body[f.i].op \in {"else", "elseif"}

(* The calls are in progress and nothing undefined has happened.            *)
Alive == frames # <<>> /\ ~dangling

(* The next command of the current frame is given to ExecuteCommand.        *)
Executing == /\ Alive /\ outcome = Busy /\ ~AtEnd
             /\ ~IsSwitch(Current) /\ ~Current.blocking

Record ==
  /\ Executing /\ Blocked
  /\ LET b == Makefile.blockers[Recorder] IN
     /\ ~Closes(Command, b)
     /\ SetMakefile([Makefile EXCEPT !.blockers[Recorder] =
          [b EXCEPT !.body = Append(@, Command),
                    !.depth = CASE Command.op = b.op -> @ + 1
                                [] Command.op = EndOf[b.op] -> @ - 1
                                [] OTHER -> @]])
  /\ outcome' = {}
  /\ UNCHANGED <<program, frames, commands, fatal, log, created, dangling>>

(* The end of a function or macro: RenameCommand keeps the last definition  *)
(* as _name, then the new one is added.                                     *)
Define ==
  /\ Executing /\ Blocked
  /\ LET b == Makefile.blockers[Recorder]
         new == [op |-> b.op, body |-> b.body]
         old == IF b.arg \in DOMAIN commands THEN <<commands[b.arg][1]>> ELSE <<>>
     IN /\ Closes(Command, b) /\ b.op \in {"function", "macro"}
        /\ commands' = [n \in DOMAIN commands \union {b.arg} |->
                          IF n = b.arg THEN <<new>> \o old ELSE commands[n]]
        /\ SetMakefile(RemoveFunctionBlocker(Makefile, Command))
  /\ outcome' = {}
  /\ UNCHANGED <<program, frames, fatal, log, created, dangling>>

(* The end of foreach, while or if: the recorded commands are executed.  A  *)
(* loop starts as at the end of a turn.                                     *)
RunBlock ==
  /\ Executing /\ Blocked
  /\ LET b == Makefile.blockers[Recorder]
         start == IF b.op = "if" THEN 1 ELSE Len(b.body) + 1
     IN /\ Closes(Command, b) /\ b.op \in Loops \union {"if"}
        /\ SetMakefile([Makefile EXCEPT !.blockers[Recorder].running = TRUE])
        /\ frames' = Append(frames,
             [Frame(b.op, Current.dir, b.body) EXCEPT !.i = start, !.id = b.id,
                !.arg = b.arg, !.closer = Command, !.items = b.items,
                !.saved = SafeValue(Makefile, b.arg),
                !.blocking = b.op = "if" /\ ~b.holds, !.hasRun = b.holds])
  /\ UNCHANGED <<program, outcome, commands, fatal, log, created, dangling>>

(* else and elseif of an executing if, and the commands it skips.           *)
Switch ==
  /\ Alive /\ outcome = Busy /\ ~AtEnd
  /\ \/ IsSwitch(Current)
     \/ Current.blocking
  /\ LET f == Current
         chosen == ~f.hasRun /\ (Command.op = "else" \/ Value(Makefile, Command.arg) = "on")
     IN IF ~IsSwitch(f)
          THEN Replace([f EXCEPT !.i = @ + 1])
          ELSE Replace([f EXCEPT !.i = @ + 1,
                 !.blocking = IF f.hasRun THEN TRUE ELSE @ /\ ~chosen,
                 !.hasRun = @ \/ chosen])
  /\ UNCHANGED <<program, outcome, makefiles, commands, fatal, log, created, dangling>>

---------------------------------------------------------------------------
(* Commands that are invoked.                                               *)
Invoked(ops) == Executing /\ ~Blocked /\ ~fatal /\ Command.op \in ops

NotInvoked ==           \* after a fatal error
  /\ Executing /\ ~Blocked /\ fatal
  /\ outcome' = {}
  /\ UNCHANGED <<program, frames, makefiles, commands, fatal, log, created, dangling>>

OpenBlock ==
  /\ Invoked(Openers)
  /\ SetMakefile([Makefile EXCEPT !.blockers = Append(@,
       [op |-> Command.op, arg |-> Command.arg, items |-> Command.items,
        id |-> created + 1, depth |-> 0, running |-> FALSE, body |-> <<>>,
        holds |-> Command.op = "if" /\ Value(Makefile, Command.arg) = "on"])])
  /\ created' = created + 1
  /\ outcome' = {}
  /\ UNCHANGED <<program, frames, commands, fatal, log, dangling>>

(* A closing command without its block, or a message, at worst fatal.       *)
Fail ==
  /\ Invoked({"endforeach", "endwhile", "endif", "endfunction", "endmacro",
              "else", "elseif", "send_error", "fatal_error"})
  /\ fatal' = (Command.op = "fatal_error")
  /\ outcome' = {"error"}
  /\ UNCHANGED <<program, frames, makefiles, commands, log, created, dangling>>

Plain ==
  /\ Invoked({"log"})
  /\ log' = Append(log, Command.arg)
  /\ outcome' = {}
  /\ UNCHANGED <<program, frames, makefiles, commands, fatal, created, dangling>>

Leap ==                 \* cmReturnCommand, cmBreakCommand
  /\ Invoked({"return", "break"})
  /\ outcome' = {Command.op}
  /\ UNCHANGED <<program, frames, makefiles, commands, fatal, log, created, dangling>>

Set ==
  /\ Invoked({"set"})
  /\ SetMakefile(AddDefinition(Makefile, Command.arg, Command.val))
  /\ outcome' = {}
  /\ UNCHANGED <<program, frames, commands, fatal, log, created, dangling>>

(* set(... PARENT_SCOPE): the scope below, or the parent's top scope.       *)
RaiseScope ==
  /\ Invoked({"raise"})
  /\ LET n == Len(Makefile.scopes) IN
       IF n > 1
         THEN SetMakefile([Makefile EXCEPT !.scopes[n - 1][Command.arg] = Command.val])
         ELSE makefiles' = IF Current.dir = "top" THEN makefiles
                           ELSE [makefiles EXCEPT !["top"] =
                                   AddDefinition(@, Command.arg, Command.val)]
  /\ outcome' = {}
  /\ UNCHANGED <<program, frames, commands, fatal, log, created, dangling>>

Policy ==
  /\ Invoked({"push", "pop"})
  /\ IF Command.op = "pop" /\ Makefile.policies = 1
       THEN outcome' = {"error"} /\ UNCHANGED makefiles
       ELSE /\ outcome' = {}
            /\ SetMakefile([Makefile EXCEPT !.policies =
                 IF Command.op = "push" THEN @ + 1 ELSE @ - 1])
  /\ UNCHANGED <<program, frames, commands, fatal, log, created, dangling>>

(* A function pushes a scope, a macro does not; a name nothing is defined   *)
(* for is a fatal error.  "_call" calls the definition before the last.     *)
Call ==
  /\ Invoked({"call", "_call"})
  /\ LET n == Command.arg
         which == IF Command.op = "call" THEN 1 ELSE 2
     IN IF n \in DOMAIN commands /\ which \in DOMAIN commands[n]
          THEN LET p == commands[n][which] IN
               /\ frames' = Append(frames, Frame(p.op, Current.dir, p.body))
               /\ SetMakefile(IF p.op = "function" THEN PushScope(Makefile) ELSE Makefile)
               /\ UNCHANGED <<outcome, fatal>>
          ELSE /\ fatal' = TRUE
               /\ outcome' = {"error"}
               /\ UNCHANGED <<frames, makefiles>>
  /\ UNCHANGED <<program, commands, log, created, dangling>>

(* ReadListFile up to its loop.                                             *)
Enter(m, name) == [AddDefinition(m, "list", name) EXCEPT !.files = Append(@, name)]
FileFrame(d, m, name) ==
  [Frame("file", d, program.files[name]) EXCEPT !.saved = SafeValue(m, "list")]

Include ==
  /\ Invoked({"include"})
  /\ IF Command.arg \in DOMAIN program.files
       THEN /\ frames' = Append(frames, FileFrame(Current.dir, Makefile, Command.arg))
            /\ SetMakefile(Enter(Makefile, Command.arg))
            /\ UNCHANGED outcome
       ELSE /\ outcome' = {"error"}
            /\ UNCHANGED <<frames, makefiles>>
  /\ UNCHANGED <<program, commands, fatal, log, created, dangling>>

(* A directory is added once; it starts with the variables its parent has   *)
(* at that time.                                                            *)
AddSubDirectory ==
  /\ Invoked({"add_subdirectory"})
  /\ IF "sub" \in DOMAIN makefiles
       THEN outcome' = {} /\ UNCHANGED <<frames, makefiles>>
       ELSE LET m == NewMakefile(Last(Makefile.scopes)) IN
            /\ frames' = Append(frames, FileFrame("sub", m, "sub"))
            /\ makefiles' = [d \in Directories |->
                               IF d = "sub" THEN Enter(m, "sub") ELSE makefiles[d]]
            /\ UNCHANGED outcome
  /\ UNCHANGED <<program, commands, fatal, log, created, dangling>>

---------------------------------------------------------------------------
(* The loops of the C++ code over the commands of a frame.                  *)
Stopped == \/ outcome \intersect StopsAt[Current.op] # {}
           \/ Current.op = "file" /\ fatal

Advance ==
  /\ Alive /\ outcome # Busy /\ ~Stopped
  /\ Replace([Current EXCEPT !.i = @ + 1])
  /\ outcome' = Busy
  /\ UNCHANGED <<program, makefiles, commands, fatal, log, created, dangling>>

AnotherTurn == \/ Current.op = "foreach" /\ Current.items # <<>>
               \/ Current.op = "while" /\ Value(Makefile, Current.arg) = "on"

Repeat ==
  /\ Alive /\ outcome = Busy /\ AtEnd /\ AnotherTurn
  /\ Replace([Current EXCEPT !.i = 1, !.items = IF @ = <<>> THEN @ ELSE Tail(@)])
  /\ IF Current.op = "foreach"
       THEN SetMakefile(AddDefinition(Makefile, Current.arg, Head(Current.items)))
       ELSE UNCHANGED makefiles
  /\ UNCHANGED <<program, outcome, commands, fatal, log, created, dangling>>

(* The end of ReadListFile, with EnforceDirectoryLevelRules.                *)
LeaveFile_Early(f, m) ==
  [IF outcome = Busy THEN AddDefinition(m, "list", f.saved) ELSE m EXCEPT
     !.files = Front(@), !.policies = IF Len(m.files) = 1 THEN 1 ELSE @]
LeaveFile(f, m) ==
  [AddDefinition(m, "list", f.saved) EXCEPT !.files = Front(@),
     !.policies = IF Len(m.files) = 1 THEN 1 ELSE @]

(* The end of a function: its scope stays when a command of it has failed.  *)
LeaveFunction_Return(m) == IF outcome # Busy THEN m ELSE PopScope(m)
LeaveFunction(m) == IF "error" \in outcome THEN m ELSE PopScope(m)

LeaveBlock(f, m) ==
  RemoveFunctionBlocker(IF f.op = "foreach" THEN AddDefinition(m, f.arg, f.saved) ELSE m,
                        f.closer)

Leave ==
  /\ Alive
  /\ IF outcome = Busy THEN AtEnd /\ ~AnotherTurn ELSE Stopped
  /\ frames' = Front(frames)
  /\ outcome' = IF Len(frames) = 1 THEN Busy ELSE outcome \intersect Passes[Current.op]
  /\ SetMakefile(CASE Current.op = "file"     -> LeaveFile(Current, Makefile)
                   [] Current.op = "function" -> LeaveFunction(Makefile)
                   [] Current.op = "macro"    -> Makefile
                   [] OTHER                   -> LeaveBlock(Current, Makefile))
  /\ dangling' = (/\ Current.op \in Loops \union {"if"}
                  /\ DeletesRunning(Makefile, Current.closer, Current.id))
  /\ UNCHANGED <<program, commands, fatal, log, created>>

---------------------------------------------------------------------------
Init ==
  /\ program \in Programs
  /\ makefiles = [d \in {"top"} |-> Enter(NewMakefile(NoVariables), "top")]
  /\ frames = <<FileFrame("top", NewMakefile(NoVariables), "top")>>
  /\ outcome = Busy
  /\ commands = <<>>
  /\ fatal = FALSE
  /\ log = <<>>
  /\ created = 0
  /\ dangling = FALSE

Next ==
  \/ Record \/ Define \/ RunBlock \/ Switch
  \/ NotInvoked \/ OpenBlock \/ Fail \/ Plain \/ Leap \/ Set \/ RaiseScope
  \/ Policy \/ Call \/ Include \/ AddSubDirectory
  \/ Advance \/ Repeat \/ Leave

Spec == Init /\ [][Next]_vars

(* One thread runs the interpreter and nothing makes it wait.               *)
FairSpec == Spec /\ WF_vars(Next)

---------------------------------------------------------------------------
(* Properties.                                                              *)
TypeOK ==
  /\ outcome = Busy \/ outcome \subseteq {"return", "break", "error"}
  /\ \A k \in DOMAIN frames :
       /\ frames[k].op \in DOMAIN StopsAt
       /\ frames[k].dir \in DOMAIN makefiles
       /\ frames[k].i \in 1..(Len(frames[k].body) + 1)
  /\ {"top"} \subseteq DOMAIN makefiles /\ DOMAIN makefiles \subseteq Directories
  /\ \A d \in DOMAIN makefiles :
       /\ makefiles[d].scopes \in Seq([Variables \union {"list"} -> Truths \union FileNames])
       /\ makefiles[d].scopes # <<>>
       /\ makefiles[d].policies \in Nat \ {0}
       /\ makefiles[d].files \in Seq(FileNames)
  /\ fatal \in BOOLEAN /\ dangling \in BOOLEAN
  /\ created \in Nat

Frames(d, ops) == {k \in DOMAIN frames : frames[k].dir = d /\ frames[k].op \in ops}

(* CMAKE_CURRENT_LIST_FILE is the file being processed, as its              *)
(* documentation promises: in whatever scope, after every include, return,  *)
(* function and failure (cmMakefile::ReadListFile restores it).             *)
ListFileKnown ==
  \A d \in DOMAIN makefiles :
    makefiles[d].files # <<>> =>
      Value(makefiles[d], "list") = Last(makefiles[d].files)

(* The calls in progress and the state they leave behind agree: one scope   *)
(* for each function call and one list file for each file being read.  A    *)
(* directory that has been processed has the one policy level it began      *)
(* with, which the destructor of cmMakefile checks.                         *)
ScopesNest ==
  \A d \in DOMAIN makefiles :
    LET m == makefiles[d] IN
    /\ m.files = <<>> => m.policies = 1
    /\ Len(m.scopes) = 1 + Cardinality(Frames(d, {"function"}))
    /\ Len(m.files) = Cardinality(Frames(d, {"file"}))

(* Each block that executes is a running blocker, and a blocker that runs   *)
(* has its call in progress; inner ones are newer, as calls and as blockers.*)
BlocksNest ==
  \A d \in DOMAIN makefiles :
    LET blockers == makefiles[d].blockers
        calls == Frames(d, Loops \union {"if"})
    IN /\ {blockers[k].id : k \in {l \in DOMAIN blockers : blockers[l].running}}
             = {frames[k].id : k \in calls}
       /\ \A k, l \in DOMAIN blockers : k < l => blockers[k].id < blockers[l].id
       /\ \A k, l \in calls : k < l => frames[k].id < frames[l].id

(* No path out of a body (return, break, failure, fatal error) may leave a  *)
(* scope, a list file or a blocker behind, or take one that is not its own. *)
StateNests == ScopesNest /\ BlocksNest

(* message(FATAL_ERROR) and unknown commands end the processing.            *)
HaltsOnFatal == fatal ~> frames = <<>>
=============================================================================
