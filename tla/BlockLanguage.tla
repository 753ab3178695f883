--------------------------- MODULE BlockLanguage ---------------------------
(* The language of list files as its documentation describes it: what a     *)
(* program of nested blocks means, by recursion over the blocks.  A block   *)
(* is a record with the blocks inside it; Flat writes it down as the list   *)
(* of commands that cmListFileCache reads.                                  *)
EXTENDS Naturals, Sequences, SequencesExt

LOCAL NoCommand == [op |-> "", arg |-> "", val |-> "", args |-> {}, items |-> <<>>]
Do(op, arg, val) == [NoCommand EXCEPT !.op = op, !.arg = arg, !.val = val]
Closer(op, args) == [NoCommand EXCEPT !.op = op, !.args = args]
ForEach(x, items, body) == [op |-> "foreach", arg |-> x, items |-> items, body |-> body]
While(x, body) == [op |-> "while", arg |-> x, items |-> <<>>, body |-> body]
Function(f, body) == [op |-> "function", arg |-> f, items |-> <<>>, body |-> body]
Macro(f, body) == [op |-> "macro", arg |-> f, items |-> <<>>, body |-> body]
If(x, body, y, elseifs, elses) ==
  [op |-> "if", arg |-> x, body |-> body, other |-> y, elseifs |-> elseifs, elses |-> elses]

(* The commands of a list of blocks; closing commands repeat the argument   *)
(* of the opening ones if named is TRUE.                                    *)
RECURSIVE Flat(_, _)
Flat(blocks, named) ==
  IF blocks = <<>> THEN <<>>
  ELSE LET b == Head(blocks)
           open == [NoCommand EXCEPT !.op = b.op, !.arg = b.arg,
                      !.items = IF b.op = "foreach" THEN b.items ELSE <<>>]
           end == Closer("end" \o b.op, IF named THEN {b.arg} ELSE {})
       IN (IF b.op \in {"foreach", "while", "function", "macro"}
             THEN <<open>> \o Flat(b.body, named) \o <<end>>
           ELSE IF b.op = "if"
             THEN <<open>> \o Flat(b.body, named)
                    \o <<Do("elseif", b.other, "")>> \o Flat(b.elseifs, named)
                    \o <<Do("else", b.arg, "")>> \o Flat(b.elses, named) \o <<end>>
           ELSE <<b>>) \o Flat(Tail(blocks), named)

---------------------------------------------------------------------------
(* An environment has the values of the variables, the values raised to the *)
(* scope above, the commands defined, what has been done, the files of the  *)
(* project, whether the subdirectory has been added, the open policy        *)
(* levels, and how the last statement ended.                                *)
Undisturbed(e, ignored) == IF e.end \in ignored THEN [e EXCEPT !.end = ""] ELSE e

RECURSIVE Run(_, _, _), Statement(_, _), Each(_, _, _), WhileOn(_, _)

(* Statements one after the other until one ends otherwise than normally;   *)
(* ends in ignored do not stop them.                                        *)
Run(blocks, ignored, e) ==
  IF blocks = <<>> \/ e.end # "" THEN e
  ELSE Run(Tail(blocks), ignored, Undisturbed(Statement(Head(blocks), e), ignored))

Each(b, items, e) ==
  IF items = <<>> THEN e
  ELSE LET after == Run(b.body, {"error"}, [e EXCEPT !.vars[b.arg] = Head(items)])
       IN IF after.end = "" THEN Each(b, Tail(items), after) ELSE after

WhileOn(b, e) ==
  IF e.vars[b.arg] # "on" THEN e
  ELSE LET after == Run(b.body, {"error"}, e)
       IN IF after.end = "" THEN WhileOn(b, after) ELSE after

(* A function or a subdirectory works on a copy of the variables; what it   *)
(* raises reaches the caller.                                               *)
LOCAL Inner(body, ignored, e) ==
  LET after == Run(body, ignored, [e EXCEPT !.up = <<>>])
  IN [after EXCEPT !.up = e.up,
        !.vars = [v \in DOMAIN e.vars |->
                    IF v \in DOMAIN after.up THEN after.up[v] ELSE e.vars[v]],
        !.end = IF @ \in {"return", "break"} THEN "" ELSE @]

LOCAL Ends(e, ends) == [e EXCEPT !.end = IF @ \in ends THEN "" ELSE @]

Statement(b, e) ==
  CASE b.op = "log" -> [e EXCEPT !.log = Append(@, b.arg)]
    [] b.op = "set" -> [e EXCEPT !.vars[b.arg] = b.val]
    [] b.op = "raise" ->
         [e EXCEPT !.up = [v \in DOMAIN @ \union {b.arg} |->
                             IF v = b.arg THEN b.val ELSE @[v]]]
    [] b.op \in {"return", "break"} -> [e EXCEPT !.end = b.op]
    [] b.op = "send_error" -> [e EXCEPT !.end = "error"]
    [] b.op = "fatal_error" -> [e EXCEPT !.end = "fatal"]
    [] b.op = "push" -> [e EXCEPT !.policies = @ + 1]
    [] b.op = "pop" -> IF e.policies = 1 THEN [e EXCEPT !.end = "error"]
                       ELSE [e EXCEPT !.policies = @ - 1]
    [] b.op = "foreach" ->
         LET after == Each(b, b.items, e)
             old == IF e.vars[b.arg] = "undef" THEN "off" ELSE e.vars[b.arg]
         IN Ends([after EXCEPT !.vars[b.arg] = old], {"break"})
    [] b.op = "while" -> Ends(WhileOn(b, e), {"break"})
    [] b.op = "if" ->
         Run(IF e.vars[b.arg] = "on" THEN b.body
             ELSE IF e.vars[b.other] = "on" THEN b.elseifs ELSE b.elses, {"error"}, e)
    [] b.op \in {"function", "macro"} ->
         [e EXCEPT !.cmds = [n \in DOMAIN @ \union {b.arg} |->
                               IF n # b.arg THEN @[n]
                               ELSE <<b>> \o (IF n \in DOMAIN @ THEN @[n] ELSE <<>>)]]
    [] b.op \in {"call", "_call"} ->
         LET which == IF b.op = "call" THEN 1 ELSE 2 IN
         IF b.arg \notin DOMAIN e.cmds \/ which > Len(e.cmds[b.arg])
           THEN [e EXCEPT !.end = "fatal"]
         ELSE IF e.cmds[b.arg][which].op = "macro"
           THEN Run(e.cmds[b.arg][which].body, {}, e)
         ELSE Inner(e.cmds[b.arg][which].body, {"break"}, e)
    [] b.op = "include" ->
         IF b.arg \notin DOMAIN e.files THEN [e EXCEPT !.end = "error"]
         ELSE Ends(Run(e.files[b.arg], {"break", "error"}, e), {"return"})
    [] b.op = "add_subdirectory" ->
         IF e.added THEN e
         ELSE LET after == Inner(e.files["sub"], {"break", "error"},
                                 [e EXCEPT !.added = TRUE, !.policies = 1])
              IN [after EXCEPT !.policies = e.policies]

(* The end of the top directory's list file.                                *)
Meaning(files, variables) ==
  Run(files["top"], {"break", "error"},
      [vars |-> [v \in variables |-> "undef"], up |-> <<>>, cmds |-> <<>>,
       log |-> <<>>, files |-> files, added |-> FALSE, policies |-> 1, end |-> ""])
=============================================================================
