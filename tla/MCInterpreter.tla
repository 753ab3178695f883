--------------------------- MODULE MCInterpreter ---------------------------
(* Programs for Interpreter: nested blocks whose leaves are chosen from all *)
(* the statements that can end a body in a way of its own.                  *)
EXTENDS Interpreter, BlockLanguage

MCVariables == {"x", "y"}

LOCAL Log == Do("log", "a", "")
LOCAL On(v) == Do("set", v, "on")
LOCAL Off(v) == Do("set", v, "off")

(* Statements that end in each way.                                         *)
LOCAL Leaves == {Log, Do("return", "", ""), Do("break", "", ""), On("y"),
                 Do("send_error", "", ""), Do("call", "m", ""), Do("include", "inc", "")}
LOCAL Late == {Do("fatal_error", "", ""), Do("call", "none", ""), Do("include", "none", ""),
               Do("pop", "", "")}

LOCAL Both == <<"on", "off">>
LOCAL Mark(n) == Do("log", n, "")

LOCAL Project(top, m, f, inc, sub) ==
  [top |-> <<Macro("m", m), Function("f", f)>> \o top \o <<Mark("end")>>,
   inc |-> inc, sub |-> sub]

LOCAL Trees ==
  \* loops and conditions inside each other
  { Project(<<ForEach("x", Both, <<s, If("x", <<t, If("y", <<>>, "x", <<Mark("then")>>, <<>>)>>, "y", <<Mark("elseif")>>,
                                          <<u>>), Mark("turn")>>),
              Mark(v)>>, <<r>>, <<>>, <<w, Mark("inc")>>, <<>>)
      : s \in Leaves, t \in Leaves \union Late, u \in Leaves, v \in {"after"},
        r \in {Do("return", "", ""), Do("break", "", "")}, w \in {Log, Do("return", "", "")} }
  \union
  { Project(<<On("x"), While("x", <<ForEach("y", Both, <<s, ForEach("x", Both, <<t>>), Mark("inner")>>), Off("x"), u,
                                    Mark("outer")>>)>>,
            <<If("y", <<Do("break", "", "")>>, "x", <<Log>>, <<>>), Mark("m")>>, <<>>,
            <<ForEach("x", Both, <<Do("return", "", "")>>), Mark("inc")>>, <<>>)
      : s \in Leaves, t \in Leaves, u \in Leaves }
  \union
  \* functions, macros, scopes and directories
  { Project(<<Do("call", "f", ""), s, If("y", <<Mark("raised")>>, "x", <<t>>, <<Mark("no")>>)>>,
            <<u, Mark("m")>>,
            <<On("x"), ForEach("x", Both, <<v>>), Do("raise", "y", "on"), w, Mark("f")>>,
            <<Do("push", "", ""), Do("return", "", "")>>,
            <<Do("raise", "x", "on"), Do("push", "", ""), On("y"),
              IF t.op = "function" THEN Log ELSE t>>)
      : s \in {Log, Do("call", "f", ""), Do("add_subdirectory", "", "")},
        t \in {Log, Do("call", "f", ""), Do("return", "", ""), Do("fatal_error", "", ""),
               Function("f", <<Mark("new"), Do("_call", "f", "")>>)},
        u \in {Log, On("y"), Do("return", "", ""), Do("raise", "x", "on")},
        v \in {Log, Do("return", "", ""), Do("break", "", ""), Do("call", "m", ""),
               Do("add_subdirectory", "", "")},
        w \in {Log, Do("return", "", ""), Do("break", "", ""), Do("call", "m", ""),
               Do("include", "inc", "")} }

LOCAL Program(tree, named) == [files |-> [n \in DOMAIN tree |-> Flat(tree[n], named)],
                               tree |-> tree]

MCPrograms == {Program(tree, named) : tree \in Trees, named \in BOOLEAN}

(* A function whose include fails in another function, and a loop that ends *)
(* with a fatal error.                                                      *)
MCFailures ==
  {Program(Project(<<Function("g", <<Do("send_error", "", "")>>), Do("call", "f", ""),
                     On("x"), While("x", <<s, Off("x")>>)>>,
                   <<>>, <<Do("include", "inc", "")>>, <<Do("call", "g", "")>>, <<>>), TRUE)
     : s \in {Log, Do("fatal_error", "", "")}}

(* In all these list files every block is closed: the end of a block is the *)
(* first closing command with as many of its kind opened as closed since.   *)
LOCAL EndOfBlock(B) ==
  [j \in Opens(B) |->
     LET Since(op, c) == Cardinality({k \in j..c : B[k].op = op})
         closer == EndOf[B[j].op]
     IN Min({c \in (j + 1)..Len(B) :
               B[c].op = closer /\ Since(B[j].op, c) = Since(closer, c)})]

ASSUME BlocksAreClosed ==
  \A p \in MCPrograms \union MCFailures : \A n \in DOMAIN p.files :
    Nested(p.files[n], EndOfBlock(p.files[n]))

(* Recording and replaying blocks does what the documentation says of       *)
(* nested blocks: a project ends with the effects, in their order, and the  *)
(* variables that the meaning of its files has.                             *)
ExecutesAsWritten ==
  frames = <<>> =>
    LET meaning == Meaning(program.tree, Variables) IN
    /\ log = meaning.log
    /\ \A v \in Variables : Value(makefiles["top"], v) = meaning.vars[v]
=============================================================================
