------------------------------- MODULE Cache --------------------------------
(* One variable as configuration sees it: its entry in the CMake cache, its *)
(* definition in the makefile, which hides the entry, the commands of a     *)
(* list file that change them, and the line CMakeCache.txt keeps of it.     *)
(* Values are sequences of pieces of text: a blank, a quote, a word.        *)
EXTENDS Naturals, Sequences

CONSTANTS
  Absent,  \* no entry, no definition, no line
  On, Off, \* the words ON and OFF
  Blank,   \* a blank or a tab
  Quote    \* a single quote

Pieces == {On, Off, Blank, Quote}
ASSUME DifferentPieces ==
  /\ On \notin {Off, Blank, Quote} /\ Off \notin {Blank, Quote} /\ Blank # Quote
  /\ Absent \notin Pieces

Types == {"UNINITIALIZED", "STRING", "BOOL", "INTERNAL"}
Advanced == {"unset", "0", "1"}
Values == Seq(Pieces)

(* CacheEntry: set is Initialized, a value has been given.                  *)
Entry == [type : Types, value : Values, set : BOOLEAN, advanced : Advanced]
(* What is written of an entry, of the variable and of its -ADVANCED.       *)
Line == [type : Types, text : Values, advanced : Advanced]
ASSUME AbsentIsNothingElse == Absent \notin Entry /\ Absent \notin Line /\ Absent \notin Values

IsOn(v) == v = <<On>>
OnOff(b) == IF b THEN <<On>> ELSE <<Off>>

-----------------------------------------------------------------------------
(* The value in the cache file.                                             *)

EndsInBlank(v) == v # <<>> /\ v[Len(v)] = Blank

(* SaveCache encloses a value that ends in a blank in single quotes.        *)
Written(v) == IF EndsInBlank(v) THEN <<Quote>> \o v \o <<Quote>> ELSE v

(* ParseEntry drops the blanks at the end, unless there is nothing else,    *)
(* and then the quotes around what is left.                                 *)
Trimmed(text) ==
  LET solid == {i \in 1..Len(text) : text[i] # Blank}
  IN IF solid = {} THEN text
     ELSE SubSeq(text, 1, CHOOSE i \in solid : \A j \in solid : j <= i)
InQuotes(v) == Len(v) >= 2 /\ v[1] = Quote /\ v[Len(v)] = Quote
Parsed(text) ==
  LET v == Trimmed(text) IN IF InQuotes(v) THEN SubSeq(v, 2, Len(v) - 1) ELSE v

(* SaveCache leaves out an entry without value.                             *)
Saved(entry) ==
  IF entry = Absent THEN Absent
  ELSE IF ~entry.set THEN Absent
  ELSE [type |-> entry.type, text |-> Written(entry.value), advanced |-> entry.advanced]

(* Mistake: the entry is not marked as initialized.                         *)
Loaded_NotSet(line) ==
  IF line = Absent THEN Absent
  ELSE [type |-> line.type, value |-> Parsed(line.text), set |-> FALSE,
        advanced |-> line.advanced]

(* LoadCache.  The -ADVANCED line of an internal entry comes first, and the *)
(* entry replaces what it has made.                                         *)
Loaded(line) ==
  IF line = Absent THEN Absent
  ELSE [type |-> line.type, value |-> Parsed(line.text), set |-> TRUE,
        advanced |-> IF line.type = "INTERNAL" THEN "unset" ELSE line.advanced]

-----------------------------------------------------------------------------
(* The operations on the cache.                                             *)

(* cmCacheManager::AddCacheEntry: the properties of the entry stay.         *)
AddCacheEntry(entry, type, v) ==
  [type |-> type, value |-> v, set |-> TRUE,
   advanced |-> IF entry = Absent THEN "unset" ELSE entry.advanced]

Typed(entry) == entry # Absent /\ entry.type # "UNINITIALIZED"
(* A value whose type nobody has said yet: from -DX=v.                      *)
Given(entry) == entry # Absent /\ entry.type = "UNINITIALIZED" /\ entry.set

(* Mistake: the value of the list file wins.                                *)
AddCacheDefinition_Replaces(x, type, v) ==
  [entry |-> AddCacheEntry(x.entry, type, v), definition |-> Absent]

(* The two cmMakefile::AddCacheDefinition: a value given without a type is  *)
(* kept, whatever is added.                                                 *)
AddCacheDefinition(x, type, v) ==
  [entry |-> AddCacheEntry(x.entry, type, IF Given(x.entry) THEN x.entry.value ELSE v),
   definition |-> Absent]
AddBoolDefinition(x, b) ==
  LET v == OnOff(IF Given(x.entry) THEN IsOn(x.entry.value) ELSE b)
  IN [entry |-> AddCacheEntry(x.entry, "BOOL", v), definition |-> v]

(* cmMakefile::GetDefinition.                                               *)
GetDefinition(x) ==
  IF x.definition # Absent THEN x.definition
  ELSE IF x.entry = Absent THEN Absent
  ELSE IF x.entry.set THEN x.entry.value ELSE Absent

-----------------------------------------------------------------------------
(* The commands, and what they change.                                      *)

Variable == [entry : Entry \union {Absent}, definition : Values \union {Absent}]

Command ==
  [name : {"set"}, value : Values \union {Absent}]   \* set(X v), set(X)
    \union [name : {"cache"}, value : Values, type : Types \ {"UNINITIALIZED"},
            force : BOOLEAN]                         \* set(X v CACHE type "" FORCE)
    \union [name : {"option"}, value : Values \union {Absent}]
    \union [name : {"mark_as_advanced"}, how : {"plain", "CLEAR", "FORCE"}]
    \union [name : {"message"}]                      \* message(SEND_ERROR)

Overwrites(c) == c.name = "cache" /\ (c.force \/ c.type = "INTERNAL")

SetCommand(x, c) == [x EXCEPT !.definition = c.value]

SetCacheCommand(x, c) ==
  IF Typed(x.entry) /\ ~Overwrites(c) THEN x ELSE AddCacheDefinition(x, c.type, c.value)

OptionCommand(x, c) ==
  IF Typed(x.entry) THEN x
  ELSE AddBoolDefinition(x, c.value # Absent /\ IsOn(c.value))

MarkAsAdvancedCommand(x, c) ==
  LET entry == IF x.entry # Absent THEN x.entry
               ELSE [type |-> "UNINITIALIZED", value |-> <<>>, set |-> FALSE,
                     advanced |-> "unset"]
      mark == IF c.how = "CLEAR" THEN "0" ELSE "1"
      overwrite == c.how # "plain" \/ x.entry = Absent \/ entry.advanced = "unset"
  IN [x EXCEPT !.entry = [entry EXCEPT !.advanced = IF overwrite THEN mark ELSE @]]

Invoke(x, c) ==
  CASE c.name = "set" -> SetCommand(x, c)
    [] c.name = "cache" -> SetCacheCommand(x, c)
    [] c.name = "option" -> OptionCommand(x, c)
    [] c.name = "mark_as_advanced" -> MarkAsAdvancedCommand(x, c)
    [] c.name = "message" -> x

-----------------------------------------------------------------------------
(* cmake::SetCacheArgs: -DX=v, -DX:T=v, -UX.                                *)

Argument ==
  [name : {"-D"}, text : Values, type : Types] \union [name : {"-U", "none"}]

SetCacheArg(entry, arg) ==
  CASE arg.name = "-D" -> AddCacheEntry(entry, arg.type, Parsed(arg.text))
    [] arg.name = "-U" -> Absent
    [] arg.name = "none" -> entry
=============================================================================
