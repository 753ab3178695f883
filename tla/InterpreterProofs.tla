------------------------- MODULE InterpreterProofs -------------------------
(* Proofs about Interpreter, for any list files and variables.              *)
EXTENDS Interpreter, FiniteSetTheorems, SequenceTheorems, WellFoundedInduction, TLAPS

(* What the sequence operators of the actions return.                       *)
LEMMA Pushed ==
  ASSUME NEW S, NEW s \in Seq(S), NEW e \in S, NEW t, t = Append(s, e)
  PROVE  /\ t \in Seq(S) /\ Len(s) \in Nat /\ Len(t) = Len(s) + 1
         /\ t[Len(t)] = e /\ Last(t) = e /\ t # <<>>
         /\ \A a \in 1..Len(s) : t[a] = s[a] /\ a # Len(t)
  BY AppendProperties, LenProperties DEF Last

LEMMA Popped ==
  ASSUME NEW S, NEW s \in Seq(S), s # <<>>, NEW t, t = Front(s)
  PROVE  /\ t \in Seq(S) /\ Len(s) \in Nat \ {0} /\ Len(t) = Len(s) - 1
         /\ \A a \in 1..Len(t) : t[a] = s[a]
<1>1. Len(s) \in Nat \ {0}
  BY EmptySeq
<1>2. \A a \in 1..(Len(s) - 1) : s[a] \in S
  BY <1>1, ElementOfSeq
<1> DEFINE n == Len(s) - 1
<1>3. n \in Nat /\ n = Len(s) - 1 /\ t = SubSeq(s, 1, n) /\ \A a \in 1..n : s[a] \in S
  BY <1>1, <1>2 DEF Front
<1> HIDE DEF n
<1>4. /\ SubSeq(s, 1, n) \in Seq(S)
      /\ Len(SubSeq(s, 1, n)) = IF 1 <= n THEN n - 1 + 1 ELSE 0
      /\ \A a \in 1..(n - 1 + 1) : SubSeq(s, 1, n)[a] = s[1 + a - 1]
  BY <1>3, SubSeqProperties
<1>5. t \in Seq(S) /\ Len(t) = n
  BY <1>3, <1>4
<1>6. \A a \in 1..n : 1 + a - 1 = a /\ a \in 1..(n - 1 + 1)
  BY <1>3
<1> QED BY <1>1, <1>3, <1>4, <1>5, <1>6

LEMMA LastOf ==
  ASSUME NEW S, NEW s \in Seq(S)
  PROVE  /\ Len(s) \in Nat /\ DOMAIN s = 1..Len(s)
         /\ \A a \in 1..Len(s) : s[a] \in S
         /\ s # <<>> <=> Len(s) > 0
         /\ s # <<>> => Last(s) = s[Len(s)] /\ Last(s) \in S /\ Len(s) \in 1..Len(s)
<1>1. /\ Len(s) \in Nat /\ DOMAIN s = 1..Len(s)
      /\ \A a \in 1..Len(s) : s[a] \in S
  BY LenProperties
<1>2. s # <<>> <=> Len(s) > 0
  BY <1>1, EmptySeq
<1> QED BY <1>1, <1>2 DEF Last

---------------------------------------------------------------------------
(* The number of calls of one kind for one directory among the first k.     *)
Count(F, d, op, k) == Cardinality({l \in 1..k : F[l].dir = d /\ F[l].op = op})

LEMMA Counted ==
  ASSUME NEW F, NEW d, NEW op, NEW k \in Nat
  PROVE  /\ Count(F, d, op, k) \in 0..k
         /\ Count(F, d, op, 0) = 0
         /\ Count(F, d, op, k + 1) =
              Count(F, d, op, k) + (IF F[k + 1].dir = d /\ F[k + 1].op = op THEN 1 ELSE 0)
<1> DEFINE C(n) == {l \in 1..n : F[l].dir = d /\ F[l].op = op}
<1>1. IsFiniteSet(1..k) /\ Cardinality(1..k) = k
  BY FS_Interval
<1>2. C(k) \subseteq 1..k
  OBVIOUS
<1>3. IsFiniteSet(C(k)) /\ Cardinality(C(k)) \in Nat /\ Cardinality(C(k)) <= k
  BY <1>1, <1>2, FS_Subset, FS_CardinalityType
<1>4. C(0) = {}
  OBVIOUS
<1>5. Count(F, d, op, 0) = 0
  BY <1>4, FS_EmptySet DEF Count
<1>6. k + 1 \notin C(k)
  OBVIOUS
<1>7. CASE F[k + 1].dir = d /\ F[k + 1].op = op
  <2>1. C(k + 1) = C(k) \cup {k + 1}
    BY <1>7
  <2>2. Cardinality(C(k + 1)) = Cardinality(C(k)) + 1
    BY <2>1, <1>3, <1>6, FS_AddElement
  <2> QED BY <2>2, <1>3, <1>5, <1>7 DEF Count
<1>8. CASE ~(F[k + 1].dir = d /\ F[k + 1].op = op)
  <2>1. C(k + 1) = C(k)
    BY <1>8
  <2> QED BY <2>1, <1>3, <1>5, <1>8 DEF Count
<1> QED BY <1>7, <1>8

LEMMA CountSame ==
  ASSUME NEW F, NEW G, NEW d, NEW op, NEW k \in Nat,
         \A l \in 1..k : F[l].dir = G[l].dir /\ F[l].op = G[l].op
  PROVE  Count(F, d, op, k) = Count(G, d, op, k)
<1>1. {l \in 1..k : F[l].dir = d /\ F[l].op = op} = {l \in 1..k : G[l].dir = d /\ G[l].op = op}
  OBVIOUS
<1> QED BY <1>1 DEF Count

LEMMA CountGrows ==
  ASSUME NEW F, NEW d, NEW op, NEW k \in Nat, NEW n \in Nat, k <= n
  PROVE  /\ Count(F, d, op, k) <= Count(F, d, op, n)
         /\ k < n /\ F[n].dir = d /\ F[n].op = op => Count(F, d, op, k) < Count(F, d, op, n)
<1> DEFINE C(m) == {l \in 1..m : F[l].dir = d /\ F[l].op = op}
<1>1. ASSUME NEW m \in Nat, k <= m
      PROVE  Count(F, d, op, k) <= Count(F, d, op, m)
  <2>1. IsFiniteSet(1..m)
    BY FS_Interval
  <2>2. C(m) \subseteq 1..m /\ C(k) \subseteq C(m)
    BY <1>1
  <2>3. IsFiniteSet(C(m))
    BY <2>1, <2>2, FS_Subset
  <2>4. Cardinality(C(k)) <= Cardinality(C(m))
    BY <2>2, <2>3, FS_Subset
  <2> QED BY <2>4 DEF Count
<1>2. ASSUME k < n, F[n].dir = d, F[n].op = op
      PROVE  Count(F, d, op, k) < Count(F, d, op, n)
  <2> DEFINE m == n - 1
  <2>1. m \in Nat /\ k <= m /\ n = m + 1
    BY <1>2
  <2> HIDE DEF m
  <2>2. Count(F, d, op, m) \in 0..m /\ Count(F, d, op, m + 1) = Count(F, d, op, m) + 1
    BY <2>1, <1>2, Counted
  <2>3. Count(F, d, op, k) \in 0..k /\ Count(F, d, op, k) <= Count(F, d, op, m)
    BY <2>1, <1>1, Counted
  <2> QED BY <2>1, <2>2, <2>3
<1> QED BY <1>1, <1>2

---------------------------------------------------------------------------
(* Types.  What a block tests and sets is one of the variables; a call that *)
(* is not a block has no closing command.                                   *)
Names == Variables \union {"list"}
Values == Truths \union FileNames
Blocks == Loops \union {"if"}
Scope == [Names -> Values]
Nothing == ""
Blocker ==
  {b \in [op : Openers, arg : STRING, items : Seq(Truths), id : Nat, depth : Nat,
          running : BOOLEAN, body : Seq(Commands), holds : BOOLEAN] :
     b.op \in Blocks => b.arg \in Variables}
Activation ==
  {f \in [op : Blocks \union {"file", "function", "macro"}, dir : Directories,
          body : Seq(Commands), i : Nat, id : Nat, arg : STRING \union {Nothing},
          closer : Commands \union {Nothing}, items : Seq(Truths), saved : Values \union {Nothing},
          blocking : BOOLEAN, hasRun : BOOLEAN] :
     /\ f.op \in Blocks => f.arg \in Variables /\ f.closer \in Commands
     /\ f.op \in Blocks \union {"file"} => f.saved \in Values}
Makefiles == [scopes : Seq(Scope), blockers : Seq(Blocker), policies : Nat \ {0},
              files : Seq(FileNames)]
Definition == [op : {"function", "macro"}, body : Seq(Commands)]

(* A makefile that has the same scopes and list files in progress.          *)
Like(m, n) ==
  /\ n \in Makefiles
  /\ Len(n.scopes) = Len(m.scopes)
  /\ \A q \in 1..Len(m.scopes) : n.scopes[q]["list"] = m.scopes[q]["list"]
  /\ n.files = m.files
  /\ m.files = <<>> => n.policies = m.policies

LEMMA TopScope ==
  ASSUME NEW m \in Makefiles, m.scopes # <<>>, NEW v \in Names
  PROVE  /\ Len(m.scopes) \in Nat \ {0} /\ DOMAIN m.scopes = 1..Len(m.scopes)
         /\ Last(m.scopes) = m.scopes[Len(m.scopes)]
         /\ \A q \in 1..Len(m.scopes) : m.scopes[q] \in Scope
         /\ Last(m.scopes) \in Scope
         /\ Value(m, v) \in Values /\ SafeValue(m, v) \in Values
<1>1. m.scopes \in Seq(Scope)
  BY DEF Makefiles
<1>2. /\ Len(m.scopes) \in Nat /\ DOMAIN m.scopes = 1..Len(m.scopes)
      /\ \A a \in 1..Len(m.scopes) : m.scopes[a] \in Scope
      /\ Len(m.scopes) > 0 /\ Last(m.scopes) = m.scopes[Len(m.scopes)]
      /\ Last(m.scopes) \in Scope
  BY <1>1, LastOf
<1>3. Value(m, v) \in Values
  BY <1>2 DEF Value, Scope
<1>4. SafeValue(m, v) \in Values
  BY <1>3 DEF SafeValue, Values, Truths
<1> QED BY <1>2, <1>3, <1>4

LEMMA ScopeChanged ==
  ASSUME NEW m \in Makefiles, NEW q \in 1..Len(m.scopes), NEW v \in Names, NEW x \in Values,
         NEW n, n = [m EXCEPT !.scopes[q][v] = x]
  PROVE  /\ n \in Makefiles /\ Len(n.scopes) = Len(m.scopes)
         /\ n.files = m.files /\ n.policies = m.policies /\ n.blockers = m.blockers
         /\ \A k \in 1..Len(m.scopes) : k # q => n.scopes[k] = m.scopes[k]
         /\ n.scopes[q] = [m.scopes[q] EXCEPT ![v] = x] /\ n.scopes[q][v] = x
<1> DEFINE s == m.scopes
           e == [s[q] EXCEPT ![v] = x]
           t == [s EXCEPT ![q] = e]
<1>1. s \in Seq(Scope) /\ q \in 1..Len(s) /\ s[q] \in Scope
  BY LastOf DEF Makefiles
<1>2. e \in Scope /\ e[v] = x
  BY <1>1 DEF Scope
<1>3. t \in Seq(Scope) /\ Len(t) = Len(s) /\ \A j \in 1..Len(s) : t[j] = IF j = q THEN e ELSE s[j]
  <2> HIDE DEF e, s
  <2> QED BY <1>1, <1>2, ExceptSeq
<1>4. n = [m EXCEPT !.scopes = t]
  OBVIOUS
<1> HIDE DEF t
<1>5. n \in Makefiles /\ n.scopes = t /\ n.files = m.files /\ n.policies = m.policies /\ n.blockers = m.blockers
  BY <1>3, <1>4 DEF Makefiles
<1>6. \A k \in 1..Len(s) : t[k] = IF k = q THEN e ELSE s[k]
  BY <1>3
<1> HIDE DEF e
<1>7. t[q] = e /\ \A k \in 1..Len(s) : k # q => t[k] = s[k]
  BY <1>1, <1>6
<1> QED BY <1>1, <1>2, <1>3, <1>5, <1>7 DEF e

LEMMA ScopeAlike ==
  ASSUME NEW m \in Makefiles, NEW q \in 1..Len(m.scopes), NEW v \in Variables, NEW x \in Values
  PROVE  /\ Like(m, [m EXCEPT !.scopes[q][v] = x])
         /\ [m EXCEPT !.scopes[q][v] = x].blockers = m.blockers
<1> DEFINE n == [m EXCEPT !.scopes[q][v] = x]
<1>1. v \in Names /\ v # "list" /\ "list" \in Names
  BY VariablesAssumption DEF Names
<1>2. /\ n \in Makefiles /\ Len(n.scopes) = Len(m.scopes)
      /\ n.files = m.files /\ n.policies = m.policies /\ n.blockers = m.blockers
      /\ \A k \in 1..Len(m.scopes) : k # q => n.scopes[k] = m.scopes[k]
      /\ n.scopes[q] = [m.scopes[q] EXCEPT ![v] = x]
  BY <1>1, ScopeChanged
<1>3. m.scopes[q] \in Scope
  BY LastOf DEF Makefiles
<1>4. [m.scopes[q] EXCEPT ![v] = x]["list"] = m.scopes[q]["list"]
  BY <1>1, <1>3 DEF Scope
<1> HIDE DEF n
<1>5. \A k \in 1..Len(m.scopes) : n.scopes[k]["list"] = m.scopes[k]["list"]
  BY <1>2, <1>4
<1>6. Like(m, n)
  BY <1>2, <1>5 DEF Like
<1> QED BY <1>2, <1>6 DEF n

LEMMA DefinitionAlike ==
  ASSUME NEW m \in Makefiles, m.scopes # <<>>, NEW v \in Variables, NEW x \in Values
  PROVE  Like(m, AddDefinition(m, v, x)) /\ AddDefinition(m, v, x).blockers = m.blockers
<1>1. v \in Names
  BY DEF Names
<1>2. Len(m.scopes) \in 1..Len(m.scopes)
  BY <1>1, TopScope
<1> QED BY <1>2, ScopeAlike DEF AddDefinition

LEMMA BlockersAlike ==
  ASSUME NEW m \in Makefiles, NEW bs \in Seq(Blocker)
  PROVE  Like(m, [m EXCEPT !.blockers = bs]) /\ [m EXCEPT !.blockers = bs].blockers = bs
  BY DEF Like, Makefiles

LEMMA SameAlike ==
  ASSUME NEW m \in Makefiles
  PROVE  Like(m, m)
  BY DEF Like

---------------------------------------------------------------------------
(* The counts after a call, a return and a change of the current call.      *)
LEMMA CountsExtended ==
  ASSUME NEW F, NEW G, NEW d, NEW op, NEW n \in Nat, NEW m \in Nat, m = n + 1,
         \A l \in 1..n : F[l].dir = G[l].dir /\ F[l].op = G[l].op
  PROVE  Count(G, d, op, m) =
           Count(F, d, op, n) + (IF G[m].dir = d /\ G[m].op = op THEN 1 ELSE 0)
<1>1. Count(F, d, op, n) = Count(G, d, op, n)
  BY CountSame
<1>2. Count(G, d, op, n + 1) =
        Count(G, d, op, n) + (IF G[n + 1].dir = d /\ G[n + 1].op = op THEN 1 ELSE 0)
  BY Counted
<1> QED BY <1>1, <1>2

(* What the actions do to the calls in progress.                            *)
Called(F, f, G) == G = Append(F, f)
Returned(F, G) == G = Front(F)
Changed(F, f, G) == G = Append(Front(F), f)

LEMMA CalledFacts ==
  ASSUME NEW F \in Seq(Activation), NEW f \in Activation, NEW G, Called(F, f, G)
  PROVE  /\ G \in Seq(Activation) /\ Len(F) \in Nat /\ Len(G) = Len(F) + 1 /\ G # <<>>
         /\ G[Len(F) + 1] = f /\ Last(G) = f
         /\ \A a \in 1..Len(F) : G[a] = F[a]
<1>1. G = Append(F, f)
  BY DEF Called
<1> QED BY <1>1, AppendProperties, LenProperties DEF Last

LEMMA ReturnedFacts ==
  ASSUME NEW F \in Seq(Activation), F # <<>>, NEW G, Returned(F, G)
  PROVE  /\ G \in Seq(Activation) /\ Len(F) \in Nat \ {0} /\ Len(G) = Len(F) - 1
         /\ \A a \in 1..(Len(F) - 1) : G[a] = F[a]
  BY Popped DEF Returned

LEMMA ChangedFacts ==
  ASSUME NEW F \in Seq(Activation), F # <<>>, NEW f \in Activation, NEW G, Changed(F, f, G)
  PROVE  /\ G \in Seq(Activation) /\ Len(F) \in Nat \ {0} /\ Len(G) = Len(F) /\ G # <<>>
         /\ G[Len(F)] = f /\ Last(G) = f
         /\ \A a \in 1..Len(F) : a # Len(F) => G[a] = F[a]
<1> DEFINE H == Front(F)
<1>1. /\ H \in Seq(Activation) /\ Len(F) \in Nat \ {0} /\ Len(H) = Len(F) - 1
      /\ \A a \in 1..Len(H) : H[a] = F[a]
  BY Popped
<1>2. Called(H, f, G)
  BY DEF Called, Changed
<1> HIDE DEF H
<1>3. /\ G \in Seq(Activation) /\ Len(H) \in Nat /\ Len(G) = Len(H) + 1 /\ G # <<>>
      /\ G[Len(H) + 1] = f /\ Last(G) = f
      /\ \A a \in 1..Len(H) : G[a] = H[a]
  BY <1>1, <1>2, CalledFacts
<1> QED BY <1>1, <1>3

LEMMA CountsCalled ==
  ASSUME NEW F \in Seq(Activation), NEW f \in Activation, NEW G, Called(F, f, G),
         NEW d, NEW op, NEW k \in 0..Len(F)
  PROVE  /\ Count(G, d, op, k) = Count(F, d, op, k)
         /\ Count(G, d, op, Len(F) + 1) =
              Count(F, d, op, Len(F)) + (IF f.dir = d /\ f.op = op THEN 1 ELSE 0)
<1> DEFINE n == Len(F)
           m == n + 1
<1>1. /\ n \in Nat /\ m \in Nat /\ m = n + 1 /\ G[m] = f /\ k \in 0..n
      /\ \A a \in 1..n : G[a] = F[a]
  BY CalledFacts
<1> HIDE DEF n, m
<1>2. \A a \in 1..n : F[a].dir = G[a].dir /\ F[a].op = G[a].op
  BY <1>1
<1>3. n \in Nat /\ m \in Nat /\ m = n + 1
  BY <1>1
<1>4. Count(G, d, op, m) =
        Count(F, d, op, n) + (IF G[m].dir = d /\ G[m].op = op THEN 1 ELSE 0)
  BY <1>2, <1>3, CountsExtended
<1>5. k \in Nat /\ \A l \in 1..k : G[l].dir = F[l].dir /\ G[l].op = F[l].op
  BY <1>1, <1>2
<1>6. Count(G, d, op, k) = Count(F, d, op, k)
  BY <1>5, CountSame
<1> QED BY <1>1, <1>4, <1>6 DEF n, m

LEMMA CountsReturned ==
  ASSUME NEW F \in Seq(Activation), F # <<>>, NEW G, Returned(F, G), NEW d, NEW op,
         NEW k \in 0..(Len(F) - 1)
  PROVE  /\ Count(G, d, op, k) = Count(F, d, op, k)
         /\ Count(F, d, op, Len(F)) = Count(F, d, op, Len(F) - 1) +
              (IF F[Len(F)].dir = d /\ F[Len(F)].op = op THEN 1 ELSE 0)
<1> DEFINE m == Len(F)
           n == m - 1
<1>1. /\ n \in Nat /\ m \in Nat /\ m = n + 1 /\ k \in 0..n /\ n = m - 1
      /\ \A a \in 1..n : G[a] = F[a]
  BY ReturnedFacts
<1> HIDE DEF n, m
<1>2. \A a \in 1..n : F[a].dir = F[a].dir /\ F[a].op = F[a].op
  OBVIOUS
<1>3. n \in Nat /\ m \in Nat /\ m = n + 1
  BY <1>1
<1>4. Count(F, d, op, m) =
        Count(F, d, op, n) + (IF F[m].dir = d /\ F[m].op = op THEN 1 ELSE 0)
  BY <1>2, <1>3, CountsExtended
<1>5. k \in Nat /\ \A l \in 1..k : G[l].dir = F[l].dir /\ G[l].op = F[l].op
  BY <1>1
<1>6. Count(G, d, op, k) = Count(F, d, op, k)
  BY <1>5, CountSame
<1> QED BY <1>1, <1>4, <1>6 DEF n, m

LEMMA CountsChanged ==
  ASSUME NEW F \in Seq(Activation), F # <<>>, NEW f \in Activation, NEW G, Changed(F, f, G),
         f.dir = F[Len(F)].dir, f.op = F[Len(F)].op, NEW d, NEW op, NEW k \in 0..Len(F)
  PROVE  Count(G, d, op, k) = Count(F, d, op, k)
<1> DEFINE n == Len(F)
<1>1. /\ n \in Nat /\ k \in 0..n
      /\ \A a \in 1..n : G[a].dir = F[a].dir /\ G[a].op = F[a].op
  BY ChangedFacts
<1> HIDE DEF n
<1>2. k \in Nat /\ \A l \in 1..k : G[l].dir = F[l].dir /\ G[l].op = F[l].op
  BY <1>1
<1> QED BY <1>2, CountSame

LEMMA CountNone ==
  ASSUME NEW F, NEW d, NEW op, NEW k \in Nat, \A l \in 1..k : F[l].dir # d
  PROVE  Count(F, d, op, k) = 0
<1>1. {l \in 1..k : F[l].dir = d /\ F[l].op = op} = {}
  OBVIOUS
<1> QED BY <1>1, FS_EmptySet DEF Count

---------------------------------------------------------------------------
(* The type invariant.  A call that waits for another one, or for the       *)
(* status of its command, has a current command.  Every directory with a    *)
(* call in progress has a list file in progress; a scope may be left behind *)
(* by a function that fails, but none is missing.                           *)
FramesTyped ==
  /\ frames \in Seq(Activation)
  /\ \A k \in 1..Len(frames) :
       /\ frames[k].dir \in DOMAIN makefiles
       /\ frames[k].i \in 1..(Len(frames[k].body) + 1)
       /\ k < Len(frames) \/ outcome # Busy => frames[k].i <= Len(frames[k].body)
       /\ Count(frames, frames[k].dir, "file", k) > 0

MakefilesTyped ==
  /\ "top" \in DOMAIN makefiles /\ DOMAIN makefiles \subseteq Directories
  /\ \A d \in DOMAIN makefiles :
       /\ makefiles[d] \in Makefiles
       /\ Len(makefiles[d].scopes) > Count(frames, d, "function", Len(frames))
       /\ Len(makefiles[d].files) = Count(frames, d, "file", Len(frames))
       /\ makefiles[d].files = <<>> => makefiles[d].policies = 1

CommandsTyped == \A n \in DOMAIN commands : commands[n] \in Seq(Definition) \ {<<>>}

Statuses == SUBSET {"return", "break", "error"}

TypeInv ==
  /\ program \in Programs
  /\ FramesTyped /\ MakefilesTyped /\ CommandsTyped
  /\ outcome = Busy \/ outcome \in Statuses
  /\ fatal \in BOOLEAN /\ created \in Nat /\ dangling \in BOOLEAN

LEMMA NotBusy == \A x \in Statuses : x # Busy
  BY DEF Statuses, Busy

(* What the type invariant says of the current call and its directory.      *)
LEMMA CurrentTyped ==
  ASSUME TypeInv, frames # <<>>
  PROVE  /\ frames \in Seq(Activation)
         /\ Len(frames) \in Nat \ {0} /\ Current = frames[Len(frames)] /\ Current \in Activation
         /\ Current.dir \in DOMAIN makefiles
         /\ Current.i \in 1..(Len(Current.body) + 1) /\ Len(Current.body) \in Nat
         /\ Makefile \in Makefiles /\ Makefile.scopes # <<>> /\ Makefile.files # <<>>
         /\ Current.i <= Len(Current.body) => Command \in Commands
         /\ outcome # Busy => Current.i <= Len(Current.body)
<1> DEFINE n == Len(frames)
<1>1. frames \in Seq(Activation)
  BY DEF TypeInv, FramesTyped
<1>2. n \in Nat \ {0} /\ Current = frames[n] /\ Current \in Activation /\ n \in 1..n
  BY <1>1, LastOf DEF Current
<1>3. /\ Current.dir \in DOMAIN makefiles
      /\ Current.i \in 1..(Len(Current.body) + 1)
      /\ outcome # Busy => Current.i <= Len(Current.body)
      /\ Count(frames, Current.dir, "file", n) > 0
  BY <1>2 DEF TypeInv, FramesTyped
<1>4. Current.body \in Seq(Commands)
  BY <1>2 DEF Activation
<1>5. /\ Len(Current.body) \in Nat
      /\ Current.i <= Len(Current.body) => Command \in Commands
  BY <1>3, <1>4, LenProperties DEF Command
<1>6. /\ Makefile \in Makefiles
      /\ Len(Makefile.scopes) > Count(frames, Current.dir, "function", n)
      /\ Len(Makefile.files) = Count(frames, Current.dir, "file", n)
  BY <1>3 DEF TypeInv, MakefilesTyped, Makefile
<1>7. Count(frames, Current.dir, "function", n) >= 0 /\ Count(frames, Current.dir, "function", n) \in Nat
      /\ Count(frames, Current.dir, "file", n) \in Nat
  BY <1>2, Counted
<1>8. Makefile.scopes \in Seq(Scope) /\ Makefile.files \in Seq(FileNames)
  BY <1>6 DEF Makefiles
<1>9. Len(<<>>) = 0
  BY EmptySeq
<1>10. Makefile.scopes # <<>> /\ Makefile.files # <<>>
  BY <1>3, <1>6, <1>7, <1>9
<1> QED BY <1>1, <1>2, <1>3, <1>5, <1>6, <1>10

---------------------------------------------------------------------------
(* What a step does to the type invariant, by what it does to the calls.    *)
Others ==
  /\ program' = program
  /\ outcome' = Busy \/ outcome' \in Statuses
  /\ fatal' \in BOOLEAN /\ created' \in Nat /\ dangling' \in BOOLEAN
  /\ CommandsTyped'

AllAlike ==
  /\ DOMAIN makefiles' = DOMAIN makefiles
  /\ \A d \in DOMAIN makefiles : Like(makefiles[d], makefiles'[d])

LEMMA TypeKept ==
  ASSUME TypeInv, frames # <<>>, Current.i <= Len(Current.body),
         frames' = frames, AllAlike, Others
  PROVE  TypeInv'
<1>1. frames \in Seq(Activation) /\ Len(frames) \in Nat \ {0} /\ Current = frames[Len(frames)]
  BY CurrentTyped
<1>2. ASSUME NEW k \in 1..Len(frames)
      PROVE  frames[k].i <= Len(frames[k].body)
  BY <1>1, <1>2 DEF TypeInv, FramesTyped
<1>3. FramesTyped'
  BY <1>1, <1>2 DEF TypeInv, FramesTyped, AllAlike
<1>4. MakefilesTyped'
  BY <1>1 DEF TypeInv, MakefilesTyped, AllAlike, Like
<1> QED BY <1>3, <1>4 DEF TypeInv, Others

LEMMA TypeChanged ==
  ASSUME TypeInv, frames # <<>>, NEW f \in Activation,
         f.dir = Current.dir, f.op = Current.op, f.i \in 1..(Len(f.body) + 1),
         Changed(frames, f, frames'), outcome' = Busy, AllAlike, Others
  PROVE  TypeInv'
<1> DEFINE n == Len(frames)
<1>1. frames \in Seq(Activation) /\ n \in Nat \ {0} /\ Current = frames[n]
  BY CurrentTyped
<1>2. /\ frames' \in Seq(Activation) /\ Len(frames') = n /\ frames'[n] = f
      /\ \A a \in 1..n : a # n => frames'[a] = frames[a]
  BY <1>1, ChangedFacts
<1>3. ASSUME NEW d, NEW op, NEW k \in 0..n
      PROVE  Count(frames', d, op, k) = Count(frames, d, op, k)
  BY <1>1, CountsChanged
<1>4. ASSUME NEW k \in 1..n
      PROVE  /\ frames'[k].dir = frames[k].dir
             /\ frames'[k].dir \in DOMAIN makefiles'
             /\ frames'[k].i \in 1..(Len(frames'[k].body) + 1)
             /\ k < n => frames'[k].i <= Len(frames'[k].body)
             /\ Count(frames, frames[k].dir, "file", k) > 0
  BY <1>1, <1>2 DEF TypeInv, FramesTyped, AllAlike
<1>5. FramesTyped'
  BY <1>2, <1>3, <1>4 DEF FramesTyped
<1>6. ASSUME NEW d \in DOMAIN makefiles
      PROVE  /\ makefiles'[d] \in Makefiles
             /\ Len(makefiles'[d].scopes) > Count(frames', d, "function", n)
             /\ Len(makefiles'[d].files) = Count(frames', d, "file", n)
             /\ makefiles'[d].files = <<>> => makefiles'[d].policies = 1
  <2>1. n \in 0..n
    BY <1>1
  <2> QED BY <1>3, <2>1 DEF TypeInv, MakefilesTyped, AllAlike, Like
<1>7. MakefilesTyped'
  BY <1>2, <1>6 DEF TypeInv, MakefilesTyped, AllAlike
<1> QED BY <1>5, <1>7 DEF TypeInv, Others

LEMMA TypeCalled ==
  ASSUME TypeInv, frames # <<>>, NEW f \in Activation, f.i \in 1..(Len(f.body) + 1),
         Current.i <= Len(Current.body), Called(frames, f, frames'), outcome' = Busy,
         DOMAIN makefiles \subseteq DOMAIN makefiles', DOMAIN makefiles' \subseteq Directories,
         f.dir \in DOMAIN makefiles',
         f.op = "file" \/ f.dir = Current.dir,
         \A d \in DOMAIN makefiles' :
           /\ makefiles'[d] \in Makefiles
           /\ Len(makefiles'[d].scopes) > Count(frames, d, "function", Len(frames))
                + (IF f.dir = d /\ f.op = "function" THEN 1 ELSE 0)
           /\ Len(makefiles'[d].files) = Count(frames, d, "file", Len(frames))
                + (IF f.dir = d /\ f.op = "file" THEN 1 ELSE 0)
           /\ makefiles'[d].files = <<>> => makefiles'[d].policies = 1,
         Others
  PROVE  TypeInv'
<1> DEFINE n == Len(frames)
<1>1. frames \in Seq(Activation) /\ n \in Nat \ {0} /\ Current = frames[n]
  BY CurrentTyped
<1>2. /\ frames' \in Seq(Activation) /\ Len(frames') = n + 1 /\ frames'[n + 1] = f
      /\ \A a \in 1..n : frames'[a] = frames[a]
  BY <1>1, CalledFacts
<1>3. ASSUME NEW d, NEW op, NEW k \in 0..n
      PROVE  Count(frames', d, op, k) = Count(frames, d, op, k)
  BY <1>1, CountsCalled
<1>4. ASSUME NEW d, NEW op
      PROVE  /\ Count(frames', d, op, n + 1) =
                  Count(frames, d, op, n) + (IF f.dir = d /\ f.op = op THEN 1 ELSE 0)
             /\ Count(frames, d, op, n) \in Nat
  <2>1. n \in 0..n
    BY <1>1
  <2>2. Count(frames, d, op, n) \in Nat
    BY <1>1, Counted
  <2> QED BY <1>1, <2>1, <2>2, CountsCalled
<1>5. ASSUME NEW k \in 1..n
      PROVE  /\ frames'[k].dir \in DOMAIN makefiles'
             /\ frames'[k].i \in 1..(Len(frames'[k].body) + 1)
             /\ frames'[k].i <= Len(frames'[k].body)
             /\ Count(frames, frames'[k].dir, "file", k) > 0
  <2>1. frames'[k] = frames[k] /\ k \in 1..n
    BY <1>2
  <2>2. /\ frames[k].dir \in DOMAIN makefiles
        /\ frames[k].i \in 1..(Len(frames[k].body) + 1)
        /\ k < n => frames[k].i <= Len(frames[k].body)
        /\ Count(frames, frames[k].dir, "file", k) > 0
    BY DEF TypeInv, FramesTyped
  <2>3. k = n \/ k < n
    BY <1>1
  <2> QED BY <1>1, <2>1, <2>2, <2>3
<1>6. Count(frames, Current.dir, "file", n) > 0
  BY <1>1 DEF TypeInv, FramesTyped
<1>7. Count(frames', f.dir, "file", n + 1) > 0
  BY <1>4, <1>6
<1>8. ASSUME NEW k \in 1..(n + 1)
      PROVE  /\ frames'[k].dir \in DOMAIN makefiles'
             /\ frames'[k].i \in 1..(Len(frames'[k].body) + 1)
             /\ k < n + 1 => frames'[k].i <= Len(frames'[k].body)
             /\ Count(frames', frames'[k].dir, "file", k) > 0
  <2>1. CASE k = n + 1
    BY <2>1, <1>1, <1>2, <1>7
  <2>2. CASE k \in 1..n
    BY <2>2, <1>3, <1>5
  <2> QED BY <2>1, <2>2, <1>1
<1>9. FramesTyped'
  BY <1>2, <1>8 DEF FramesTyped
<1>10. MakefilesTyped'
  BY <1>2, <1>4 DEF TypeInv, MakefilesTyped
<1> QED BY <1>9, <1>10 DEF TypeInv, Others

LEMMA TypeReturned ==
  ASSUME TypeInv, frames # <<>>, Returned(frames, frames'), outcome' \in Statuses \/ Len(frames) = 1,
         DOMAIN makefiles' = DOMAIN makefiles,
         \A d \in DOMAIN makefiles :
           /\ makefiles'[d] \in Makefiles
           /\ Len(makefiles'[d].scopes) > Count(frames, d, "function", Len(frames) - 1)
           /\ Len(makefiles'[d].files) = Count(frames, d, "file", Len(frames) - 1)
           /\ makefiles'[d].files = <<>> => makefiles'[d].policies = 1,
         Others
  PROVE  TypeInv'
<1> DEFINE n == Len(frames)
<1>1. frames \in Seq(Activation) /\ n \in Nat \ {0}
  BY CurrentTyped
<1>2. /\ frames' \in Seq(Activation) /\ Len(frames') = n - 1
      /\ \A a \in 1..(n - 1) : frames'[a] = frames[a]
  BY <1>1, ReturnedFacts
<1>3. ASSUME NEW d, NEW op, NEW k \in 0..(n - 1)
      PROVE  Count(frames', d, op, k) = Count(frames, d, op, k)
  BY <1>1, CountsReturned
<1>4. ASSUME NEW k \in 1..(n - 1)
      PROVE  /\ frames'[k].dir \in DOMAIN makefiles'
             /\ frames'[k].i \in 1..(Len(frames'[k].body) + 1)
             /\ frames'[k].i <= Len(frames'[k].body)
             /\ Count(frames', frames'[k].dir, "file", k) > 0
  <2>1. k \in 1..n /\ k < n /\ k \in 0..(n - 1) /\ frames'[k] = frames[k]
    BY <1>1, <1>2
  <2> QED BY <2>1, <1>3 DEF TypeInv, FramesTyped
<1>5. FramesTyped'
  BY <1>2, <1>4 DEF FramesTyped
<1>6. n - 1 \in 0..(n - 1)
  BY <1>1
<1>7. MakefilesTyped'
  BY <1>2, <1>3, <1>6 DEF TypeInv, MakefilesTyped
<1> QED BY <1>5, <1>7 DEF TypeInv, Others

---------------------------------------------------------------------------
(* The greatest of some positions, and the removal of one.                  *)
LEMMA Greatest ==
  ASSUME NEW n \in Nat, NEW S \in SUBSET (1..n), S # {}
  PROVE  Max(S) \in S /\ \A j \in S : j <= Max(S)
<1> DEFINE T == {n - i : i \in S}
           Less == {p \in Nat \X Nat : p[1] < p[2]}
<1>1. T \subseteq Nat /\ T # {}
  <2>1. \A i \in S : i \in Nat /\ n - i \in Nat
    OBVIOUS
  <2> QED BY <2>1
<1>2. PICK m \in T : \A k \in T : <<k, m>> \notin Less
  <2>1. IsWellFoundedOn(Less, Nat)
    BY NatLessThanWellFounded DEF OpToRel
  <2> HIDE DEF Less, T
  <2> QED BY <1>1, <2>1, WFMin
<1>3. \A k \in T : m <= k
  <2> SUFFICES ASSUME NEW k \in T PROVE m <= k
    OBVIOUS
  <2>1. ~(k < m)
    BY <1>1, <1>2
  <2> QED BY <1>1, <2>1
<1>4. PICK i \in S : m = n - i
  OBVIOUS
<1>5. \A j \in S : i >= j
  <2> SUFFICES ASSUME NEW j \in S PROVE j <= i
    OBVIOUS
  <2>1. n - j \in T
    OBVIOUS
  <2>2. n - i <= n - j
    BY <1>3, <1>4, <2>1
  <2>3. i \in Nat /\ j \in Nat
    OBVIOUS
  <2> HIDE DEF T, Less
  <2> QED BY <2>2, <2>3
<1>6. Max(S) \in S /\ \A j \in S : Max(S) >= j
  BY <1>5 DEF Max
<1> QED BY <1>6

LEMMA Removed ==
  ASSUME NEW S, NEW s \in Seq(S), NEW k \in 1..Len(s)
  PROVE  RemoveAt(s, k) \in Seq(S)
<1>1. Len(s) \in Nat /\ \A a \in 1..Len(s) : s[a] \in S
  BY LenProperties
<1>2. SubSeq(s, 1, k - 1) \in Seq(S)
  <2>1. 1 \in Int /\ k - 1 \in Int /\ \A a \in 1..(k - 1) : s[a] \in S
    BY <1>1
  <2> QED BY <2>1, SubSeqProperties
<1>3. SubSeq(s, k + 1, Len(s)) \in Seq(S)
  <2>1. k + 1 \in Int /\ Len(s) \in Int /\ \A a \in (k + 1)..Len(s) : s[a] \in S
    BY <1>1
  <2> QED BY <2>1, SubSeqProperties
<1> QED BY <1>2, <1>3, ConcatProperties DEF RemoveAt

LEMMA RemovedLast ==
  ASSUME NEW S, NEW s \in Seq(S), s # <<>>
  PROVE  RemoveAt(s, Len(s)) = Front(s)
<1> DEFINE n == Len(s)
           t == Front(s)
<1>1. n \in Nat \ {0} /\ t \in Seq(S)
  BY Popped
<1>2. SubSeq(s, n + 1, n) = <<>>
  BY <1>1, SubSeqEmpty
<1>3. t \o <<>> = t
  BY <1>1, ConcatEmptySeq
<1>4. RemoveAt(s, n) = t \o SubSeq(s, n + 1, n)
  BY DEF RemoveAt, Front
<1> QED BY <1>2, <1>3, <1>4

---------------------------------------------------------------------------
(* The command that is executed, and the makefile it changes.               *)
LEMMA ExecutingTyped ==
  ASSUME TypeInv, Executing
  PROVE  /\ frames # <<>> /\ outcome = Busy /\ Current.i <= Len(Current.body)
         /\ Command \in Commands
<1>1. frames # <<>> /\ outcome = Busy /\ ~AtEnd
  BY DEF Executing, Alive
<1>2. Current.i \in 1..(Len(Current.body) + 1) /\ Len(Current.body) \in Nat
      /\ (Current.i <= Len(Current.body) => Command \in Commands)
  BY <1>1, CurrentTyped
<1> QED BY <1>1, <1>2 DEF AtEnd

LEMMA MakefileSet ==
  ASSUME TypeInv, frames # <<>>, NEW m, SetMakefile(m)
  PROVE  /\ DOMAIN makefiles' = DOMAIN makefiles
         /\ Current.dir \in DOMAIN makefiles /\ makefiles'[Current.dir] = m
         /\ \A d \in DOMAIN makefiles : d # Current.dir => makefiles'[d] = makefiles[d]
<1>1. Current.dir \in DOMAIN makefiles
  BY CurrentTyped
<1> QED BY <1>1 DEF SetMakefile

LEMMA SetAlike ==
  ASSUME TypeInv, frames # <<>>, NEW m, SetMakefile(m), Like(Makefile, m)
  PROVE  AllAlike
<1>1. \A d \in DOMAIN makefiles : makefiles[d] \in Makefiles
  BY DEF TypeInv, MakefilesTyped
<1>2. \A d \in DOMAIN makefiles : Like(makefiles[d], makefiles[d])
  BY <1>1, SameAlike
<1> QED BY <1>2, MakefileSet DEF AllAlike, Makefile

LEMMA UnchangedAlike ==
  ASSUME TypeInv, makefiles' = makefiles
  PROVE  AllAlike
<1>1. \A d \in DOMAIN makefiles : makefiles[d] \in Makefiles
  BY DEF TypeInv, MakefilesTyped
<1> QED BY <1>1, SameAlike DEF AllAlike

(* The blocker that records, if there is one.                               *)
LEMMA RecorderTyped ==
  ASSUME TypeInv, frames # <<>>, Blocked
  PROVE  /\ Makefile.blockers \in Seq(Blocker) /\ Recorder \in 1..Len(Makefile.blockers)
         /\ Makefile.blockers[Recorder] \in Blocker /\ ~Makefile.blockers[Recorder].running
         /\ Recorder \in Recording
<1>1. Makefile.blockers \in Seq(Blocker)
  BY CurrentTyped DEF Makefiles
<1>2. /\ Len(Makefile.blockers) \in Nat /\ DOMAIN Makefile.blockers = 1..Len(Makefile.blockers)
      /\ \A k \in 1..Len(Makefile.blockers) : Makefile.blockers[k] \in Blocker
  BY <1>1, LenProperties
<1>3. Recording \in SUBSET (1..Len(Makefile.blockers)) /\ Recording # {}
  BY <1>2 DEF Recording, Blocked
<1>4. Recorder \in Recording
  BY <1>2, <1>3, Greatest DEF Recorder
<1> QED BY <1>1, <1>2, <1>3, <1>4 DEF Recording

LEMMA BlockerRemoved ==
  ASSUME NEW m \in Makefiles, NEW c
  PROVE  /\ Like(m, RemoveFunctionBlocker(m, c))
<1>1. m.blockers \in Seq(Blocker)
  BY DEF Makefiles
<1>2. /\ Len(m.blockers) \in Nat /\ DOMAIN m.blockers = 1..Len(m.blockers)
  BY <1>1, LenProperties
<1>3. CASE Removable(m, c) = {}
  BY <1>3, SameAlike DEF RemoveFunctionBlocker
<1>4. CASE Removable(m, c) # {}
  <2>1. Removable(m, c) \in SUBSET (1..Len(m.blockers))
    BY <1>2 DEF Removable
  <2>2. Max(Removable(m, c)) \in 1..Len(m.blockers)
    BY <1>2, <1>4, <2>1, Greatest
  <2>3. RemoveAt(m.blockers, Max(Removable(m, c))) \in Seq(Blocker)
    BY <1>1, <2>2, Removed
  <2> QED BY <1>4, <2>3, BlockersAlike DEF RemoveFunctionBlocker
<1> QED BY <1>3, <1>4

---------------------------------------------------------------------------
(* Commands that are recorded, or invoked without a call: the calls in      *)
(* progress stay, the status of the command is known.                       *)
Quiet ==
  /\ frames # <<>> /\ Executing /\ Current.i <= Len(Current.body)
  /\ outcome = Busy /\ outcome' \in Statuses
  /\ frames' = frames /\ AllAlike /\ Others

SameBlockers == \A d \in DOMAIN makefiles : makefiles'[d].blockers = makefiles[d].blockers

(* Those that touch no blocker.                                             *)
Simple ==
  /\ Quiet /\ ~Blocked
  /\ SameBlockers /\ UNCHANGED <<commands, created, dangling>>
  /\ fatal' \/ (~fatal /\ Command.op \notin Openers)

LEMMA MakeSimple ==
  ASSUME TypeInv, Executing, ~Blocked, outcome' \in Statuses, fatal' \in BOOLEAN,
         fatal' \/ (~fatal /\ Command.op \notin Openers),
         AllAlike, SameBlockers,
         UNCHANGED <<program, frames, commands, created, dangling>>
  PROVE  Simple
<1>1. frames # <<>> /\ outcome = Busy /\ Current.i <= Len(Current.body)
  BY ExecutingTyped
<1>2. Others
  BY DEF Others, TypeInv, CommandsTyped
<1> QED BY <1>1, <1>2 DEF Simple, Quiet

LEMMA SimpleTyped ==
  ASSUME TypeInv, Quiet
  PROVE  TypeInv'
  BY TypeKept DEF Quiet

LEMMA NotInvokedSimple ==
  ASSUME TypeInv, NotInvoked
  PROVE  Simple
<1>1. Executing /\ ~Blocked /\ fatal' = TRUE /\ outcome' \in Statuses
  BY DEF NotInvoked, Statuses, TypeInv
<1>2. makefiles' = makefiles
  BY DEF NotInvoked
<1>3. AllAlike /\ SameBlockers
  BY <1>2, UnchangedAlike DEF SameBlockers
<1> QED BY <1>1, <1>3, MakeSimple DEF NotInvoked

LEMMA FailSimple ==
  ASSUME TypeInv, Fail
  PROVE  Simple
<1>1. Executing /\ ~Blocked /\ ~fatal /\ Command.op \notin Openers
  BY DEF Fail, Invoked, Openers, Loops
<1>2. makefiles' = makefiles /\ fatal' \in BOOLEAN /\ outcome' \in Statuses
  BY DEF Fail, Statuses
<1>3. AllAlike /\ SameBlockers
  BY <1>2, UnchangedAlike DEF SameBlockers
<1> QED BY <1>1, <1>2, <1>3, MakeSimple DEF Fail

LEMMA PlainSimple ==
  ASSUME TypeInv, Plain
  PROVE  Simple
<1>1. Executing /\ ~Blocked /\ ~fatal /\ Command.op \notin Openers
  BY DEF Plain, Invoked, Openers, Loops
<1>2. makefiles' = makefiles /\ fatal' \in BOOLEAN /\ outcome' \in Statuses
  BY DEF Plain, Statuses, TypeInv
<1>3. AllAlike /\ SameBlockers
  BY <1>2, UnchangedAlike DEF SameBlockers
<1> QED BY <1>1, <1>2, <1>3, MakeSimple DEF Plain

LEMMA LeapSimple ==
  ASSUME TypeInv, Leap
  PROVE  Simple
<1>1. Executing /\ ~Blocked /\ ~fatal /\ Command.op \notin Openers
  BY DEF Leap, Invoked, Openers, Loops
<1>2. makefiles' = makefiles /\ fatal' \in BOOLEAN /\ outcome' \in Statuses
  BY DEF Leap, Invoked, Statuses, TypeInv
<1>3. AllAlike /\ SameBlockers
  BY <1>2, UnchangedAlike DEF SameBlockers
<1> QED BY <1>1, <1>2, <1>3, MakeSimple DEF Leap

LEMMA SetSimple ==
  ASSUME TypeInv, Set
  PROVE  Simple
<1>1. Executing /\ ~Blocked /\ ~fatal /\ Command.op = "set" /\ Command.op \notin Openers
  BY DEF Set, Invoked, Openers, Loops
<1>2. fatal' \in BOOLEAN /\ outcome' \in Statuses
  BY DEF Set, Statuses, TypeInv
<1>3. frames # <<>> /\ Command.arg \in Variables /\ Command.val \in Values
  BY <1>1, ExecutingTyped DEF Commands, Values
<1> DEFINE m == AddDefinition(Makefile, Command.arg, Command.val)
<1>4. Like(Makefile, m) /\ m.blockers = Makefile.blockers
  BY <1>3, CurrentTyped, DefinitionAlike
<1>5. SetMakefile(m)
  BY DEF Set
<1> HIDE DEF m
<1>6. AllAlike
  BY <1>3, <1>4, <1>5, SetAlike
<1>7. SameBlockers
  BY <1>3, <1>4, <1>5, MakefileSet DEF SameBlockers, Makefile
<1> QED BY <1>1, <1>2, <1>6, <1>7, MakeSimple DEF Set

LEMMA RaiseScopeSimple ==
  ASSUME TypeInv, RaiseScope
  PROVE  Simple
<1>1. Executing /\ ~Blocked /\ ~fatal /\ Command.op = "raise" /\ Command.op \notin Openers
  BY DEF RaiseScope, Invoked, Openers, Loops
<1>2. fatal' \in BOOLEAN /\ outcome' \in Statuses
  BY DEF RaiseScope, Statuses, TypeInv
<1>3. frames # <<>> /\ Command.arg \in Variables /\ Command.val \in Values
  BY <1>1, ExecutingTyped DEF Commands, Values
<1>4. Makefile \in Makefiles /\ Len(Makefile.scopes) \in Nat
  BY <1>3, CurrentTyped, LenProperties DEF Makefiles
<1> DEFINE n == Len(Makefile.scopes)
<1>5. CASE n > 1
  <2> DEFINE m == [Makefile EXCEPT !.scopes[n - 1][Command.arg] = Command.val]
  <2>1. SetMakefile(m)
    BY <1>5 DEF RaiseScope
  <2>2. n - 1 \in 1..n
    BY <1>4, <1>5
  <2>3. Like(Makefile, m) /\ m.blockers = Makefile.blockers
    BY <1>3, <1>4, <2>2, ScopeAlike
  <2> HIDE DEF m
  <2>4. AllAlike
    BY <1>3, <2>1, <2>3, SetAlike
  <2>5. SameBlockers
    BY <1>3, <2>1, <2>3, MakefileSet DEF SameBlockers, Makefile
  <2> QED BY <1>1, <1>2, <2>4, <2>5, MakeSimple DEF RaiseScope
<1>6. CASE ~(n > 1) /\ Current.dir = "top"
  <2>1. makefiles' = makefiles
    BY <1>6 DEF RaiseScope
  <2>2. AllAlike /\ SameBlockers
    BY <2>1, UnchangedAlike DEF SameBlockers
  <2> QED BY <1>1, <1>2, <2>2, MakeSimple DEF RaiseScope
<1>7. CASE ~(n > 1) /\ Current.dir # "top"
  <2> DEFINE m == AddDefinition(makefiles["top"], Command.arg, Command.val)
  <2>1. makefiles' = [makefiles EXCEPT !["top"] = m]
    BY <1>7 DEF RaiseScope
  <2>2. /\ "top" \in DOMAIN makefiles /\ \A d \in DOMAIN makefiles : makefiles[d] \in Makefiles
        /\ Len(makefiles["top"].scopes) > Count(frames, "top", "function", Len(frames))
    BY DEF TypeInv, MakefilesTyped
  <2>3. Len(frames) \in Nat
    BY <1>3, CurrentTyped
  <2>4. Count(frames, "top", "function", Len(frames)) \in 0..Len(frames)
    BY <2>3, Counted
  <2>5. makefiles["top"].scopes # <<>>
    <3>1. Len(<<>>) = 0
      BY EmptySeq
    <3> QED BY <2>2, <2>3, <2>4, <3>1
  <2>6. Like(makefiles["top"], m) /\ m.blockers = makefiles["top"].blockers
    BY <1>3, <2>2, <2>5, DefinitionAlike
  <2>7. \A d \in DOMAIN makefiles : Like(makefiles[d], makefiles[d])
    BY <2>2, SameAlike
  <2> HIDE DEF m
  <2>8. AllAlike /\ SameBlockers
    BY <2>1, <2>2, <2>6, <2>7 DEF AllAlike, SameBlockers
  <2> QED BY <1>1, <1>2, <2>8, MakeSimple DEF RaiseScope
<1> QED BY <1>5, <1>6, <1>7

LEMMA PolicySimple ==
  ASSUME TypeInv, Policy
  PROVE  Simple
<1>1. Executing /\ ~Blocked /\ ~fatal /\ Command.op \in {"push", "pop"} /\ Command.op \notin Openers
  BY DEF Policy, Invoked, Openers, Loops
<1>2. fatal' \in BOOLEAN /\ outcome' \in Statuses
  BY DEF Policy, Statuses, TypeInv
<1>3. frames # <<>>
  BY <1>1, ExecutingTyped
<1>4. Makefile \in Makefiles /\ Makefile.files # <<>>
  BY <1>3, CurrentTyped
<1>5. CASE Command.op = "pop" /\ Makefile.policies = 1
  <2>1. makefiles' = makefiles
    BY <1>5 DEF Policy
  <2>2. AllAlike /\ SameBlockers
    BY <2>1, UnchangedAlike DEF SameBlockers
  <2> QED BY <1>1, <1>2, <2>2, MakeSimple DEF Policy
<1>6. CASE ~(Command.op = "pop" /\ Makefile.policies = 1)
  <2> DEFINE k == IF Command.op = "push" THEN Makefile.policies + 1 ELSE Makefile.policies - 1
             m == [Makefile EXCEPT !.policies = k]
  <2>1. SetMakefile(m)
    BY <1>6 DEF Policy
  <2>2. Makefile.policies \in Nat \ {0}
    BY <1>4 DEF Makefiles
  <2>3. k \in Nat \ {0}
    BY <1>1, <1>6, <2>2
  <2> HIDE DEF k
  <2>4. Like(Makefile, m) /\ m.blockers = Makefile.blockers
    BY <1>4, <2>3 DEF Like, Makefiles
  <2> HIDE DEF m
  <2>5. AllAlike
    BY <1>3, <2>1, <2>4, SetAlike
  <2>6. SameBlockers
    BY <1>3, <2>1, <2>4, MakefileSet DEF SameBlockers, Makefile
  <2> QED BY <1>1, <1>2, <2>5, <2>6, MakeSimple DEF Policy
<1> QED BY <1>5, <1>6

(* Commands that may call: when they do not, they are like the others.      *)
LEMMA RefusedSimple ==
  ASSUME TypeInv, Call \/ Include \/ AddSubDirectory, frames' = frames
  PROVE  Simple
<1>1. Executing /\ ~Blocked /\ ~fatal /\ Command.op \notin Openers
  BY DEF Call, Include, AddSubDirectory, Invoked, Openers, Loops
<1>2. frames \in Seq(Activation)
  BY DEF TypeInv, FramesTyped
<1>3. ASSUME NEW f PROVE frames' # Append(frames, f)
  <2>1. Len(Append(frames, f)) = Len(frames) + 1 /\ Len(frames) \in Nat
    BY <1>2, LenProperties
  <2> QED BY <2>1
<1>4. makefiles' = makefiles /\ outcome' \in Statuses /\ fatal' \in BOOLEAN
  BY <1>3 DEF Call, Include, AddSubDirectory, Statuses, TypeInv
<1>5. AllAlike /\ SameBlockers
  BY <1>4, UnchangedAlike DEF SameBlockers
<1> QED BY <1>1, <1>4, <1>5, MakeSimple DEF Call, Include, AddSubDirectory

(* Commands that are recorded, and those that open a block or end the       *)
(* definition of a function or macro.                                       *)
LEMMA RecordQuiet ==
  ASSUME TypeInv, Record
  PROVE  Quiet
<1>1. Executing /\ Blocked /\ outcome' \in Statuses
  BY DEF Record, Statuses
<1>2. frames # <<>> /\ outcome = Busy /\ Current.i <= Len(Current.body) /\ Command \in Commands
  BY <1>1, ExecutingTyped
<1> DEFINE b == Makefile.blockers[Recorder]
           k == CASE Command.op = b.op -> b.depth + 1
                  [] Command.op = EndOf[b.op] -> b.depth - 1
                  [] OTHER -> b.depth
           n == [b EXCEPT !.body = Append(b.body, Command), !.depth = k]
           bs == [Makefile.blockers EXCEPT ![Recorder] = n]
           m == [Makefile EXCEPT !.blockers = bs]
<1>3. Makefile \in Makefiles /\ Makefile.blockers \in Seq(Blocker)
      /\ Recorder \in 1..Len(Makefile.blockers) /\ b \in Blocker
  BY <1>1, <1>2, CurrentTyped, RecorderTyped
<1>4. SetMakefile(m) /\ ~Closes(Command, b)
  BY DEF Record
<1>5. b.depth \in Nat /\ b.body \in Seq(Commands)
  BY <1>3 DEF Blocker
<1>6. k \in Nat
  BY <1>4, <1>5 DEF Closes
<1>7. Append(b.body, Command) \in Seq(Commands)
  BY <1>2, <1>5, AppendProperties
<1>8. n \in Blocker
  <2> HIDE DEF k
  <2> QED BY <1>3, <1>6, <1>7 DEF Blocker
<1> HIDE DEF n
<1>9. bs \in Seq(Blocker)
  BY <1>3, <1>8, ExceptSeq
<1> HIDE DEF bs
<1>10. Like(Makefile, m)
  BY <1>3, <1>9, BlockersAlike
<1> HIDE DEF m
<1>11. AllAlike
  BY <1>2, <1>4, <1>10, SetAlike
<1>12. Others
  BY <1>1 DEF Others, Record, TypeInv, CommandsTyped
<1> QED BY <1>1, <1>2, <1>11, <1>12 DEF Quiet, Record

LEMMA DefineQuiet ==
  ASSUME TypeInv, Define
  PROVE  Quiet
<1>1. Executing /\ Blocked /\ outcome' \in Statuses
  BY DEF Define, Statuses
<1>2. frames # <<>> /\ outcome = Busy /\ Current.i <= Len(Current.body) /\ Command \in Commands
  BY <1>1, ExecutingTyped
<1> DEFINE b == Makefile.blockers[Recorder]
           new == [op |-> b.op, body |-> b.body]
           old == IF b.arg \in DOMAIN commands THEN <<commands[b.arg][1]>> ELSE <<>>
           s == <<new>> \o old
<1>3. Makefile \in Makefiles /\ b \in Blocker
  BY <1>1, <1>2, CurrentTyped, RecorderTyped
<1>4. /\ b.op \in {"function", "macro"}
      /\ commands' = [n \in DOMAIN commands \union {b.arg} |-> IF n = b.arg THEN s ELSE commands[n]]
      /\ SetMakefile(RemoveFunctionBlocker(Makefile, Command))
  BY DEF Define
<1>5. new \in Definition
  BY <1>3, <1>4 DEF Definition, Blocker
<1>6. old \in Seq(Definition)
  <2>1. CASE b.arg \in DOMAIN commands
    <3>1. commands[b.arg] \in Seq(Definition) /\ commands[b.arg] # <<>>
      BY <2>1 DEF TypeInv, CommandsTyped
    <3>2. Len(commands[b.arg]) \in Nat \ {0}
      BY <3>1, EmptySeq
    <3>3. commands[b.arg][1] \in Definition
      BY <3>1, <3>2, ElementOfSeq
    <3> QED BY <2>1, <3>3
  <2>2. CASE b.arg \notin DOMAIN commands
    BY <2>2
  <2> QED BY <2>1, <2>2
<1>7. s \in Seq(Definition) \ {<<>>}
  <2> HIDE DEF new, old
  <2>1. <<new>> \in Seq(Definition) /\ Len(<<new>>) = 1
    BY <1>5
  <2>2. s \in Seq(Definition) /\ Len(s) = 1 + Len(old) /\ Len(old) \in Nat
    BY <1>6, <2>1, ConcatProperties, LenProperties
  <2>3. Len(<<>>) = 0
    BY EmptySeq
  <2> HIDE DEF s
  <2> QED BY <2>2, <2>3
<1> HIDE DEF s
<1>8. CommandsTyped'
  BY <1>4, <1>7 DEF TypeInv, CommandsTyped
<1>9. AllAlike
  BY <1>2, <1>3, <1>4, BlockerRemoved, SetAlike
<1>10. Others
  BY <1>1, <1>8 DEF Others, Define, TypeInv
<1> QED BY <1>1, <1>2, <1>9, <1>10 DEF Quiet, Define

(* The blocker that a command creates.                                      *)
New == [op |-> Command.op, arg |-> Command.arg, items |-> Command.items,
        id |-> created + 1, depth |-> 0, running |-> FALSE, body |-> <<>>,
        holds |-> Command.op = "if" /\ Value(Makefile, Command.arg) = "on"]

LEMMA OpenBlockQuiet ==
  ASSUME TypeInv, OpenBlock
  PROVE  /\ Quiet /\ ~Blocked /\ ~fatal /\ Command.op \in Openers
         /\ New \in Blocker /\ makefiles'[Current.dir].blockers = Append(Makefile.blockers, New)
         /\ \A d \in DOMAIN makefiles :
              d # Current.dir => makefiles'[d].blockers = makefiles[d].blockers
<1>1. Executing /\ ~Blocked /\ ~fatal /\ Command.op \in Openers /\ outcome' \in Statuses
  BY DEF OpenBlock, Invoked, Statuses
<1>2. frames # <<>> /\ outcome = Busy /\ Current.i <= Len(Current.body) /\ Command \in Commands
  BY <1>1, ExecutingTyped
<1>3. Makefile \in Makefiles /\ Makefile.blockers \in Seq(Blocker)
  BY <1>2, CurrentTyped DEF Makefiles
<1> DEFINE bs == Append(Makefile.blockers, New)
           m == [Makefile EXCEPT !.blockers = bs]
<1>4. SetMakefile(m)
  BY DEF OpenBlock, New
<1>5. New \in Blocker
  <2>1. Command.op \in Blocks => Command.arg \in Variables
    BY <1>2 DEF Commands, Blocks
  <2>2. Command.arg \in STRING /\ Command.items \in Seq(Truths)
    BY <1>2 DEF Commands
  <2>3. created + 1 \in Nat
    BY DEF TypeInv
  <2>4. (Command.op = "if" /\ Value(Makefile, Command.arg) = "on") \in BOOLEAN
    OBVIOUS
  <2> QED BY <1>1, <2>1, <2>2, <2>3, <2>4 DEF New, Blocker
<1>6. bs \in Seq(Blocker)
  BY <1>3, <1>5, AppendProperties
<1> HIDE DEF bs
<1>7. Like(Makefile, m) /\ m.blockers = bs
  BY <1>3, <1>6, BlockersAlike
<1> HIDE DEF m
<1>8. AllAlike
  BY <1>2, <1>4, <1>7, SetAlike
<1>9. Others
  BY <1>1 DEF Others, OpenBlock, TypeInv, CommandsTyped
<1>10. Quiet
  BY <1>1, <1>2, <1>8, <1>9 DEF Quiet, OpenBlock
<1>11. /\ makefiles'[Current.dir].blockers = bs
       /\ \A d \in DOMAIN makefiles :
              d # Current.dir => makefiles'[d].blockers = makefiles[d].blockers
  BY <1>2, <1>4, <1>7, MakefileSet
<1> QED BY <1>1, <1>5, <1>10, <1>11 DEF bs

---------------------------------------------------------------------------
(* Steps of the loops of the C++ code: the current call goes on.            *)
SameCall(f, g) ==
  /\ g.op = f.op /\ g.dir = f.dir /\ g.body = f.body /\ g.id = f.id
  /\ g.arg = f.arg /\ g.closer = f.closer /\ g.saved = f.saved

Turned(f) ==
  /\ frames # <<>> /\ Alive
  /\ f \in Activation /\ SameCall(Current, f) /\ f.i \in 1..(Len(f.body) + 1)
  /\ Changed(frames, f, frames')
  /\ outcome' = Busy /\ AllAlike /\ Others
  /\ SameBlockers /\ UNCHANGED <<commands, fatal, created, dangling>>

LEMMA TurnedTyped ==
  ASSUME TypeInv, NEW f, Turned(f)
  PROVE  TypeInv'
  BY TypeChanged DEF Turned, SameCall

LEMMA SwitchTurned ==
  ASSUME TypeInv, Switch
  PROVE  \E f : /\ Turned(f) /\ outcome = Busy /\ Current.i <= Len(Current.body)
                /\ f.i = Current.i + 1
                /\ IsSwitch(Current) \/ (Current.blocking /\ f.blocking = Current.blocking)
<1>1. Alive /\ frames # <<>> /\ outcome = Busy /\ ~AtEnd /\ outcome' = outcome
  BY DEF Switch, Alive
<1>2. /\ Current \in Activation /\ Current.i \in 1..(Len(Current.body) + 1)
      /\ Len(Current.body) \in Nat
  BY <1>1, CurrentTyped
<1>3. Current.i <= Len(Current.body)
  BY <1>1, <1>2 DEF AtEnd
<1> DEFINE c == Current
           chosen == ~c.hasRun /\ (Command.op = "else" \/ Value(Makefile, Command.arg) = "on")
           blocks == IF c.hasRun THEN TRUE ELSE c.blocking /\ ~chosen
           runs == c.hasRun \/ chosen
           f == IF ~IsSwitch(c) THEN [c EXCEPT !.i = c.i + 1]
                ELSE [c EXCEPT !.i = c.i + 1, !.blocking = blocks, !.hasRun = runs]
<1>4. frames' = Append(Front(frames), f)
  BY DEF Switch, Replace
<1>5. blocks \in BOOLEAN /\ runs \in BOOLEAN
  OBVIOUS
<1> HIDE DEF blocks, runs
<1>6. /\ f \in Activation /\ SameCall(c, f) /\ f.i = c.i + 1
      /\ IsSwitch(c) \/ f.blocking = c.blocking
  <2>1. c.i + 1 \in Nat
    BY <1>2
  <2> HIDE DEF c
  <2>2. CASE IsSwitch(c)
    <3>1. f = [c EXCEPT !.i = c.i + 1, !.blocking = blocks, !.hasRun = runs]
      BY <2>2
    <3> QED BY <1>2, <1>5, <2>1, <2>2, <3>1 DEF Activation, SameCall, c
  <2>3. CASE ~IsSwitch(c)
    <3>1. f = [c EXCEPT !.i = c.i + 1]
      BY <2>3
    <3> QED BY <1>2, <2>1, <3>1 DEF Activation, SameCall, c
  <2> QED BY <2>2, <2>3
<1>7. IsSwitch(c) \/ c.blocking
  BY DEF Switch
<1>8. Changed(frames, f, frames')
  BY <1>4 DEF Changed
<1> HIDE DEF f
<1>9. makefiles' = makefiles /\ UNCHANGED <<program, outcome, commands, fatal, created, dangling>>
  BY DEF Switch
<1>10. AllAlike /\ SameBlockers
  BY <1>9, UnchangedAlike DEF SameBlockers
<1>11. Others
  BY <1>9 DEF Others, TypeInv, CommandsTyped
<1>12. f.i \in 1..(Len(f.body) + 1)
  BY <1>2, <1>3, <1>6 DEF SameCall
<1>13. Turned(f)
  BY <1>1, <1>6, <1>8, <1>9, <1>10, <1>11, <1>12 DEF Turned
<1> QED BY <1>1, <1>3, <1>6, <1>7, <1>13

LEMMA AdvanceTurned ==
  ASSUME TypeInv, Advance
  PROVE  \E f : /\ Turned(f) /\ outcome # Busy
                /\ f.i = Current.i + 1 /\ f.blocking = Current.blocking
<1>1. Alive /\ frames # <<>> /\ outcome # Busy /\ outcome' = Busy
  BY DEF Advance, Alive
<1>2. /\ Current \in Activation /\ Current.i \in 1..(Len(Current.body) + 1)
      /\ Len(Current.body) \in Nat /\ Current.i <= Len(Current.body)
  BY <1>1, CurrentTyped
<1> DEFINE c == Current
           f == [c EXCEPT !.i = c.i + 1]
<1>3. frames' = Append(Front(frames), f)
  BY DEF Advance, Replace
<1>4. /\ f \in Activation /\ SameCall(c, f) /\ f.i = c.i + 1 /\ f.blocking = c.blocking
  BY <1>2 DEF Activation, SameCall
<1>5. Changed(frames, f, frames')
  BY <1>3 DEF Changed
<1> HIDE DEF f
<1>6. makefiles' = makefiles /\ UNCHANGED <<program, commands, fatal, created, dangling>>
  BY DEF Advance
<1>7. AllAlike /\ SameBlockers
  BY <1>6, UnchangedAlike DEF SameBlockers
<1>8. Others
  BY <1>1, <1>6 DEF Others, TypeInv, CommandsTyped
<1>9. f.i \in 1..(Len(f.body) + 1)
  BY <1>2, <1>4 DEF SameCall
<1>10. Turned(f)
  BY <1>1, <1>4, <1>5, <1>6, <1>7, <1>8, <1>9 DEF Turned
<1> QED BY <1>1, <1>4, <1>10

LEMMA RepeatTurned ==
  ASSUME TypeInv, Repeat
  PROVE  \E f : /\ Turned(f) /\ outcome = Busy /\ AtEnd
                /\ f.i = 1 /\ f.blocking = Current.blocking
<1>1. Alive /\ frames # <<>> /\ outcome = Busy /\ AtEnd /\ outcome' = outcome
  BY DEF Repeat, Alive
<1>2. /\ Current \in Activation /\ Len(Current.body) \in Nat
      /\ Makefile \in Makefiles /\ Makefile.scopes # <<>>
  BY <1>1, CurrentTyped
<1> DEFINE c == Current
           rest == IF c.items = <<>> THEN c.items ELSE Tail(c.items)
           f == [c EXCEPT !.i = 1, !.items = rest]
<1>3. frames' = Append(Front(frames), f)
  BY DEF Repeat, Replace
<1>4. c.items \in Seq(Truths)
  BY <1>2 DEF Activation
<1>5. rest \in Seq(Truths)
  BY <1>4, HeadTailProperties
<1> HIDE DEF rest
<1>6. /\ f \in Activation /\ SameCall(c, f) /\ f.i = 1 /\ f.blocking = c.blocking
  BY <1>2, <1>5 DEF Activation, SameCall
<1>7. Changed(frames, f, frames')
  BY <1>3 DEF Changed
<1> HIDE DEF f
<1>8. UNCHANGED <<program, outcome, commands, fatal, created, dangling>>
  BY DEF Repeat
<1>9. AllAlike /\ SameBlockers
  <2>1. CASE c.op = "foreach"
    <3> DEFINE m == AddDefinition(Makefile, c.arg, Head(c.items))
    <3>1. SetMakefile(m)
      BY <2>1 DEF Repeat
    <3>2. c.items # <<>>
      BY <2>1 DEF Repeat, AnotherTurn
    <3>3. Head(c.items) \in Values
      BY <1>4, <3>2, HeadTailProperties DEF Values
    <3>4. c.arg \in Variables
      BY <1>2, <2>1 DEF Activation, Blocks, Loops
    <3>5. Like(Makefile, m) /\ m.blockers = Makefile.blockers
      BY <1>2, <3>3, <3>4, DefinitionAlike
    <3> HIDE DEF m
    <3>6. AllAlike
      BY <1>1, <3>1, <3>5, SetAlike
    <3>7. SameBlockers
      BY <1>1, <3>1, <3>5, MakefileSet DEF SameBlockers, Makefile
    <3> QED BY <3>6, <3>7
  <2>2. CASE c.op # "foreach"
    <3>1. makefiles' = makefiles
      BY <2>2 DEF Repeat
    <3> QED BY <3>1, UnchangedAlike DEF SameBlockers
  <2> QED BY <2>1, <2>2
<1>10. Others
  BY <1>8 DEF Others, TypeInv, CommandsTyped
<1>11. f.i \in 1..(Len(f.body) + 1)
  BY <1>2, <1>6 DEF SameCall
<1>12. Turned(f)
  BY <1>1, <1>6, <1>7, <1>8, <1>9, <1>10, <1>11 DEF Turned
<1> QED BY <1>1, <1>6, <1>12

---------------------------------------------------------------------------
(* Steps that call.  RunBlock gives the recorded commands to a new call and *)
(* marks their blocker as running.                                          *)
RunningBlocker == [Makefile.blockers[Recorder] EXCEPT !.running = TRUE]

Started(f) ==
  /\ frames # <<>> /\ Executing /\ Blocked /\ Current.i <= Len(Current.body) /\ outcome = Busy
  /\ Closes(Command, Makefile.blockers[Recorder]) /\ f.op \in Blocks
  /\ f.op = Makefile.blockers[Recorder].op /\ f.arg = Makefile.blockers[Recorder].arg
  /\ f.body = Makefile.blockers[Recorder].body /\ f.id = Makefile.blockers[Recorder].id
  /\ f \in Activation /\ f.dir = Current.dir /\ f.closer = Command
  /\ f.i = IF f.op = "if" THEN 1 ELSE Len(f.body) + 1
  /\ f.blocking => f.op = "if"
  /\ Called(frames, f, frames')
  /\ makefiles'[Current.dir].blockers = [Makefile.blockers EXCEPT ![Recorder] = RunningBlocker]
  /\ \A d \in DOMAIN makefiles :
       d # Current.dir => makefiles'[d].blockers = makefiles[d].blockers
  /\ AllAlike /\ Others /\ UNCHANGED <<outcome, commands, fatal, created, dangling>>

LEMMA CallAlike ==
  ASSUME TypeInv, frames # <<>>, NEW f \in Activation, f.i \in 1..(Len(f.body) + 1),
         Current.i <= Len(Current.body), Called(frames, f, frames'), outcome' = Busy,
         f.dir = Current.dir, f.op \notin {"file", "function"}, AllAlike, Others
  PROVE  TypeInv'
<1>1. ASSUME NEW d \in DOMAIN makefiles'
      PROVE  /\ makefiles'[d] \in Makefiles
             /\ Len(makefiles'[d].scopes) > Count(frames, d, "function", Len(frames))
             /\ Len(makefiles'[d].files) = Count(frames, d, "file", Len(frames))
             /\ makefiles'[d].files = <<>> => makefiles'[d].policies = 1
  BY DEF TypeInv, MakefilesTyped, AllAlike, Like
<1>2. ASSUME NEW d \in DOMAIN makefiles'
      PROVE  Count(frames, d, "file", Len(frames)) \in Nat
             /\ Count(frames, d, "function", Len(frames)) \in Nat
  BY CurrentTyped, Counted
<1>3. DOMAIN makefiles' = DOMAIN makefiles /\ DOMAIN makefiles \subseteq Directories
      /\ Current.dir \in DOMAIN makefiles
  BY CurrentTyped DEF AllAlike, TypeInv, MakefilesTyped
<1>4. ASSUME NEW d \in DOMAIN makefiles'
      PROVE  /\ Len(makefiles'[d].scopes) > Count(frames, d, "function", Len(frames))
                   + (IF f.dir = d /\ f.op = "function" THEN 1 ELSE 0)
             /\ Len(makefiles'[d].files) = Count(frames, d, "file", Len(frames))
                   + (IF f.dir = d /\ f.op = "file" THEN 1 ELSE 0)
  BY <1>1, <1>2
<1> QED BY <1>1, <1>3, <1>4, TypeCalled

BlockFrame(op, d, body, start, id, arg, closer, items, saved) ==
  [Frame(op, d, body) EXCEPT !.i = start, !.id = id, !.arg = arg, !.closer = closer,
     !.items = items, !.saved = saved]

LEMMA Framed ==
  ASSUME NEW op \in Blocks, NEW d \in Directories, NEW body \in Seq(Commands),
         NEW start \in Nat, NEW id \in Nat, NEW arg \in Variables, arg \in STRING,
         NEW closer \in Commands, NEW items \in Seq(Truths), NEW saved \in Values,
         NEW f, f = BlockFrame(op, d, body, start, id, arg, closer, items, saved)
  PROVE  /\ f.op = op /\ f.dir = d /\ f.body = body /\ f.i = start /\ f.id = id
         /\ f.arg = arg /\ f.closer = closer /\ f.items = items /\ f.saved = saved
         /\ f \in Activation
<1> DEFINE g == [Frame(op, d, body) EXCEPT !.i = start, !.id = id, !.arg = arg,
                   !.closer = closer]
<1>1. /\ DOMAIN g = {"op", "dir", "body", "i", "id", "arg", "closer", "items", "saved",
                     "blocking", "hasRun"}
      /\ g.op = op /\ g.dir = d /\ g.body = body /\ g.i = start /\ g.id = id
      /\ g.arg = arg /\ g.closer = closer
  BY DEF Frame
<1>2. f = [g EXCEPT !.items = items, !.saved = saved]
  BY DEF BlockFrame
<1> HIDE DEF g
<1>3. /\ f.op = g.op /\ f.dir = g.dir /\ f.body = g.body /\ f.i = g.i /\ f.id = g.id
      /\ f.arg = g.arg /\ f.closer = g.closer /\ f.items = items /\ f.saved = saved
  BY <1>1, <1>2
<1> DEFINE T == [op : Blocks \union {"file", "function", "macro"}, dir : Directories,
                 body : Seq(Commands), i : Nat, id : Nat, arg : STRING \union {Nothing},
                 closer : Commands \union {Nothing}, items : Seq(Truths), saved : Values \union {Nothing},
                 blocking : BOOLEAN, hasRun : BOOLEAN]
<1>4. Frame(op, d, body) \in T
  <2>1. "" = Nothing /\ <<>> \in Seq(Truths)
    BY DEF Nothing
  <2> QED BY <2>1 DEF Frame
<1>5. g \in T
  <2> DEFINE h == Frame(op, d, body)
  <2>1. h \in T
    BY <1>4
  <2> HIDE DEF h
  <2>2. [h EXCEPT !.i = start, !.id = id, !.arg = arg, !.closer = closer] \in T
    BY <2>1
  <2> QED BY <2>2 DEF h, g
<1>6. f \in T
  BY <1>2, <1>5
<1>7. f.op \in Blocks /\ f.arg \in Variables /\ f.closer \in Commands /\ f.saved \in Values
  BY <1>1, <1>3
<1>8. f \in Activation
  <2> HIDE DEF T
  <2> QED BY <1>6, <1>7 DEF Activation, T
<1> QED BY <1>1, <1>3, <1>8

LEMMA RunBlockStarted ==
  ASSUME TypeInv, RunBlock
  PROVE  TypeInv' /\ \E f : Started(f)
<1>1. Executing /\ Blocked
  BY DEF RunBlock
<1>2. frames # <<>> /\ outcome = Busy /\ Current.i <= Len(Current.body) /\ Command \in Commands
  BY <1>1, ExecutingTyped
<1> DEFINE b == Makefile.blockers[Recorder]
           start == IF b.op = "if" THEN 1 ELSE Len(b.body) + 1
           blocks == b.op = "if" /\ ~b.holds
           value == SafeValue(Makefile, b.arg)
           g == BlockFrame(b.op, Current.dir, b.body, start, b.id, b.arg, Command,
                           b.items, value)
           f == [g EXCEPT !.blocking = blocks, !.hasRun = b.holds]
           bs == [Makefile.blockers EXCEPT ![Recorder] = RunningBlocker]
           m == [Makefile EXCEPT !.blockers = bs]
<1>3. /\ Closes(Command, b) /\ b.op \in Blocks
      /\ frames' = Append(frames, f)
  BY DEF RunBlock, Blocks, BlockFrame
<1>4. SetMakefile(m)
  BY DEF RunBlock, RunningBlocker
<1>5. /\ Makefile \in Makefiles /\ Makefile.scopes # <<>> /\ Makefile.blockers \in Seq(Blocker)
      /\ Recorder \in 1..Len(Makefile.blockers) /\ b \in Blocker /\ Current \in Activation
  BY <1>1, <1>2, CurrentTyped, RecorderTyped
<1>6. b.arg \in Variables /\ b.body \in Seq(Commands) /\ b.op \in Blocks
  BY <1>3, <1>5 DEF Blocker
<1>7. b.arg \in Names /\ value \in Values /\ start \in 1..(Len(b.body) + 1) /\ start \in Nat
      /\ blocks \in BOOLEAN
  <2>1. b.arg \in Names
    BY <1>6 DEF Names
  <2>2. value \in Values
    BY <1>5, <2>1, TopScope
  <2>3. Len(b.body) \in Nat
    BY <1>6, LenProperties
  <2> QED BY <2>1, <2>2, <2>3
<1> HIDE DEF value, start
<1>8. /\ f \in Activation /\ f.op = b.op /\ f.arg = b.arg /\ f.body = b.body /\ f.id = b.id
      /\ f.dir = Current.dir /\ f.closer = Command /\ f.blocking = blocks /\ f.i = start
  <2>1. /\ Current.dir \in Directories /\ b.id \in Nat /\ b.arg \in STRING
        /\ b.items \in Seq(Truths) /\ b.holds \in BOOLEAN
    BY <1>5 DEF Blocker, Activation
  <2> HIDE DEF b, blocks
  <2>2. /\ g \in Activation /\ g.op = b.op /\ g.arg = b.arg /\ g.body = b.body /\ g.id = b.id
        /\ g.dir = Current.dir /\ g.closer = Command /\ g.i = start
    BY <1>2, <1>6, <1>7, <2>1, Framed
  <2> HIDE DEF g
  <2> QED BY <1>7, <2>1, <2>2 DEF Activation
<1>9. RunningBlocker \in Blocker
  BY <1>5 DEF RunningBlocker, Blocker
<1>10. bs \in Seq(Blocker)
  BY <1>5, <1>9, ExceptSeq
<1>12. Called(frames, f, frames')
  BY <1>3 DEF Called
<1> HIDE DEF f, bs
<1>13. Like(Makefile, m) /\ m.blockers = bs
  BY <1>5, <1>10, BlockersAlike
<1> HIDE DEF m
<1>14. AllAlike
  BY <1>2, <1>4, <1>13, SetAlike
<1>15. /\ makefiles'[Current.dir].blockers = bs
       /\ \A d \in DOMAIN makefiles :
              d # Current.dir => makefiles'[d].blockers = makefiles[d].blockers
  BY <1>2, <1>4, <1>13, MakefileSet
<1>16. UNCHANGED <<program, outcome, commands, fatal, created, dangling>>
  BY DEF RunBlock
<1>17. Others
  BY <1>16 DEF Others, TypeInv, CommandsTyped
<1>18. Started(f)
  <2>1. f.i = IF f.op = "if" THEN 1 ELSE Len(f.body) + 1
    BY <1>8 DEF start
  <2>2. f.blocking => f.op = "if"
    BY <1>8
  <2> QED BY <1>1, <1>2, <1>3, <1>8, <1>8, <1>12, <1>14, <1>15, <1>16, <1>17, <2>1, <2>2
         DEF Started, bs
<1>19. TypeInv'
  <2>1. f.i \in 1..(Len(f.body) + 1) /\ f.op \notin {"file", "function"} /\ outcome' = Busy
    BY <1>2, <1>6, <1>7, <1>8, <1>16 DEF Blocks, Loops
  <2> QED BY <1>2, <1>8, <1>8, <1>12, <1>14, <1>17, <2>1, CallAlike
<1> QED BY <1>18, <1>19

(* The scopes and list files of a makefile, as calls and returns change     *)
(* them.                                                                    *)
LEMMA ScopePushed ==
  ASSUME NEW m \in Makefiles, m.scopes # <<>>, NEW n, n = PushScope(m)
  PROVE  /\ n \in Makefiles /\ Len(m.scopes) \in Nat /\ Len(n.scopes) = Len(m.scopes) + 1
         /\ \A a \in 1..Len(m.scopes) : n.scopes[a] = m.scopes[a]
         /\ n.scopes[Len(m.scopes) + 1] = m.scopes[Len(m.scopes)]
         /\ n.files = m.files /\ n.policies = m.policies /\ n.blockers = m.blockers
<1> DEFINE s == m.scopes
           t == Append(s, Last(s))
<1>1. s \in Seq(Scope) /\ Last(s) \in Scope /\ Last(s) = s[Len(s)]
  BY LastOf DEF Makefiles
<1>2. /\ t \in Seq(Scope) /\ Len(s) \in Nat /\ Len(t) = Len(s) + 1 /\ t[Len(t)] = Last(s)
      /\ \A a \in 1..Len(s) : t[a] = s[a]
  BY <1>1, Pushed
<1>3. n = [m EXCEPT !.scopes = t]
  BY DEF PushScope
<1> HIDE DEF t
<1>4. n \in Makefiles /\ n.scopes = t /\ n.files = m.files /\ n.policies = m.policies /\ n.blockers = m.blockers
  BY <1>2, <1>3 DEF Makefiles
<1> QED BY <1>1, <1>2, <1>4

LEMMA ScopePopped ==
  ASSUME NEW m \in Makefiles, m.scopes # <<>>, NEW n, n = PopScope(m)
  PROVE  /\ n \in Makefiles /\ Len(m.scopes) \in Nat \ {0} /\ Len(n.scopes) = Len(m.scopes) - 1
         /\ \A a \in 1..Len(n.scopes) : n.scopes[a] = m.scopes[a]
         /\ n.files = m.files /\ n.policies = m.policies /\ n.blockers = m.blockers
<1> DEFINE s == m.scopes
           t == Front(s)
<1>1. s \in Seq(Scope)
  BY DEF Makefiles
<1>2. /\ t \in Seq(Scope) /\ Len(s) \in Nat \ {0} /\ Len(t) = Len(s) - 1
      /\ \A a \in 1..Len(t) : t[a] = s[a]
  BY <1>1, Popped
<1>3. n = [m EXCEPT !.scopes = t]
  BY DEF PopScope
<1> HIDE DEF t
<1>4. n \in Makefiles /\ n.scopes = t /\ n.files = m.files /\ n.policies = m.policies /\ n.blockers = m.blockers
  BY <1>2, <1>3 DEF Makefiles
<1> QED BY <1>2, <1>4

LEMMA ListSet ==
  ASSUME NEW m \in Makefiles, m.scopes # <<>>, NEW x \in Values, NEW n, n = AddDefinition(m, "list", x)
  PROVE  /\ n \in Makefiles /\ Len(m.scopes) \in Nat \ {0} /\ Len(n.scopes) = Len(m.scopes)
         /\ \A a \in 1..Len(m.scopes) : a # Len(m.scopes) => n.scopes[a] = m.scopes[a]
         /\ n.scopes[Len(m.scopes)]["list"] = x /\ n.scopes # <<>>
         /\ n.files = m.files /\ n.policies = m.policies /\ n.blockers = m.blockers
<1>1. "list" \in Names
  BY DEF Names
<1>2. Len(m.scopes) \in Nat \ {0} /\ Len(m.scopes) \in 1..Len(m.scopes)
  BY <1>1, TopScope
<1>3. n = [m EXCEPT !.scopes[Len(m.scopes)]["list"] = x]
  BY DEF AddDefinition
<1>4. /\ n \in Makefiles /\ Len(n.scopes) = Len(m.scopes)
      /\ n.files = m.files /\ n.policies = m.policies /\ n.blockers = m.blockers
      /\ \A k \in 1..Len(m.scopes) : k # Len(m.scopes) => n.scopes[k] = m.scopes[k]
      /\ n.scopes[Len(m.scopes)]["list"] = x
  BY <1>1, <1>2, <1>3, ScopeChanged
<1>5. Len(<<>>) = 0
  BY EmptySeq
<1> QED BY <1>2, <1>4, <1>5

LEMMA FileEntered ==
  ASSUME NEW m \in Makefiles, m.scopes # <<>>, NEW name \in FileNames, NEW n, n = Enter(m, name)
  PROVE  /\ n \in Makefiles /\ Len(m.scopes) \in Nat \ {0} /\ Len(n.scopes) = Len(m.scopes)
         /\ \A a \in 1..Len(m.scopes) : a # Len(m.scopes) => n.scopes[a] = m.scopes[a]
         /\ n.scopes[Len(m.scopes)]["list"] = name
         /\ Len(m.files) \in Nat /\ Len(n.files) = Len(m.files) + 1 /\ n.files # <<>>
         /\ n.files[Len(m.files) + 1] = name
         /\ \A a \in 1..Len(m.files) : n.files[a] = m.files[a]
         /\ n.blockers = m.blockers
<1> DEFINE k == AddDefinition(m, "list", name)
           t == Append(k.files, name)
<1>1. name \in Values
  BY DEF Values
<1>2. /\ k \in Makefiles /\ Len(m.scopes) \in Nat \ {0} /\ Len(k.scopes) = Len(m.scopes)
      /\ \A a \in 1..Len(m.scopes) : a # Len(m.scopes) => k.scopes[a] = m.scopes[a]
      /\ k.scopes[Len(m.scopes)]["list"] = name
      /\ k.files = m.files /\ k.blockers = m.blockers
  BY <1>1, ListSet
<1>3. k.files \in Seq(FileNames)
  BY <1>2 DEF Makefiles
<1>4. /\ t \in Seq(FileNames) /\ Len(k.files) \in Nat /\ Len(t) = Len(k.files) + 1
      /\ t[Len(t)] = name /\ t # <<>> /\ \A a \in 1..Len(k.files) : t[a] = k.files[a]
  BY <1>3, Pushed
<1>5. n = [k EXCEPT !.files = t]
  BY DEF Enter
<1> HIDE DEF k, t
<1>6. n \in Makefiles /\ n.files = t /\ n.scopes = k.scopes /\ n.blockers = k.blockers
  BY <1>2, <1>4, <1>5 DEF Makefiles
<1> QED BY <1>2, <1>4, <1>6

LEMMA FileLeft ==
  ASSUME NEW m \in Makefiles, m.scopes # <<>>, m.files # <<>>, NEW f, f.saved \in Values,
         NEW n, n = LeaveFile(f, m)
  PROVE  /\ n \in Makefiles /\ Len(m.scopes) \in Nat \ {0} /\ Len(n.scopes) = Len(m.scopes)
         /\ \A a \in 1..Len(m.scopes) : a # Len(m.scopes) => n.scopes[a] = m.scopes[a]
         /\ n.scopes[Len(m.scopes)]["list"] = f.saved
         /\ Len(m.files) \in Nat \ {0} /\ Len(n.files) = Len(m.files) - 1
         /\ \A a \in 1..Len(n.files) : n.files[a] = m.files[a]
         /\ n.files = <<>> => n.policies = 1
         /\ n.blockers = m.blockers
<1> DEFINE k == AddDefinition(m, "list", f.saved)
           t == Front(k.files)
           p == IF Len(m.files) = 1 THEN 1 ELSE k.policies
<1>2. /\ k \in Makefiles /\ Len(m.scopes) \in Nat \ {0} /\ Len(k.scopes) = Len(m.scopes)
      /\ \A a \in 1..Len(m.scopes) : a # Len(m.scopes) => k.scopes[a] = m.scopes[a]
      /\ k.scopes[Len(m.scopes)]["list"] = f.saved
      /\ k.files = m.files /\ k.blockers = m.blockers
  BY ListSet
<1>3. k.files \in Seq(FileNames) /\ k.policies \in Nat \ {0}
  BY <1>2 DEF Makefiles
<1>4. /\ t \in Seq(FileNames) /\ Len(k.files) \in Nat \ {0} /\ Len(t) = Len(k.files) - 1
      /\ \A a \in 1..Len(t) : t[a] = k.files[a]
  BY <1>2, <1>3, Popped
<1>5. n = [k EXCEPT !.files = t, !.policies = p]
  BY DEF LeaveFile
<1>6. p \in Nat \ {0}
  BY <1>3
<1>7. Len(<<>>) = 0
  BY EmptySeq
<1>8. t = <<>> => p = 1
  <2> HIDE DEF k, t
  <2> QED BY <1>2, <1>4, <1>7
<1> HIDE DEF k, t, p
<1>9. n \in Makefiles /\ n.files = t /\ n.policies = p /\ n.scopes = k.scopes /\ n.blockers = k.blockers
  BY <1>2, <1>4, <1>5, <1>6 DEF Makefiles
<1> QED BY <1>2, <1>4, <1>8, <1>9

---------------------------------------------------------------------------
(* The call of a function or macro, and of a list file.                     *)
LEMMA BodyFramed ==
  ASSUME NEW op \in {"function", "macro"}, NEW d \in Directories, NEW body \in Seq(Commands),
         NEW f, f = Frame(op, d, body)
  PROVE  /\ f \in Activation /\ f.op = op /\ f.dir = d /\ f.body = body /\ f.i = 1 /\ ~f.blocking
<1> DEFINE T == [op : Blocks \union {"file", "function", "macro"}, dir : Directories,
                 body : Seq(Commands), i : Nat, id : Nat, arg : STRING \union {Nothing},
                 closer : Commands \union {Nothing}, items : Seq(Truths),
                 saved : Values \union {Nothing}, blocking : BOOLEAN, hasRun : BOOLEAN]
<1>1. f \in T /\ f.op = op /\ f.dir = d /\ f.body = body /\ f.i = 1 /\ ~f.blocking
  <2>1. "" = Nothing /\ <<>> \in Seq(Truths)
    BY DEF Nothing
  <2> QED BY <2>1 DEF Frame
<1>2. f.op \notin Blocks \union {"file"}
  BY <1>1 DEF Blocks, Loops
<1>3. f \in Activation
  <2> HIDE DEF T
  <2> QED BY <1>1, <1>2 DEF Activation, T
<1> QED BY <1>1, <1>3

LEMMA FileFramed ==
  ASSUME NEW d \in Directories, NEW n, program.files[n] \in Seq(Commands),
         NEW m, SafeValue(m, "list") \in Values, NEW f, f = FileFrame(d, m, n)
  PROVE  /\ f \in Activation /\ f.op = "file" /\ f.dir = d /\ f.body = program.files[n]
         /\ f.i = 1 /\ ~f.blocking /\ f.saved = SafeValue(m, "list")
<1> DEFINE T == [op : Blocks \union {"file", "function", "macro"}, dir : Directories,
                 body : Seq(Commands), i : Nat, id : Nat, arg : STRING \union {Nothing},
                 closer : Commands \union {Nothing}, items : Seq(Truths),
                 saved : Values \union {Nothing}, blocking : BOOLEAN, hasRun : BOOLEAN]
           body == program.files[n]
           x == SafeValue(m, "list")
           g == Frame("file", d, body)
<1>1. g \in T /\ g.op = "file" /\ g.dir = d /\ g.body = body /\ g.i = 1 /\ ~g.blocking
  <2>1. "" = Nothing /\ <<>> \in Seq(Truths)
    BY DEF Nothing
  <2> QED BY <2>1 DEF Frame
<1>2. /\ f \in T /\ f.op = "file" /\ f.dir = d /\ f.body = body /\ f.i = 1
      /\ ~f.blocking /\ f.saved = x
  <2>1. f = [g EXCEPT !.saved = x]
    BY DEF FileFrame
  <2> HIDE DEF g
  <2> QED BY <1>1, <2>1
<1>3. f.op \notin Blocks
  BY <1>2 DEF Blocks, Loops
<1>4. f \in Activation
  <2> HIDE DEF T
  <2> QED BY <1>2, <1>3 DEF Activation, T
<1> QED BY <1>2, <1>4

LEMMA MakefileMade ==
  ASSUME NEW x \in Scope, NEW m, m = NewMakefile(x)
  PROVE  /\ m \in Makefiles /\ m.scopes = <<x>> /\ m.scopes # <<>> /\ Len(m.scopes) = 1
         /\ m.files = <<>> /\ Len(m.files) = 0 /\ m.blockers = <<>>
<1>1. <<x>> \in Seq(Scope) /\ Len(<<x>>) = 1 /\ <<x>> # <<>> /\ <<>> \in Seq(Blocker) /\ <<>> \in Seq(FileNames)
  OBVIOUS
<1> QED BY <1>1 DEF NewMakefile, Makefiles

Entered(f) ==
  /\ frames # <<>> /\ Executing /\ ~Blocked /\ ~fatal /\ outcome = Busy
  /\ Current.i <= Len(Current.body) /\ Command.op \notin Openers
  /\ f \in Activation /\ f.op \in {"file", "function", "macro"} /\ f.i = 1 /\ ~f.blocking
  /\ Called(frames, f, frames')
  /\ Others /\ UNCHANGED <<outcome, commands, fatal, created, dangling>>
  /\ \/ f.op = "file" /\ \E n \in DOMAIN program.files : f.body = program.files[n]
     \/ f.op # "file" /\ \E n \in DOMAIN commands : \E w \in DOMAIN commands[n] :
          f.body = commands[n][w].body
  /\ \/ f.op = "macro" /\ f.dir = Current.dir /\ SetMakefile(Makefile)
     \/ f.op = "function" /\ f.dir = Current.dir /\ SetMakefile(PushScope(Makefile))
     \/ /\ f.op = "file" /\ f.dir = Current.dir /\ f.saved = SafeValue(Makefile, "list")
        /\ \E n \in FileNames : SetMakefile(Enter(Makefile, n))
     \/ /\ f.op = "file" /\ f.dir = "sub" /\ "sub" \notin DOMAIN makefiles
        /\ makefiles' = [d \in Directories |->
             IF d = "sub" THEN Enter(NewMakefile(Last(Makefile.scopes)), "sub") ELSE makefiles[d]]

LEMMA ProgramFile ==
  ASSUME TypeInv, NEW n \in DOMAIN program.files
  PROVE  n \in FileNames /\ program.files[n] \in Seq(Commands)
  BY ProgramsAssumption DEF TypeInv, FileNames

LEMMA CallEntered ==
  ASSUME TypeInv, Call \/ Include \/ AddSubDirectory, frames' # frames
  PROVE  \E f : Entered(f)
<1>1. /\ Executing /\ ~Blocked /\ ~fatal /\ Command.op \notin Openers
      /\ UNCHANGED <<program, commands, created, dangling>>
  BY DEF Call, Include, AddSubDirectory, Invoked, Openers, Loops
<1>2. frames # <<>> /\ outcome = Busy /\ Current.i <= Len(Current.body)
  BY <1>1, ExecutingTyped
<1>3. /\ Makefile \in Makefiles /\ Makefile.scopes # <<>> /\ Current \in Activation
      /\ Current.dir \in DOMAIN makefiles /\ Current.dir \in Directories
  BY <1>2, CurrentTyped DEF Activation
<1>4. CASE Call
  <2> DEFINE n == Command.arg
             w == IF Command.op = "call" THEN 1 ELSE 2
             p == commands[n][w]
             f == Frame(p.op, Current.dir, p.body)
  <2>1. /\ n \in DOMAIN commands /\ w \in DOMAIN commands[n]
        /\ frames' = Append(frames, f)
        /\ SetMakefile(IF p.op = "function" THEN PushScope(Makefile) ELSE Makefile)
        /\ UNCHANGED <<outcome, fatal>>
    BY <1>4 DEF Call
  <2>2. p \in Definition
    <3>1. commands[n] \in Seq(Definition)
      BY <2>1 DEF TypeInv, CommandsTyped
    <3> HIDE DEF n, w
    <3> QED BY <2>1, <3>1, LenProperties
  <2> HIDE DEF n, w
  <2>3. p.op \in {"function", "macro"} /\ p.body \in Seq(Commands)
    BY <2>2 DEF Definition
  <2>4. /\ f \in Activation /\ f.op = p.op /\ f.dir = Current.dir /\ f.body = p.body /\ f.i = 1
        /\ ~f.blocking
    BY <1>3, <2>3, BodyFramed
  <2>5. Called(frames, f, frames')
    BY <2>1 DEF Called
  <2> HIDE DEF f
  <2>6. f.body = commands[n][w].body
    BY <2>4
  <2> HIDE DEF p
  <2>7. \/ f.op = "macro" /\ f.dir = Current.dir /\ SetMakefile(Makefile)
        \/ f.op = "function" /\ f.dir = Current.dir /\ SetMakefile(PushScope(Makefile))
    <3>1. CASE p.op = "function"
      BY <3>1, <2>1, <2>4
    <3>2. CASE p.op = "macro"
      BY <3>2, <2>1, <2>4
    <3> QED BY <3>1, <3>2, <2>3
  <2>8. Others
    BY <1>1, <1>2, <2>1 DEF Others, TypeInv, CommandsTyped
  <2>9. f.op # "file" /\ f.op \in {"file", "function", "macro"}
    BY <2>3, <2>4
  <2> QED BY <1>1, <1>2, <2>1, <2>4, <2>5, <2>6, <2>7, <2>8, <2>9 DEF Entered
<1>5. CASE Include
  <2> DEFINE n == Command.arg
             f == FileFrame(Current.dir, Makefile, n)
  <2>1. /\ n \in DOMAIN program.files /\ frames' = Append(frames, f)
        /\ SetMakefile(Enter(Makefile, n)) /\ UNCHANGED <<outcome, fatal>>
    BY <1>5 DEF Include
  <2>2. n \in FileNames /\ program.files[n] \in Seq(Commands)
    BY <2>1, ProgramFile
  <2>3. SafeValue(Makefile, "list") \in Values
    BY <1>3, TopScope DEF Names
  <2>4. f = FileFrame(Current.dir, Makefile, n)
    OBVIOUS
  <2>5. Called(frames, f, frames')
    BY <2>1 DEF Called
  <2> HIDE DEF f, n
  <2>6. /\ f \in Activation /\ f.op = "file" /\ f.dir = Current.dir /\ f.body = program.files[n]
        /\ f.i = 1 /\ ~f.blocking /\ f.saved = SafeValue(Makefile, "list")
    BY <1>3, <2>2, <2>3, <2>4, FileFramed
  <2>7. Others
    BY <1>1, <1>2, <2>1, <1>5 DEF Others, TypeInv, CommandsTyped, Include
  <2> QED BY <1>1, <1>2, <2>1, <2>2, <2>5, <2>6, <2>7 DEF Entered
<1>6. CASE AddSubDirectory
  <2> DEFINE m == NewMakefile(Last(Makefile.scopes))
             f == FileFrame("sub", m, "sub")
  <2>1. /\ "sub" \notin DOMAIN makefiles /\ frames' = Append(frames, f)
        /\ makefiles' = [d \in Directories |-> IF d = "sub" THEN Enter(m, "sub") ELSE makefiles[d]]
        /\ UNCHANGED <<outcome, fatal>>
    BY <1>6 DEF AddSubDirectory
  <2>2. "sub" \in DOMAIN program.files
    BY ProgramsAssumption DEF TypeInv, Directories
  <2>3. "sub" \in FileNames /\ program.files["sub"] \in Seq(Commands)
    BY <2>2, ProgramFile
  <2>4. Last(Makefile.scopes) \in Scope /\ "list" \in Names
    BY <1>3, TopScope DEF Names
  <2>5. m \in Makefiles /\ m.scopes # <<>>
    BY <2>4, MakefileMade
  <2>6. SafeValue(m, "list") \in Values
    BY <2>4, <2>5, TopScope
  <2>7. f = FileFrame("sub", m, "sub") /\ "sub" \in Directories
    BY DEF Directories
  <2>8. Called(frames, f, frames')
    BY <2>1 DEF Called
  <2> HIDE DEF f
  <2>9. /\ f \in Activation /\ f.op = "file" /\ f.dir = "sub" /\ f.body = program.files["sub"]
        /\ f.i = 1 /\ ~f.blocking
    BY <2>3, <2>6, <2>7, FileFramed
  <2>10. Others
    BY <1>1, <1>2, <2>1, <1>6 DEF Others, TypeInv, CommandsTyped
  <2> QED BY <1>1, <1>2, <2>1, <2>2, <2>8, <2>9, <2>10 DEF Entered
<1> QED BY <1>4, <1>5, <1>6

LEMMA LikeTwice ==
  ASSUME NEW m \in Makefiles, NEW n, NEW k, Like(m, n), Like(n, k)
  PROVE  Like(m, k)
  BY DEF Like

LEMMA EnteredTyped ==
  ASSUME TypeInv, NEW f, Entered(f)
  PROVE  TypeInv'
<1> DEFINE n == Len(frames)
           C(d, op) == Count(frames, d, op, n)
<1>1. /\ frames # <<>> /\ f \in Activation /\ f.i = 1 /\ Called(frames, f, frames')
      /\ Current.i <= Len(Current.body) /\ outcome' = Busy /\ Others
  BY DEF Entered
<1>2. /\ n \in Nat \ {0} /\ Makefile \in Makefiles /\ Makefile.scopes # <<>>
      /\ Makefile.files # <<>> /\ Current.dir \in DOMAIN makefiles /\ frames \in Seq(Activation)
  BY <1>1, CurrentTyped
<1>3. f.i \in 1..(Len(f.body) + 1)
  <2>1. f.body \in Seq(Commands)
    BY <1>1 DEF Activation
  <2>2. Len(f.body) \in Nat
    BY <2>1, LenProperties
  <2> QED BY <1>1, <2>2
<1>4. /\ "top" \in DOMAIN makefiles /\ DOMAIN makefiles \subseteq Directories
      /\ \A d \in DOMAIN makefiles :
           /\ makefiles[d] \in Makefiles
           /\ Len(makefiles[d].scopes) > C(d, "function")
           /\ Len(makefiles[d].files) = C(d, "file")
           /\ makefiles[d].files = <<>> => makefiles[d].policies = 1
  BY DEF TypeInv, MakefilesTyped
<1>5. ASSUME NEW d, NEW op
      PROVE  C(d, op) \in Nat
  BY <1>2, Counted
<1>6. Makefile = makefiles[Current.dir]
  BY DEF Makefile
<1> HIDE DEF C, n
<1>7. CASE f.op = "macro" /\ f.dir = Current.dir /\ SetMakefile(Makefile)
  <2>1. AllAlike
    BY <1>1, <1>2, <1>7, SameAlike, SetAlike
  <2> QED BY <1>1, <1>3, <1>7, <2>1, CallAlike
<1>8. CASE f.op = "function" /\ f.dir = Current.dir /\ SetMakefile(PushScope(Makefile))
  <2> DEFINE k == PushScope(Makefile)
  <2>1. /\ k \in Makefiles /\ Len(Makefile.scopes) \in Nat /\ Len(k.scopes) = Len(Makefile.scopes) + 1
        /\ k.files = Makefile.files
    BY <1>2, ScopePushed
  <2>2. SetMakefile(k)
    BY <1>8
  <2> HIDE DEF k
  <2>3. /\ DOMAIN makefiles' = DOMAIN makefiles /\ makefiles'[Current.dir] = k
        /\ \A d \in DOMAIN makefiles : d # Current.dir => makefiles'[d] = makefiles[d]
    BY <1>1, <2>2, MakefileSet
  <2>4. ASSUME NEW d \in DOMAIN makefiles'
        PROVE  /\ makefiles'[d] \in Makefiles
               /\ Len(makefiles'[d].scopes) > C(d, "function")
                    + (IF f.dir = d /\ f.op = "function" THEN 1 ELSE 0)
               /\ Len(makefiles'[d].files) = C(d, "file")
                    + (IF f.dir = d /\ f.op = "file" THEN 1 ELSE 0)
               /\ makefiles'[d].files = <<>> => makefiles'[d].policies = 1
    <3>1. CASE d = Current.dir
      BY <3>1, <1>2, <1>4, <1>5, <1>6, <1>8, <2>1, <2>3
    <3>2. CASE d # Current.dir
      BY <3>2, <1>4, <1>5, <1>8, <2>3
    <3> QED BY <3>1, <3>2
  <2> QED BY <1>1, <1>2, <1>3, <1>4, <1>8, <2>3, <2>4, TypeCalled DEF C, n
<1>9. CASE f.op = "file" /\ f.dir = Current.dir /\ \E name \in FileNames : SetMakefile(Enter(Makefile, name))
  <2>1. PICK name \in FileNames : SetMakefile(Enter(Makefile, name))
    BY <1>9
  <2> DEFINE k == Enter(Makefile, name)
  <2>2. /\ k \in Makefiles /\ Len(k.scopes) = Len(Makefile.scopes)
        /\ Len(Makefile.files) \in Nat /\ Len(k.files) = Len(Makefile.files) + 1 /\ k.files # <<>>
    BY <1>2, FileEntered
  <2>3. SetMakefile(k)
    BY <2>1
  <2> HIDE DEF k
  <2>4. /\ DOMAIN makefiles' = DOMAIN makefiles /\ makefiles'[Current.dir] = k
        /\ \A d \in DOMAIN makefiles : d # Current.dir => makefiles'[d] = makefiles[d]
    BY <1>1, <2>3, MakefileSet
  <2>5. ASSUME NEW d \in DOMAIN makefiles'
        PROVE  /\ makefiles'[d] \in Makefiles
               /\ Len(makefiles'[d].scopes) > C(d, "function")
                    + (IF f.dir = d /\ f.op = "function" THEN 1 ELSE 0)
               /\ Len(makefiles'[d].files) = C(d, "file")
                    + (IF f.dir = d /\ f.op = "file" THEN 1 ELSE 0)
               /\ makefiles'[d].files = <<>> => makefiles'[d].policies = 1
    <3>1. CASE d = Current.dir
      BY <3>1, <1>2, <1>4, <1>5, <1>6, <1>9, <2>2, <2>4
    <3>2. CASE d # Current.dir
      BY <3>2, <1>4, <1>5, <1>9, <2>4
    <3> QED BY <3>1, <3>2
  <2> QED BY <1>1, <1>2, <1>3, <1>4, <1>9, <2>4, <2>5, TypeCalled DEF C, n
<1>10. CASE /\ f.op = "file" /\ f.dir = "sub" /\ "sub" \notin DOMAIN makefiles
            /\ makefiles' = [d \in Directories |->
                 IF d = "sub" THEN Enter(NewMakefile(Last(Makefile.scopes)), "sub") ELSE makefiles[d]]
  <2> DEFINE m == NewMakefile(Last(Makefile.scopes))
             k == Enter(m, "sub")
  <2>1. Last(Makefile.scopes) \in Scope
    BY <1>2, TopScope DEF Names
  <2>2. m \in Makefiles /\ m.scopes # <<>> /\ Len(m.scopes) = 1 /\ Len(m.files) = 0
    BY <2>1, MakefileMade
  <2>3. "sub" \in FileNames
    BY ProgramsAssumption, ProgramFile DEF TypeInv, Directories
  <2>4. /\ k \in Makefiles /\ Len(k.scopes) = Len(m.scopes)
        /\ Len(k.files) = Len(m.files) + 1 /\ k.files # <<>>
    BY <2>2, <2>3, FileEntered
  <2>5. makefiles' = [d \in Directories |-> IF d = "sub" THEN k ELSE makefiles[d]]
    BY <1>10
  <2> HIDE DEF k, m
  <2>6. \A l \in 1..n : frames[l].dir # "sub"
    BY <1>10 DEF TypeInv, FramesTyped, n
  <2>7. C("sub", "function") = 0 /\ C("sub", "file") = 0
    BY <1>2, <2>6, CountNone DEF C
  <2>8. /\ DOMAIN makefiles' = Directories /\ Directories = {"top", "sub"} /\ DOMAIN makefiles = {"top"}
        /\ makefiles'["sub"] = k /\ makefiles'["top"] = makefiles["top"]
    BY <1>4, <1>10, <2>5 DEF Directories
  <2>9. ASSUME NEW d \in DOMAIN makefiles'
        PROVE  /\ makefiles'[d] \in Makefiles
               /\ Len(makefiles'[d].scopes) > C(d, "function")
                    + (IF f.dir = d /\ f.op = "function" THEN 1 ELSE 0)
               /\ Len(makefiles'[d].files) = C(d, "file")
                    + (IF f.dir = d /\ f.op = "file" THEN 1 ELSE 0)
               /\ makefiles'[d].files = <<>> => makefiles'[d].policies = 1
    <3>1. CASE d = "sub"
      <4>1. /\ Len(k.scopes) = 1 /\ Len(k.files) = 1 /\ k.files # <<>> /\ k \in Makefiles
            /\ makefiles'[d] = k /\ C(d, "function") = 0 /\ C(d, "file") = 0
        BY <3>1, <2>2, <2>4, <2>7, <2>8
      <4>2. f.dir = d /\ f.op = "file" /\ f.op # "function"
        BY <3>1, <1>10
      <4>3. /\ Len(makefiles'[d].scopes) = 1 /\ Len(makefiles'[d].files) = 1
            /\ makefiles'[d] \in Makefiles /\ makefiles'[d].files # <<>>
        BY <4>1
      <4>4. /\ C(d, "function") + (IF f.dir = d /\ f.op = "function" THEN 1 ELSE 0) = 0
            /\ C(d, "file") + (IF f.dir = d /\ f.op = "file" THEN 1 ELSE 0) = 1
        BY <4>1, <4>2
      <4> QED BY <4>3, <4>4
    <3>2. CASE d = "top"
      BY <3>2, <1>4, <1>5, <1>10, <2>8
    <3> QED BY <3>1, <3>2, <2>8
  <2>10. f.dir \in DOMAIN makefiles' /\ DOMAIN makefiles \subseteq DOMAIN makefiles'
         /\ DOMAIN makefiles' \subseteq Directories
    BY <1>10, <2>8
  <2> QED BY <1>1, <1>3, <1>10, <2>9, <2>10, TypeCalled DEF C, n
<1> QED BY <1>7, <1>8, <1>9, <1>10 DEF Entered

---------------------------------------------------------------------------
(* The end of a call.                                                       *)
Left(k) ==
  /\ frames # <<>> /\ Alive /\ Returned(frames, frames') /\ SetMakefile(k) /\ k \in Makefiles
  /\ \/ Current.op = "file" /\ k = LeaveFile(Current, Makefile)
     \/ Current.op = "function" /\ k = LeaveFunction(Makefile)
     \/ Current.op = "macro" /\ k = Makefile
     \/ Current.op \in Blocks /\ k = LeaveBlock(Current, Makefile) /\ Like(Makefile, k)
  /\ Len(frames) # 1 => outcome' \in Statuses
  /\ outcome' = Busy \/ outcome' \in Statuses
  /\ UNCHANGED <<program, commands, fatal, created>>
  /\ Others

LEMMA LeaveLeft ==
  ASSUME TypeInv, Leave
  PROVE  \E k : Left(k)
<1>1. frames # <<>> /\ Alive /\ Returned(frames, frames') /\ UNCHANGED <<program, commands, fatal, created>>
  BY DEF Leave, Alive, Returned
<1>2. /\ Makefile \in Makefiles /\ Makefile.scopes # <<>> /\ Makefile.files # <<>>
      /\ Current \in Activation
  BY <1>1, CurrentTyped
<1>3. /\ Current.op \in Blocks \union {"file", "function", "macro"}
      /\ Current.op \in Blocks => Current.arg \in Variables
      /\ Current.op \in Blocks \union {"file"} => Current.saved \in Values
  BY <1>2 DEF Activation
<1>4. /\ Len(frames) # 1 => outcome' \in Statuses
      /\ outcome' = Busy \/ outcome' \in Statuses
  <2>1. Passes[Current.op] \in Statuses
    BY <1>3 DEF Passes, Statuses, Blocks, Loops
  <2>2. outcome' = IF Len(frames) = 1 THEN Busy ELSE outcome \intersect Passes[Current.op]
    BY DEF Leave
  <2> QED BY <2>1, <2>2 DEF Statuses
<1>5. dangling' \in BOOLEAN
  BY DEF Leave
<1>6. Others
  BY <1>1, <1>4, <1>5 DEF Others, TypeInv, CommandsTyped
<1> DEFINE k == CASE Current.op = "file"     -> LeaveFile(Current, Makefile)
                  [] Current.op = "function" -> LeaveFunction(Makefile)
                  [] Current.op = "macro"    -> Makefile
                  [] OTHER                   -> LeaveBlock(Current, Makefile)
<1>7. SetMakefile(k)
  BY DEF Leave
<1>8. CASE Current.op = "file"
  <2>1. LeaveFile(Current, Makefile) \in Makefiles
    BY <1>8, <1>2, <1>3, FileLeft
  <2> QED BY <1>1, <1>4, <1>6, <1>7, <1>8, <2>1 DEF Left
<1>9. CASE Current.op = "function"
  <2>1. LeaveFunction(Makefile) \in Makefiles
    BY <1>2, ScopePopped DEF LeaveFunction
  <2> QED BY <1>1, <1>4, <1>6, <1>7, <1>9, <2>1 DEF Left
<1>10. CASE Current.op = "macro"
  BY <1>1, <1>2, <1>4, <1>6, <1>7, <1>10 DEF Left
<1>11. CASE Current.op \in Blocks
  <2> DEFINE m == IF Current.op = "foreach" THEN AddDefinition(Makefile, Current.arg, Current.saved)
                  ELSE Makefile
             l == LeaveBlock(Current, Makefile)
  <2>1. Current.op \notin {"file", "function", "macro"}
    BY <1>11 DEF Blocks, Loops
  <2>2. Like(Makefile, m)
    BY <1>2, <1>3, <1>11, DefinitionAlike, SameAlike
  <2>3. l = RemoveFunctionBlocker(m, Current.closer)
    BY DEF LeaveBlock
  <2> HIDE DEF m, l
  <2>4. m \in Makefiles
    BY <2>2 DEF Like
  <2>5. Like(m, l)
    BY <2>3, <2>4, BlockerRemoved
  <2>6. Like(Makefile, l)
    BY <1>2, <2>2, <2>5, LikeTwice
  <2>7. l \in Makefiles
    BY <2>6 DEF Like
  <2>8. SetMakefile(l)
    BY <1>7, <2>1 DEF l
  <2> QED BY <1>1, <1>4, <1>6, <1>11, <2>6, <2>7, <2>8 DEF Left, l
<1> QED BY <1>3, <1>8, <1>9, <1>10, <1>11

LEMMA LeftTyped ==
  ASSUME TypeInv, NEW k, Left(k)
  PROVE  TypeInv'
<1> DEFINE n == Len(frames)
           C(d, op) == Count(frames, d, op, n)
           D(d, op) == Count(frames, d, op, n - 1)
<1>1. frames # <<>> /\ Returned(frames, frames') /\ SetMakefile(k) /\ k \in Makefiles
  BY DEF Left
<1>2. /\ n \in Nat \ {0} /\ Makefile \in Makefiles /\ Makefile.scopes # <<>> /\ Current = frames[n]
      /\ Makefile.files # <<>> /\ Current.dir \in DOMAIN makefiles /\ frames \in Seq(Activation)
      /\ Current \in Activation
  BY <1>1, CurrentTyped
<1>3. /\ "top" \in DOMAIN makefiles /\ DOMAIN makefiles \subseteq Directories
      /\ \A d \in DOMAIN makefiles :
           /\ makefiles[d] \in Makefiles
           /\ Len(makefiles[d].scopes) > C(d, "function")
           /\ Len(makefiles[d].files) = C(d, "file")
           /\ makefiles[d].files = <<>> => makefiles[d].policies = 1
  BY DEF TypeInv, MakefilesTyped
<1>4. ASSUME NEW d, NEW op
      PROVE  /\ C(d, op) \in Nat /\ D(d, op) \in Nat
             /\ C(d, op) = D(d, op) + (IF Current.dir = d /\ Current.op = op THEN 1 ELSE 0)
  <2>1. n - 1 \in 0..(n - 1) /\ n - 1 \in Nat
    BY <1>2
  <2>2. C(d, op) = D(d, op) + (IF frames[n].dir = d /\ frames[n].op = op THEN 1 ELSE 0)
    BY <1>1, <1>2, <2>1, CountsReturned
  <2>3. C(d, op) \in Nat /\ D(d, op) \in Nat
    BY <1>2, <2>1, Counted
  <2> QED BY <1>2, <2>2, <2>3
<1>5. Makefile = makefiles[Current.dir]
  BY DEF Makefile
<1> HIDE DEF C, D, n
<1>6. /\ Len(k.scopes) > D(Current.dir, "function")
      /\ Len(k.files) = D(Current.dir, "file")
      /\ k.files = <<>> => k.policies = 1
  <2>1. CASE Current.op = "file" /\ k = LeaveFile(Current, Makefile)
    <3>1. Current.saved \in Values
      BY <1>2, <2>1 DEF Activation
    <3>2. /\ Len(k.scopes) = Len(Makefile.scopes) /\ Len(Makefile.files) \in Nat \ {0}
          /\ Len(k.files) = Len(Makefile.files) - 1
          /\ k.files = <<>> => k.policies = 1
      BY <1>2, <2>1, <3>1, FileLeft
    <3>3. /\ C(Current.dir, "file") = D(Current.dir, "file") + 1
          /\ C(Current.dir, "function") = D(Current.dir, "function")
      BY <2>1, <1>4
    <3>4. /\ D(Current.dir, "function") \in Nat /\ D(Current.dir, "file") \in Nat
      BY <1>4
    <3>5. /\ Len(Makefile.scopes) > C(Current.dir, "function")
          /\ Len(Makefile.files) = C(Current.dir, "file")
      BY <1>2, <1>3, <1>5
    <3> QED BY <3>2, <3>3, <3>4, <3>5
  <2>2. CASE Current.op = "function" /\ k = LeaveFunction(Makefile)
    <3>3. /\ C(Current.dir, "file") = D(Current.dir, "file")
          /\ C(Current.dir, "function") = D(Current.dir, "function") + 1
      BY <2>2, <1>4
    <3>4. /\ D(Current.dir, "function") \in Nat /\ D(Current.dir, "file") \in Nat
      BY <1>4
    <3>5. /\ Len(Makefile.scopes) > C(Current.dir, "function")
          /\ Len(Makefile.files) = C(Current.dir, "file")
          /\ Makefile.files = <<>> => Makefile.policies = 1
      BY <1>2, <1>3, <1>5
    <3>6. /\ Len(Makefile.scopes) \in Nat \ {0}
      BY <1>2, ScopePopped
    <3>1. CASE k = Makefile
      BY <3>1, <3>3, <3>4, <3>5, <3>6
    <3>2. CASE k = PopScope(Makefile)
      <4>1. /\ Len(k.scopes) = Len(Makefile.scopes) - 1
            /\ k.files = Makefile.files /\ k.policies = Makefile.policies
        BY <1>2, <3>2, ScopePopped
      <4> QED BY <4>1, <3>3, <3>4, <3>5, <3>6
    <3> QED BY <2>2, <3>1, <3>2 DEF LeaveFunction
  <2>3. CASE Current.op \in Blocks \union {"macro"} /\ Like(Makefile, k)
    <3>1. Current.op \notin {"file", "function"}
      BY <2>3 DEF Blocks, Loops
    <3> QED BY <3>1, <2>3, <1>2, <1>3, <1>4, <1>5 DEF Like
  <2> QED BY <2>1, <2>2, <2>3, <1>2, SameAlike DEF Left
<1>7. /\ DOMAIN makefiles' = DOMAIN makefiles /\ makefiles'[Current.dir] = k
      /\ \A d \in DOMAIN makefiles : d # Current.dir => makefiles'[d] = makefiles[d]
  BY <1>1, MakefileSet
<1>8. ASSUME NEW d \in DOMAIN makefiles
      PROVE  /\ makefiles'[d] \in Makefiles
             /\ Len(makefiles'[d].scopes) > D(d, "function")
             /\ Len(makefiles'[d].files) = D(d, "file")
             /\ makefiles'[d].files = <<>> => makefiles'[d].policies = 1
  <2>1. CASE d = Current.dir
    BY <2>1, <1>1, <1>6, <1>7
  <2>2. CASE d # Current.dir
    BY <2>2, <1>3, <1>4, <1>7
  <2> QED BY <2>1, <2>2
<1>9. Others /\ (outcome' \in Statuses \/ n = 1)
  BY DEF Left, n
<1> QED BY <1>1, <1>7, <1>8, <1>9, TypeReturned DEF D, n

---------------------------------------------------------------------------
(* The type invariant.                                                      *)
LEMMA InitFacts ==
  ASSUME Init
  PROVE  /\ program \in Programs /\ outcome = Busy /\ commands = <<>> /\ fatal = FALSE
         /\ created = 0 /\ dangling = FALSE
         /\ frames \in Seq(Activation) /\ Len(frames) = 1 /\ Current = frames[1]
         /\ frames # <<>> /\ frames[1] \in Activation /\ frames[1].op = "file"
         /\ frames[1].dir = "top" /\ frames[1].i = 1 /\ ~frames[1].blocking
         /\ frames[1].body = program.files["top"] /\ "top" \in DOMAIN program.files
         /\ DOMAIN makefiles = {"top"} /\ makefiles["top"] \in Makefiles
         /\ Len(makefiles["top"].scopes) = 1 /\ Len(makefiles["top"].files) = 1
         /\ makefiles["top"].files # <<>> /\ makefiles["top"].blockers = <<>>
         /\ makefiles["top"].scopes[1]["list"] = "top" /\ makefiles["top"].files[1] = "top"
<1> DEFINE m == NewMakefile(NoVariables)
           f == FileFrame("top", m, "top")
<1>1. NoVariables \in Scope
  BY DEF NoVariables, Scope, Names, Values, Truths
<1>2. m \in Makefiles /\ m.scopes # <<>> /\ Len(m.scopes) = 1 /\ Len(m.files) = 0 /\ m.blockers = <<>>
  BY <1>1, MakefileMade
<1>3. program \in Programs /\ makefiles = [d \in {"top"} |-> Enter(m, "top")] /\ frames = <<f>>
  BY DEF Init
<1>4. "top" \in DOMAIN program.files /\ program.files["top"] \in Seq(Commands)
  BY <1>3, ProgramsAssumption DEF Directories
<1>5. "top" \in FileNames
  BY <1>3, <1>4 DEF FileNames
<1>6. SafeValue(m, "list") \in Values
  BY <1>2, TopScope DEF Names
<1>7. f = FileFrame("top", m, "top") /\ "top" \in Directories
  BY DEF Directories
<1> DEFINE k == Enter(m, "top")
<1>8. k = Enter(m, "top")
  OBVIOUS
<1> HIDE DEF f, m, k
<1>9. /\ f \in Activation /\ f.op = "file" /\ f.dir = "top" /\ f.body = program.files["top"]
      /\ f.i = 1 /\ ~f.blocking
  BY <1>4, <1>6, <1>7, FileFramed
<1>10. /\ k \in Makefiles /\ Len(k.scopes) = 1 /\ k.scopes[1]["list"] = "top"
       /\ Len(k.files) = 1 /\ k.files[1] = "top" /\ k.files # <<>> /\ k.blockers = <<>>
  BY <1>2, <1>5, <1>8, FileEntered
<1>11. makefiles = [d \in {"top"} |-> k]
  BY <1>3, <1>8
<1>12. DOMAIN makefiles = {"top"} /\ makefiles["top"] = k
  BY <1>11
<1>13. /\ frames \in Seq(Activation) /\ Len(frames) = 1 /\ frames[1] = f /\ frames # <<>>
       /\ Current = frames[1]
  BY <1>3, <1>9 DEF Current, Last
<1> QED BY <1>3, <1>4, <1>9, <1>10, <1>12, <1>13 DEF Init

LEMMA InitTyped ==
  ASSUME Init
  PROVE  TypeInv
<1>1. /\ Count(frames, "top", "file", 1) = 1 /\ Count(frames, "top", "function", 1) = 0
  <2>1. /\ Count(frames, "top", "file", 0) = 0
        /\ Count(frames, "top", "file", 0 + 1) =
             0 + (IF frames[0 + 1].dir = "top" /\ frames[0 + 1].op = "file" THEN 1 ELSE 0)
        /\ Count(frames, "top", "function", 0) = 0
        /\ Count(frames, "top", "function", 0 + 1) =
             0 + (IF frames[0 + 1].dir = "top" /\ frames[0 + 1].op = "function" THEN 1 ELSE 0)
    BY Counted
  <2>2. 0 + 1 = 1
    OBVIOUS
  <2>3. frames[1].dir = "top" /\ frames[1].op = "file"
    BY InitFacts
  <2> QED BY <2>1, <2>2, <2>3
<1>2. FramesTyped
  <2>1. frames[1].body \in Seq(Commands)
    BY InitFacts DEF Activation
  <2>2. Len(frames[1].body) \in Nat
    BY <2>1, LenProperties
  <2>4. Len(frames) = 1 /\ frames[1].i = 1
    BY InitFacts
  <2>3. 1..Len(frames) = {1} /\ frames[1].i \in 1..(Len(frames[1].body) + 1)
    BY <2>2, <2>4
  <2> QED BY <1>1, <2>3, InitFacts DEF FramesTyped
<1>3. MakefilesTyped
  <2>1. /\ DOMAIN makefiles = {"top"} /\ makefiles["top"] \in Makefiles
        /\ Len(makefiles["top"].scopes) = 1 /\ Len(makefiles["top"].files) = 1
        /\ makefiles["top"].files # <<>> /\ Len(frames) = 1
    BY InitFacts
  <2>2. ASSUME NEW d \in DOMAIN makefiles
        PROVE  /\ makefiles[d] \in Makefiles
               /\ Len(makefiles[d].scopes) > Count(frames, d, "function", Len(frames))
               /\ Len(makefiles[d].files) = Count(frames, d, "file", Len(frames))
               /\ makefiles[d].files = <<>> => makefiles[d].policies = 1
    <3>1. d = "top"
      BY <2>1
    <3>2. /\ Count(frames, d, "function", Len(frames)) = 0
          /\ Count(frames, d, "file", Len(frames)) = 1
      BY <1>1, <2>1, <3>1
    <3>3. 1 > 0
      OBVIOUS
    <3> QED BY <2>1, <3>1, <3>2, <3>3
  <2> QED BY <2>1, <2>2 DEF MakefilesTyped, Directories
<1>4. CommandsTyped
  BY InitFacts DEF CommandsTyped
<1> QED BY <1>2, <1>3, <1>4, InitFacts DEF TypeInv

(* What the steps do: each action is of one of these kinds.                 *)
LEMMA StepKinds ==
  ASSUME TypeInv, Next
  PROVE  \/ Simple \/ Record \/ Define \/ OpenBlock
         \/ Switch \/ Advance \/ Repeat
         \/ \E f : Started(f)
         \/ \E f : Entered(f)
         \/ Leave /\ \E k : Left(k)
<1>1. CASE NotInvoked \/ Fail \/ Plain \/ Leap \/ Set \/ RaiseScope \/ Policy
  BY <1>1, NotInvokedSimple, FailSimple, PlainSimple, LeapSimple, SetSimple, RaiseScopeSimple,
     PolicySimple
<1>2. CASE Call \/ Include \/ AddSubDirectory
  <2>1. CASE frames' = frames
    BY <1>2, <2>1, RefusedSimple
  <2>2. CASE frames' # frames
    BY <1>2, <2>2, CallEntered
  <2> QED BY <2>1, <2>2
<1>3. CASE RunBlock
  BY <1>3, RunBlockStarted
<1>4. CASE Leave
  BY <1>4, LeaveLeft
<1> QED BY <1>1, <1>2, <1>3, <1>4 DEF Next

LEMMA StartedTyped ==
  ASSUME TypeInv, NEW f, Started(f)
  PROVE  TypeInv'
<1>1. /\ frames # <<>> /\ f \in Activation /\ Current.i <= Len(Current.body) /\ f.op \in Blocks
      /\ Called(frames, f, frames') /\ outcome' = Busy /\ f.dir = Current.dir /\ AllAlike /\ Others
      /\ f.i = IF f.op = "if" THEN 1 ELSE Len(f.body) + 1
  BY DEF Started
<1>2. f.body \in Seq(Commands) /\ f.op \notin {"file", "function"}
  BY <1>1 DEF Activation, Blocks, Loops
<1>3. Len(f.body) \in Nat
  BY <1>2, LenProperties
<1>4. f.i \in 1..(Len(f.body) + 1)
  BY <1>1, <1>3
<1> QED BY <1>1, <1>2, <1>4, CallAlike

LEMMA TypeStep ==
  ASSUME TypeInv, [Next]_vars
  PROVE  TypeInv'
<1>1. CASE Next
  <2>1. CASE Simple \/ Record \/ Define \/ OpenBlock
    BY <2>1, RecordQuiet, DefineQuiet, OpenBlockQuiet, SimpleTyped DEF Simple
  <2>2. CASE Switch \/ Advance \/ Repeat
    BY <2>2, SwitchTurned, AdvanceTurned, RepeatTurned, TurnedTyped
  <2>3. CASE \E f : Started(f)
    BY <2>3, StartedTyped
  <2>4. CASE \E f : Entered(f)
    BY <2>4, EnteredTyped
  <2>5. CASE Leave /\ \E k : Left(k)
    BY <2>5, LeftTyped
  <2> QED BY <1>1, <2>1, <2>2, <2>3, <2>4, <2>5, StepKinds
<1>2. CASE UNCHANGED vars
  BY <1>2 DEF vars, TypeInv, FramesTyped, MakefilesTyped, CommandsTyped
<1> QED BY <1>1, <1>2

LEMMA Typed == Spec => []TypeInv
<1>1. Init => TypeInv
  BY InitTyped
<1>2. TypeInv /\ [Next]_vars => TypeInv'
  BY TypeStep
<1> QED BY <1>1, <1>2, PTL DEF Spec

(* The calls in progress, the scopes, policies and list files of the        *)
(* directories are what the actions take them for (TypeOK).                 *)
THEOREM TypeCorrect == Spec => []TypeOK
<1>1. TypeInv => TypeOK
  <2> SUFFICES ASSUME TypeInv PROVE TypeOK
    OBVIOUS
  <2>1. frames \in Seq(Activation)
    BY DEF TypeInv, FramesTyped
  <2>2. DOMAIN frames = 1..Len(frames) /\ \A k \in 1..Len(frames) : frames[k] \in Activation
    BY <2>1, LenProperties
  <2>3. \A k \in DOMAIN frames : frames[k].op \in DOMAIN StopsAt
    BY <2>2 DEF Activation, StopsAt, Blocks, Loops
  <2>4. \A k \in DOMAIN frames :
          /\ frames[k].dir \in DOMAIN makefiles
          /\ frames[k].i \in 1..(Len(frames[k].body) + 1)
    BY <2>2 DEF TypeInv, FramesTyped
  <2>5. ASSUME NEW d \in DOMAIN makefiles
        PROVE  /\ makefiles[d].scopes \in Seq([Variables \union {"list"} -> Truths \union FileNames])
               /\ makefiles[d].scopes # <<>>
               /\ makefiles[d].policies \in Nat \ {0}
               /\ makefiles[d].files \in Seq(FileNames)
    <3>1. makefiles[d] \in Makefiles /\ Len(makefiles[d].scopes) > Count(frames, d, "function", Len(frames))
      BY DEF TypeInv, MakefilesTyped
    <3>2. Len(frames) \in Nat
      BY <2>1, LenProperties
    <3>3. Count(frames, d, "function", Len(frames)) \in 0..Len(frames)
      BY <3>2, Counted
    <3>4. Len(<<>>) = 0
      BY EmptySeq
    <3>5. makefiles[d].scopes # <<>>
      BY <3>1, <3>2, <3>3, <3>4
    <3> QED BY <3>1, <3>5 DEF Makefiles, Scope, Names, Values
  <2> QED BY <2>3, <2>4, <2>5 DEF TypeOK, TypeInv, MakefilesTyped, Statuses
<1> QED BY <1>1, Typed, PTL

---------------------------------------------------------------------------
(* Scopes and list files.  While no command fails as the last of a function *)
(* each call of a function has a scope of its own, and the scope below it   *)
(* still names the list file the function was called from; each list file   *)
(* that is left gives back the name of the one before.                      *)
FunctionsSucceed == frames # <<>> /\ Current.op = "function" => "error" \notin outcome

Known(m) == m.files # <<>> => m.scopes[Len(m.scopes)]["list"] = m.files[Len(m.files)]

Restored(f, m, scope, file) ==
  /\ f.op = "function" => m.scopes[scope]["list"] = m.files[file]
  /\ f.op = "file" /\ file > 1 => f.saved = m.files[file - 1]

ListInv ==
  /\ \A d \in DOMAIN makefiles :
       /\ Len(makefiles[d].scopes) = 1 + Count(frames, d, "function", Len(frames))
       /\ Known(makefiles[d])
  /\ \A k \in 1..Len(frames) :
       Restored(frames[k], makefiles[frames[k].dir],
                Count(frames, frames[k].dir, "function", k),
                Count(frames, frames[k].dir, "file", k))

LEMMA Indices ==
  ASSUME TypeInv, ListInv, NEW k \in 1..Len(frames), NEW d, d = frames[k].dir
  PROVE  /\ d \in DOMAIN makefiles /\ makefiles[d] \in Makefiles
         /\ Len(makefiles[d].scopes) \in Nat /\ Len(makefiles[d].files) \in Nat
         /\ Count(frames, d, "file", k) \in 1..Len(makefiles[d].files)
         /\ Count(frames, d, "function", k) \in 0..(Len(makefiles[d].scopes) - 1)
         /\ frames[k].op = "function" => Count(frames, d, "function", k) > 0
<1>1. Len(frames) \in Nat /\ k \in Nat /\ k - 1 \in Nat /\ k <= Len(frames) /\ k = (k - 1) + 1
  BY LenProperties DEF TypeInv, FramesTyped
<1>2. d \in DOMAIN makefiles /\ Count(frames, d, "file", k) > 0
  BY DEF TypeInv, FramesTyped
<1>3. /\ makefiles[d] \in Makefiles
      /\ Len(makefiles[d].files) = Count(frames, d, "file", Len(frames))
  BY <1>2 DEF TypeInv, MakefilesTyped
<1>4. Len(makefiles[d].scopes) = 1 + Count(frames, d, "function", Len(frames))
  BY <1>2 DEF ListInv
<1>5. ASSUME NEW op
      PROVE  /\ Count(frames, d, op, k) \in Nat /\ Count(frames, d, op, Len(frames)) \in Nat
             /\ Count(frames, d, op, k) <= Count(frames, d, op, Len(frames))
  BY <1>1, Counted, CountGrows
<1>6. ASSUME frames[k].op = "function"
      PROVE  Count(frames, d, "function", k) > 0
  <2> DEFINE m == k - 1
  <2>1. m \in Nat /\ m < k
    BY <1>1
  <2>2. Count(frames, d, "function", m) < Count(frames, d, "function", k)
    BY <1>1, <1>6, <2>1, CountGrows
  <2>3. Count(frames, d, "function", m) \in 0..m
    BY <2>1, Counted
  <2> QED BY <1>1, <1>5, <2>1, <2>2, <2>3
<1> QED BY <1>2, <1>3, <1>4, <1>5, <1>6

(* Steps that leave the scopes and the calls of files and functions alone.  *)
LEMMA ListKept ==
  ASSUME TypeInv, ListInv, AllAlike, Len(frames) \in Nat,
         \A d \in DOMAIN makefiles : Count(frames', d, "function", Len(frames'))
                                       = Count(frames, d, "function", Len(frames)),
         \A k \in 1..Len(frames') : frames'[k].op \in {"file", "function"} =>
           /\ k \in 1..Len(frames) /\ frames'[k].op = frames[k].op
           /\ frames'[k].dir = frames[k].dir /\ frames'[k].saved = frames[k].saved
           /\ Count(frames', frames[k].dir, "file", k) = Count(frames, frames[k].dir, "file", k)
           /\ Count(frames', frames[k].dir, "function", k) = Count(frames, frames[k].dir, "function", k)
  PROVE  ListInv'
<1>1. ASSUME NEW d \in DOMAIN makefiles
      PROVE  /\ Len(makefiles'[d].scopes) = 1 + Count(frames', d, "function", Len(frames'))
             /\ Known(makefiles'[d])
  <2>1. /\ makefiles[d] \in Makefiles /\ Known(makefiles[d])
        /\ Len(makefiles[d].scopes) = 1 + Count(frames, d, "function", Len(frames))
    BY DEF TypeInv, MakefilesTyped, ListInv
  <2>2. Count(frames, d, "function", Len(frames)) \in Nat
    BY Counted
  <2>3. Len(makefiles[d].scopes) \in 1..Len(makefiles[d].scopes)
    BY <2>1, <2>2
  <2>4. Like(makefiles[d], makefiles'[d])
    BY DEF AllAlike
  <2>5. /\ Len(makefiles'[d].scopes) = Len(makefiles[d].scopes)
        /\ makefiles'[d].files = makefiles[d].files
        /\ makefiles'[d].scopes[Len(makefiles[d].scopes)]["list"]
             = makefiles[d].scopes[Len(makefiles[d].scopes)]["list"]
    BY <2>3, <2>4 DEF Like
  <2> QED BY <2>1, <2>5 DEF Known
<1>2. ASSUME NEW k \in 1..Len(frames')
      PROVE  Restored(frames'[k], makefiles'[frames'[k].dir],
                      Count(frames', frames'[k].dir, "function", k),
                      Count(frames', frames'[k].dir, "file", k))
  <2>1. CASE frames'[k].op \notin {"file", "function"}
    BY <2>1 DEF Restored
  <2>2. CASE frames'[k].op \in {"file", "function"}
    <3> DEFINE d == frames[k].dir
               a == Count(frames, d, "function", k)
               b == Count(frames, d, "file", k)
    <3>1. /\ k \in 1..Len(frames) /\ frames'[k].op = frames[k].op
          /\ frames'[k].dir = d /\ frames'[k].saved = frames[k].saved
          /\ Count(frames', d, "file", k) = b /\ Count(frames', d, "function", k) = a
      BY <2>2
    <3>2. Restored(frames[k], makefiles[d], a, b)
      BY <3>1 DEF ListInv
    <3>3. /\ d \in DOMAIN makefiles /\ Len(makefiles[d].scopes) \in Nat
          /\ a \in 0..(Len(makefiles[d].scopes) - 1)
          /\ frames[k].op = "function" => a > 0
      BY <3>1, Indices
    <3>4. Like(makefiles[d], makefiles'[d])
      BY <3>3 DEF AllAlike
    <3> HIDE DEF d, a, b
    <3>5. frames[k].op = "function" => a \in 1..Len(makefiles[d].scopes)
      BY <3>3
    <3>6. frames[k].op = "function" =>
            makefiles'[d].scopes[a]["list"] = makefiles[d].scopes[a]["list"]
      BY <3>4, <3>5 DEF Like
    <3>7. makefiles'[d].files = makefiles[d].files
      BY <3>4 DEF Like
    <3>8. Restored(frames'[k], makefiles'[d], a, b)
      BY <3>1, <3>2, <3>6, <3>7 DEF Restored
    <3> QED BY <3>1, <3>8
  <2> QED BY <2>1, <2>2
<1> QED BY <1>1, <1>2 DEF ListInv, AllAlike

LEMMA QuietList ==
  ASSUME TypeInv, ListInv, Quiet
  PROVE  ListInv'
<1>1. frames' = frames /\ AllAlike /\ Len(frames) \in Nat
  BY CurrentTyped DEF Quiet
<1> QED BY <1>1, ListKept

LEMMA TurnedList ==
  ASSUME TypeInv, ListInv, NEW f, Turned(f)
  PROVE  ListInv'
<1> DEFINE n == Len(frames)
<1>1. /\ frames # <<>> /\ f \in Activation /\ SameCall(Current, f) /\ Changed(frames, f, frames')
      /\ AllAlike
  BY DEF Turned
<1>2. n \in Nat \ {0} /\ Current = frames[n] /\ frames \in Seq(Activation)
  BY <1>1, CurrentTyped
<1>3. /\ Len(frames') = n /\ frames'[n] = f
      /\ \A a \in 1..n : a # n => frames'[a] = frames[a]
  BY <1>1, <1>2, ChangedFacts
<1>4. f.dir = frames[n].dir /\ f.op = frames[n].op /\ f.saved = frames[n].saved
  BY <1>1, <1>2 DEF SameCall
<1>5. ASSUME NEW d, NEW op, NEW k \in 0..n
      PROVE  Count(frames', d, op, k) = Count(frames, d, op, k)
  BY <1>1, <1>2, <1>4, CountsChanged
<1>6. ASSUME NEW k \in 1..n
      PROVE  /\ frames'[k].op = frames[k].op /\ frames'[k].dir = frames[k].dir
             /\ frames'[k].saved = frames[k].saved /\ k \in 0..n
  BY <1>3, <1>4
<1>7. n \in Nat /\ n \in 0..n
  BY <1>2
<1> HIDE DEF n
<1> QED BY <1>1, <1>3, <1>5, <1>6, <1>7, ListKept DEF n

LEMMA CalledList ==
  ASSUME TypeInv, ListInv, NEW f \in Activation, frames # <<>>, AllAlike,
         f.op \notin {"file", "function"}, Called(frames, f, frames')
  PROVE  ListInv'
<1> DEFINE n == Len(frames)
           m == n + 1
<1>1. frames \in Seq(Activation) /\ n \in Nat
  BY CurrentTyped
<1>2. /\ Len(frames') = m /\ frames'[m] = f /\ \A a \in 1..n : frames'[a] = frames[a]
  BY <1>1, CalledFacts
<1>3. ASSUME NEW d, NEW op, NEW k \in 0..n
      PROVE  Count(frames', d, op, k) = Count(frames, d, op, k)
  BY <1>1, CountsCalled
<1>4. ASSUME NEW d
      PROVE  Count(frames', d, "function", m) = Count(frames, d, "function", n)
  <2>1. n \in 0..n
    BY <1>1
  <2>2. Count(frames', d, "function", m) = Count(frames, d, "function", n)
          + (IF f.dir = d /\ f.op = "function" THEN 1 ELSE 0)
    BY <1>1, <2>1, CountsCalled
  <2>3. Count(frames, d, "function", n) \in Nat
    BY <1>1, Counted
  <2> QED BY <2>2, <2>3
<1>5. ASSUME NEW k \in 1..m, frames'[k].op \in {"file", "function"}
      PROVE  k \in 1..n /\ k \in 0..n /\ frames'[k] = frames[k]
  BY <1>1, <1>2, <1>5
<1> HIDE DEF n, m
<1> QED BY <1>1, <1>2, <1>3, <1>4, <1>5, ListKept DEF n, m

(* A function is called: the new scope is a copy of the one below.          *)
LEMMA FunctionList ==
  ASSUME TypeInv, ListInv, NEW f, Entered(f), f.op = "function", f.dir = Current.dir,
         SetMakefile(PushScope(Makefile))
  PROVE  ListInv'
<1> DEFINE n == Len(frames)
           m == n + 1
           D == Current.dir
           k == PushScope(Makefile)
           s == Len(Makefile.scopes)
<1>1. frames # <<>> /\ f \in Activation /\ Called(frames, f, frames') /\ SetMakefile(k)
  BY DEF Entered
<1>2. /\ frames \in Seq(Activation) /\ n \in Nat \ {0} /\ Makefile \in Makefiles
      /\ Makefile.scopes # <<>> /\ Makefile.files # <<>> /\ Makefile = makefiles[D]
      /\ D \in DOMAIN makefiles /\ D = frames[n].dir
  BY <1>1, CurrentTyped DEF Makefile
<1>3. /\ k \in Makefiles /\ s \in Nat /\ Len(k.scopes) = s + 1
      /\ \A a \in 1..s : k.scopes[a] = Makefile.scopes[a]
      /\ k.scopes[s + 1] = Makefile.scopes[s]
      /\ k.files = Makefile.files
  BY <1>2, ScopePushed
<1>4. /\ DOMAIN makefiles' = DOMAIN makefiles /\ makefiles'[D] = k
      /\ \A d \in DOMAIN makefiles : d # D => makefiles'[d] = makefiles[d]
  BY <1>1, MakefileSet
<1>5. /\ Len(frames') = m /\ frames'[m] = f /\ \A a \in 1..n : frames'[a] = frames[a]
  BY <1>1, <1>2, CalledFacts
<1>6. ASSUME NEW d, NEW op, NEW j \in 0..n
      PROVE  Count(frames', d, op, j) = Count(frames, d, op, j)
  BY <1>1, <1>2, CountsCalled
<1>7. ASSUME NEW d, NEW op
      PROVE  /\ Count(frames', d, op, m) = Count(frames, d, op, n)
                   + (IF D = d /\ "function" = op THEN 1 ELSE 0)
             /\ Count(frames, d, op, n) \in Nat
  <2>1. n \in 0..n
    BY <1>2
  <2>2. Count(frames', d, op, m) = Count(frames, d, op, n)
          + (IF f.dir = d /\ f.op = op THEN 1 ELSE 0)
    BY <1>1, <1>2, <2>1, CountsCalled
  <2>3. Count(frames, d, op, n) \in Nat
    BY <1>2, Counted
  <2> QED BY <2>2, <2>3
<1>8. /\ s = 1 + Count(frames, D, "function", n)
      /\ Known(Makefile)
      /\ Len(Makefile.files) = Count(frames, D, "file", n)
  BY <1>2 DEF ListInv, TypeInv, MakefilesTyped
<1> HIDE DEF n, m, k, s, D
<1>9. Makefile.scopes[s]["list"] = Makefile.files[Len(Makefile.files)]
  BY <1>2, <1>8 DEF Known, s
<1>10. ASSUME NEW d \in DOMAIN makefiles
       PROVE  /\ Len(makefiles'[d].scopes) = 1 + Count(frames', d, "function", m)
              /\ Known(makefiles'[d])
  <2>1. CASE d = D
    <3>1. Count(frames', d, "function", m) = Count(frames, d, "function", n) + 1
      BY <2>1, <1>7
    <3>2. Count(frames, d, "function", n) \in Nat
      BY <1>7
    <3>3. Len(k.scopes) = 1 + Count(frames', d, "function", m)
      BY <2>1, <3>1, <3>2, <1>3, <1>8
    <3>4. k.scopes[Len(k.scopes)]["list"] = k.files[Len(k.files)]
      BY <1>3, <1>9
    <3> QED BY <2>1, <3>3, <3>4, <1>4 DEF Known
  <2>2. CASE d # D
    <3>1. Count(frames', d, "function", m) = Count(frames, d, "function", n)
      BY <2>2, <1>7
    <3> QED BY <3>1, <2>2, <1>4 DEF ListInv, n
  <2> QED BY <2>1, <2>2
<1>11. ASSUME NEW j \in 1..m
       PROVE  Restored(frames'[j], makefiles'[frames'[j].dir],
                       Count(frames', frames'[j].dir, "function", j),
                       Count(frames', frames'[j].dir, "file", j))
  <2>1. CASE j = m
    <3>1. Count(frames', D, "function", m) = s
      BY <1>7, <1>8
    <3>2. Count(frames', D, "file", m) = Len(Makefile.files)
      BY <1>7, <1>8
    <3>3. s \in 1..s
      BY <1>3, <1>7, <1>8
    <3>4. k.scopes[s]["list"] = k.files[Len(Makefile.files)]
      BY <3>3, <1>3, <1>9
    <3>5. frames'[j] = f /\ f.dir = D /\ f.op = "function"
      BY <2>1, <1>5 DEF D
    <3> QED BY <2>1, <3>1, <3>2, <3>4, <3>5, <1>4 DEF Restored
  <2>2. CASE j \in 1..n
    <3> DEFINE d == frames[j].dir
               a == Count(frames, d, "function", j)
               b == Count(frames, d, "file", j)
    <3>1. /\ frames'[j] = frames[j] /\ Count(frames', d, "function", j) = a
          /\ Count(frames', d, "file", j) = b
      BY <2>2, <1>2, <1>5, <1>6
    <3>2. Restored(frames[j], makefiles[d], a, b)
      BY <2>2 DEF ListInv, n
    <3>3. /\ d \in DOMAIN makefiles /\ Len(makefiles[d].scopes) \in Nat
          /\ a \in 0..(Len(makefiles[d].scopes) - 1)
          /\ frames[j].op = "function" => a > 0
      BY <2>2, Indices DEF n
    <3> HIDE DEF d, a, b
    <3>4. frames[j].op = "function" => a \in 1..Len(makefiles[d].scopes)
      BY <3>3
    <3>5. /\ makefiles'[d].files = makefiles[d].files
          /\ frames[j].op = "function" => makefiles'[d].scopes[a] = makefiles[d].scopes[a]
      BY <3>3, <3>4, <1>2, <1>3, <1>4 DEF s
    <3>6. Restored(frames[j], makefiles'[d], a, b)
      BY <3>2, <3>5 DEF Restored
    <3> QED BY <3>1, <3>6 DEF d
  <2> QED BY <2>1, <2>2, <1>2 DEF m
<1> QED BY <1>4, <1>5, <1>10, <1>11 DEF ListInv

(* A list file is included: the name of the one before is kept.             *)
LEMMA IncludeList ==
  ASSUME TypeInv, ListInv, NEW f, Entered(f), f.op = "file", f.dir = Current.dir,
         f.saved = SafeValue(Makefile, "list"), NEW name \in FileNames,
         SetMakefile(Enter(Makefile, name))
  PROVE  ListInv'
<1> DEFINE n == Len(frames)
           m == n + 1
           D == Current.dir
           k == Enter(Makefile, name)
           s == Len(Makefile.scopes)
           l == Len(Makefile.files)
<1>1. frames # <<>> /\ f \in Activation /\ Called(frames, f, frames') /\ SetMakefile(k)
  BY DEF Entered
<1>2. /\ frames \in Seq(Activation) /\ n \in Nat \ {0} /\ Makefile \in Makefiles
      /\ Makefile.scopes # <<>> /\ Makefile.files # <<>> /\ Makefile = makefiles[D]
      /\ D \in DOMAIN makefiles /\ D = frames[n].dir
  BY <1>1, CurrentTyped DEF Makefile
<1>3. /\ k \in Makefiles /\ s \in Nat \ {0} /\ Len(k.scopes) = s
      /\ \A a \in 1..s : a # s => k.scopes[a] = Makefile.scopes[a]
      /\ k.scopes[s]["list"] = name
      /\ l \in Nat /\ Len(k.files) = l + 1
      /\ k.files[l + 1] = name
      /\ \A a \in 1..l : k.files[a] = Makefile.files[a]
  <2> HIDE DEF n, D
  <2>1. PICK e : e = Enter(Makefile, name)
    OBVIOUS
  <2>2. Makefile \in Makefiles /\ Makefile.scopes # <<>>
    BY <1>2
  <2>3. /\ e \in Makefiles /\ Len(Makefile.scopes) \in Nat \ {0}
        /\ Len(e.scopes) = Len(Makefile.scopes)
        /\ \A a \in 1..Len(Makefile.scopes) :
             a # Len(Makefile.scopes) => e.scopes[a] = Makefile.scopes[a]
        /\ e.scopes[Len(Makefile.scopes)]["list"] = name
        /\ Len(Makefile.files) \in Nat /\ Len(e.files) = Len(Makefile.files) + 1
        /\ e.files[Len(Makefile.files) + 1] = name
        /\ \A a \in 1..Len(Makefile.files) : e.files[a] = Makefile.files[a]
    BY <2>1, <2>2, FileEntered
  <2> QED BY <2>1, <2>3
<1>4. /\ DOMAIN makefiles' = DOMAIN makefiles /\ makefiles'[D] = k
      /\ \A d \in DOMAIN makefiles : d # D => makefiles'[d] = makefiles[d]
  BY <1>1, MakefileSet
<1>5. /\ Len(frames') = m /\ frames'[m] = f /\ \A a \in 1..n : frames'[a] = frames[a]
  BY <1>1, <1>2, CalledFacts
<1>6. ASSUME NEW d, NEW op, NEW j \in 0..n
      PROVE  Count(frames', d, op, j) = Count(frames, d, op, j)
  BY <1>1, <1>2, CountsCalled
<1>7. ASSUME NEW d, NEW op
      PROVE  /\ Count(frames', d, op, m) = Count(frames, d, op, n)
                   + (IF D = d /\ "file" = op THEN 1 ELSE 0)
             /\ Count(frames, d, op, n) \in Nat
  <2>1. n \in 0..n
    BY <1>2
  <2>2. Count(frames', d, op, m) = Count(frames, d, op, n)
          + (IF f.dir = d /\ f.op = op THEN 1 ELSE 0)
    BY <1>1, <1>2, <2>1, CountsCalled
  <2>3. Count(frames, d, op, n) \in Nat
    BY <1>2, Counted
  <2> QED BY <2>2, <2>3
<1>8. /\ s = 1 + Count(frames, D, "function", n)
      /\ Known(Makefile)
      /\ l = Count(frames, D, "file", n)
  BY <1>2 DEF ListInv, TypeInv, MakefilesTyped
<1>9. f.saved = Makefile.files[l]
  <2>1. /\ Last(Makefile.scopes) = Makefile.scopes[s]
        /\ Makefile.scopes[s]["list"] = Makefile.files[l]
    BY <1>2, <1>8, TopScope DEF Known, Names
  <2>2. Makefile.files \in Seq(FileNames)
    BY <1>2 DEF Makefiles
  <2>3. Makefile.files[l] \in FileNames
    BY <2>2, <1>2, LastOf
  <2>4. Makefile.files[l] # "undef"
    BY <2>3, ProgramsAssumption DEF FileNames
  <2> QED BY <2>1, <2>4 DEF SafeValue, Value
<1> HIDE DEF n, m, k, s, l, D
<1>10. ASSUME NEW d \in DOMAIN makefiles
       PROVE  /\ Len(makefiles'[d].scopes) = 1 + Count(frames', d, "function", m)
              /\ Known(makefiles'[d])
  <2>0. Count(frames', d, "function", m) = Count(frames, d, "function", n)
    BY <1>7
  <2>1. CASE d = D
    <3>1. Len(k.scopes) = 1 + Count(frames', d, "function", m)
      BY <2>0, <2>1, <1>3, <1>8
    <3>2. k.scopes[Len(k.scopes)]["list"] = k.files[Len(k.files)]
      BY <1>3
    <3> QED BY <2>1, <3>1, <3>2, <1>4 DEF Known
  <2>2. CASE d # D
    BY <2>0, <2>2, <1>4 DEF ListInv, n
  <2> QED BY <2>1, <2>2
<1>11. ASSUME NEW j \in 1..m
       PROVE  Restored(frames'[j], makefiles'[frames'[j].dir],
                       Count(frames', frames'[j].dir, "function", j),
                       Count(frames', frames'[j].dir, "file", j))
  <2>1. CASE j = m
    <3>1. Count(frames', D, "file", m) = l + 1
      BY <1>7, <1>8
    <3>2. l + 1 > 1 => l \in 1..l /\ (l + 1) - 1 = l
      BY <1>3
    <3>3. l + 1 > 1 => f.saved = k.files[(l + 1) - 1]
      BY <3>2, <1>3, <1>9
    <3>4. frames'[j] = f /\ f.dir = D /\ f.op = "file"
      BY <2>1, <1>5 DEF D
    <3> QED BY <2>1, <3>1, <3>3, <3>4, <1>4 DEF Restored
  <2>2. CASE j \in 1..n
    <3> DEFINE d == frames[j].dir
               a == Count(frames, d, "function", j)
               b == Count(frames, d, "file", j)
    <3>1. /\ frames'[j] = frames[j] /\ Count(frames', d, "function", j) = a
          /\ Count(frames', d, "file", j) = b
      BY <2>2, <1>2, <1>5, <1>6
    <3>2. Restored(frames[j], makefiles[d], a, b)
      BY <2>2 DEF ListInv, n
    <3>3. /\ d \in DOMAIN makefiles /\ Len(makefiles[d].scopes) \in Nat
          /\ a \in 0..(Len(makefiles[d].scopes) - 1)
          /\ b \in 1..Len(makefiles[d].files) /\ Len(makefiles[d].files) \in Nat
          /\ frames[j].op = "function" => a > 0
      BY <2>2, Indices DEF n
    <3> HIDE DEF d, a, b
    <3>4. /\ frames[j].op = "function" => a \in 1..Len(makefiles[d].scopes) /\ a # Len(makefiles[d].scopes)
          /\ b > 1 => b - 1 \in 1..Len(makefiles[d].files)
      BY <3>3
    <3>5. /\ makefiles'[d].files[b] = makefiles[d].files[b]
          /\ b > 1 => makefiles'[d].files[b - 1] = makefiles[d].files[b - 1]
          /\ frames[j].op = "function" => makefiles'[d].scopes[a] = makefiles[d].scopes[a]
      <4>1. CASE d = D
        <5>1. makefiles'[d] = k /\ makefiles[d] = Makefile
          BY <4>1, <1>2, <1>4
        <5>2. b \in 1..l /\ k.files[b] = Makefile.files[b]
          BY <5>1, <3>3, <1>3 DEF l
        <5>3. b > 1 => k.files[b - 1] = Makefile.files[b - 1]
          BY <5>1, <3>4, <1>3 DEF l
        <5>4. frames[j].op = "function" => k.scopes[a] = Makefile.scopes[a]
          BY <5>1, <3>4, <1>3 DEF s
        <5> QED BY <5>1, <5>2, <5>3, <5>4
      <4>2. CASE d # D
        BY <4>2, <3>3, <1>4
      <4> QED BY <4>1, <4>2
    <3>6. Restored(frames[j], makefiles'[d], a, b)
      BY <3>2, <3>5 DEF Restored
    <3> QED BY <3>1, <3>6 DEF d
  <2> QED BY <2>1, <2>2, <1>2 DEF m
<1> QED BY <1>4, <1>5, <1>10, <1>11 DEF ListInv

(* A directory is added: nothing of it was in progress.                     *)
LEMMA SubList ==
  ASSUME TypeInv, ListInv, NEW f, Entered(f), f.op = "file", f.dir = "sub",
         "sub" \notin DOMAIN makefiles,
         makefiles' = [d \in Directories |->
             IF d = "sub" THEN Enter(NewMakefile(Last(Makefile.scopes)), "sub") ELSE makefiles[d]]
  PROVE  ListInv'
<1> DEFINE n == Len(frames)
           m == n + 1
           x == NewMakefile(Last(Makefile.scopes))
           k == Enter(x, "sub")
<1>1. frames # <<>> /\ f \in Activation /\ Called(frames, f, frames')
  BY DEF Entered
<1>2. /\ frames \in Seq(Activation) /\ n \in Nat \ {0} /\ Makefile \in Makefiles
      /\ Makefile.scopes # <<>>
  BY <1>1, CurrentTyped
<1>3. Last(Makefile.scopes) \in Scope
  BY <1>2, TopScope DEF Names
<1>4. x \in Makefiles /\ x.scopes # <<>> /\ Len(x.scopes) = 1 /\ Len(x.files) = 0
  BY <1>3, MakefileMade
<1>5. "sub" \in FileNames
  BY ProgramsAssumption, ProgramFile DEF TypeInv, Directories
<1>6. /\ Len(k.scopes) = 1 /\ Len(k.files) = 1
      /\ k.scopes[1]["list"] = "sub" /\ k.files[1] = "sub"
  <2> HIDE DEF x
  <2> QED BY <1>4, <1>5, FileEntered
<1>7. /\ DOMAIN makefiles \subseteq {"top"} /\ DOMAIN makefiles' = {"top", "sub"}
      /\ makefiles'["sub"] = k /\ makefiles'["top"] = makefiles["top"] /\ "top" \in DOMAIN makefiles
  <2> HIDE DEF k
  <2>1. makefiles' = [d \in Directories |-> IF d = "sub" THEN k ELSE makefiles[d]]
    BY DEF k
  <2>2. DOMAIN makefiles \subseteq {"top", "sub"} /\ "top" \in DOMAIN makefiles
    BY DEF TypeInv, MakefilesTyped, Directories
  <2> QED BY <2>1, <2>2 DEF Directories
<1>8. /\ Len(frames') = m /\ frames'[m] = f /\ \A a \in 1..n : frames'[a] = frames[a]
  BY <1>1, <1>2, CalledFacts
<1>9. ASSUME NEW d, NEW op, NEW j \in 0..n
      PROVE  Count(frames', d, op, j) = Count(frames, d, op, j)
  BY <1>1, <1>2, CountsCalled
<1>10. ASSUME NEW d, NEW op
       PROVE  /\ Count(frames', d, op, m) = Count(frames, d, op, n)
                   + (IF "sub" = d /\ "file" = op THEN 1 ELSE 0)
              /\ Count(frames, d, op, n) \in Nat
  <2>1. n \in 0..n
    BY <1>2
  <2>2. Count(frames', d, op, m) = Count(frames, d, op, n)
          + (IF f.dir = d /\ f.op = op THEN 1 ELSE 0)
    BY <1>1, <1>2, <2>1, CountsCalled
  <2>3. Count(frames, d, op, n) \in Nat
    BY <1>2, Counted
  <2> QED BY <2>2, <2>3
<1>11. \A j \in 1..n : frames[j].dir = "top"
  BY <1>7 DEF TypeInv, FramesTyped
<1>12. ASSUME NEW op
       PROVE  Count(frames, "sub", op, n) = 0
  BY <1>2, <1>11, CountNone
<1> HIDE DEF n, m, k
<1>13. ASSUME NEW d \in DOMAIN makefiles'
       PROVE  /\ Len(makefiles'[d].scopes) = 1 + Count(frames', d, "function", m)
              /\ Known(makefiles'[d])
  <2>0. Count(frames', d, "function", m) = Count(frames, d, "function", n)
    BY <1>10
  <2>1. CASE d = "sub"
    <3>1. Count(frames, d, "function", n) = 0
      BY <2>1, <1>12
    <3> QED BY <2>0, <2>1, <3>1, <1>6, <1>7 DEF Known
  <2>2. CASE d = "top"
    BY <2>0, <2>2, <1>7 DEF ListInv, n
  <2> QED BY <2>1, <2>2, <1>7
<1>14. ASSUME NEW j \in 1..m
       PROVE  Restored(frames'[j], makefiles'[frames'[j].dir],
                       Count(frames', frames'[j].dir, "function", j),
                       Count(frames', frames'[j].dir, "file", j))
  <2>1. CASE j = m
    <3>1. Count(frames', "sub", "file", m) = 1
      BY <1>10, <1>12
    <3>2. frames'[j] = f /\ f.dir = "sub" /\ f.op = "file"
      BY <2>1, <1>8
    <3> QED BY <2>1, <3>1, <3>2 DEF Restored
  <2>2. CASE j \in 1..n
    <3> DEFINE a == Count(frames, "top", "function", j)
               b == Count(frames, "top", "file", j)
    <3>1. /\ frames'[j] = frames[j] /\ frames[j].dir = "top" /\ j \in 0..n
      BY <2>2, <1>2, <1>8, <1>11
    <3>2. Count(frames', "top", "function", j) = a /\ Count(frames', "top", "file", j) = b
      BY <3>1, <1>9
    <3>3. Restored(frames[j], makefiles["top"], a, b)
      BY <2>2, <3>1 DEF ListInv, n
    <3> QED BY <3>1, <3>2, <3>3, <1>7
  <2> QED BY <2>1, <2>2, <1>2 DEF m
<1> QED BY <1>8, <1>13, <1>14 DEF ListInv

(* A call ends: the name is given back, or the scope below shows it.        *)
LEMMA LeftList ==
  ASSUME TypeInv, ListInv, NEW k, Left(k), FunctionsSucceed
  PROVE  ListInv'
<1> DEFINE n == Len(frames)
           m == n - 1
           D == Current.dir
           s == Len(Makefile.scopes)
           l == Len(Makefile.files)
<1>1. frames # <<>> /\ Returned(frames, frames') /\ SetMakefile(k) /\ k \in Makefiles
  BY DEF Left
<1>2. /\ frames \in Seq(Activation) /\ n \in Nat \ {0} /\ Makefile \in Makefiles
      /\ Makefile.scopes # <<>> /\ Makefile.files # <<>> /\ Makefile = makefiles[D]
      /\ D \in DOMAIN makefiles /\ D = frames[n].dir /\ Current = frames[n] /\ Current \in Activation
      /\ m \in Nat /\ n = m + 1 /\ n \in 1..n
  BY <1>1, CurrentTyped DEF Makefile
<1>3. /\ Len(frames') = m /\ \A a \in 1..m : frames'[a] = frames[a]
  BY <1>1, <1>2, ReturnedFacts
<1>4. ASSUME NEW d, NEW op, NEW j \in 0..m
      PROVE  Count(frames', d, op, j) = Count(frames, d, op, j)
  BY <1>1, <1>2, CountsReturned
<1>5. ASSUME NEW d, NEW op
      PROVE  /\ Count(frames, d, op, n) = Count(frames', d, op, m)
                   + (IF D = d /\ Current.op = op THEN 1 ELSE 0)
             /\ Count(frames, d, op, n) \in Nat /\ Count(frames', d, op, m) \in Nat
  <2>1. m \in 0..m /\ m = n - 1
    BY <1>2
  <2>2. Count(frames, d, op, n) = Count(frames, d, op, m)
          + (IF frames[n].dir = d /\ frames[n].op = op THEN 1 ELSE 0)
    BY <1>1, <1>2, <2>1, CountsReturned
  <2>3. Count(frames, d, op, n) \in Nat /\ Count(frames', d, op, m) \in Nat
    BY <1>2, Counted
  <2> QED BY <1>2, <1>4, <2>1, <2>2, <2>3
<1>6. /\ s = 1 + Count(frames, D, "function", n)
      /\ Known(Makefile)
      /\ l = Count(frames, D, "file", n)
  BY <1>2 DEF ListInv, TypeInv, MakefilesTyped
<1>7. Restored(Current, Makefile, Count(frames, D, "function", n), Count(frames, D, "file", n))
  BY <1>2 DEF ListInv
<1>8. /\ DOMAIN makefiles' = DOMAIN makefiles /\ makefiles'[D] = k
      /\ \A d \in DOMAIN makefiles : d # D => makefiles'[d] = makefiles[d]
  BY <1>1, MakefileSet
<1>9. \A j \in 1..m : j \in 1..n /\ j \in 0..m
  BY <1>2
<1> HIDE DEF n, m, s, l, D
<1>10. CASE Current.op \notin {"file", "function"} /\ Like(Makefile, k)
  <2>1. AllAlike
    BY <1>1, <1>10, SetAlike
  <2>2. ASSUME NEW d
        PROVE  Count(frames', d, "function", m) = Count(frames, d, "function", n)
    BY <1>5, <1>10
  <2> QED BY <1>2, <1>3, <1>4, <1>9, <2>1, <2>2, ListKept DEF n
(* What is left to show of the other directories, and of this one.          *)
<1>11. ASSUME Len(k.scopes) = 1 + Count(frames', D, "function", m), Known(k),
              \A j \in 1..m : frames[j].dir = D =>
                Restored(frames[j], k, Count(frames, D, "function", j), Count(frames, D, "file", j))
       PROVE  ListInv'
  <2>1. ASSUME NEW d \in DOMAIN makefiles
        PROVE  /\ Len(makefiles'[d].scopes) = 1 + Count(frames', d, "function", m)
               /\ Known(makefiles'[d])
    <3>1. CASE d = D
      BY <3>1, <1>8, <1>11
    <3>2. CASE d # D
      <4>1. Count(frames', d, "function", m) = Count(frames, d, "function", n)
        BY <3>2, <1>5
      <4> QED BY <3>2, <4>1, <1>8 DEF ListInv, n
    <3> QED BY <3>1, <3>2
  <2>2. ASSUME NEW j \in 1..m
        PROVE  Restored(frames'[j], makefiles'[frames'[j].dir],
                        Count(frames', frames'[j].dir, "function", j),
                        Count(frames', frames'[j].dir, "file", j))
    <3> DEFINE d == frames[j].dir
               a == Count(frames, d, "function", j)
               b == Count(frames, d, "file", j)
    <3>1. /\ frames'[j] = frames[j] /\ Count(frames', d, "function", j) = a
          /\ Count(frames', d, "file", j) = b
      BY <1>3, <1>4, <1>9
    <3>2. Restored(frames[j], makefiles[d], a, b) /\ d \in DOMAIN makefiles
      BY <1>9 DEF ListInv, TypeInv, FramesTyped, n
    <3>3. Restored(frames[j], makefiles'[d], a, b)
      BY <3>2, <1>8, <1>11
    <3> QED BY <3>1, <3>3
  <2> QED BY <1>3, <1>8, <2>1, <2>2 DEF ListInv
<1>12. ASSUME NEW j \in 1..m, frames[j].dir = D
       PROVE  /\ Restored(frames[j], Makefile, Count(frames, D, "function", j), Count(frames, D, "file", j))
              /\ Count(frames', D, "file", m) \in Nat /\ Count(frames', D, "function", m) \in Nat
              /\ Count(frames, D, "file", j) \in 1..Count(frames', D, "file", m)
              /\ Count(frames, D, "function", j) \in 0..Count(frames', D, "function", m)
              /\ frames[j].op = "function" => Count(frames, D, "function", j) > 0
  <2>1. j \in 1..n /\ j \in 0..m /\ j \in Nat /\ j <= m
    BY <1>2, <1>9
  <2>2. /\ Restored(frames[j], Makefile, Count(frames, D, "function", j), Count(frames, D, "file", j))
        /\ frames[j].op = "function" => Count(frames, D, "function", j) > 0
        /\ Count(frames, D, "file", j) > 0
    BY <1>2, <1>12, <2>1, Indices DEF ListInv, TypeInv, FramesTyped, n
  <2>3. ASSUME NEW op
        PROVE  /\ Count(frames', D, op, j) <= Count(frames', D, op, m)
               /\ Count(frames', D, op, j) \in Nat /\ Count(frames', D, op, m) \in Nat
               /\ Count(frames', D, op, j) = Count(frames, D, op, j)
    <3>1. j \in Nat /\ m \in Nat /\ j <= m
      BY <1>2, <2>1
    <3>2. Count(frames', D, op, j) <= Count(frames', D, op, m)
      BY <3>1, CountGrows
    <3>3. Count(frames', D, op, j) \in Nat /\ Count(frames', D, op, m) \in Nat
      BY <3>1, Counted
    <3> QED BY <2>1, <3>2, <3>3, <1>4
  <2> QED BY <2>2, <2>3
<1>13. CASE Current.op = "file" /\ k = LeaveFile(Current, Makefile)
  <2>1. Current.saved \in Values
    BY <1>2, <1>13 DEF Activation
  <2>2. /\ s \in Nat \ {0} /\ Len(k.scopes) = s
        /\ \A a \in 1..s : a # s => k.scopes[a] = Makefile.scopes[a]
        /\ k.scopes[s]["list"] = Current.saved
        /\ l \in Nat \ {0} /\ Len(k.files) = l - 1
        /\ \A a \in 1..(l - 1) : k.files[a] = Makefile.files[a]
    <3>1. k = LeaveFile(Current, Makefile)
      BY <1>13
    <3>3. Makefile \in Makefiles /\ Makefile.scopes # <<>> /\ Makefile.files # <<>>
      BY <1>2
    <3>2. /\ Len(Makefile.scopes) \in Nat \ {0} /\ Len(k.scopes) = Len(Makefile.scopes)
          /\ \A a \in 1..Len(Makefile.scopes) :
               a # Len(Makefile.scopes) => k.scopes[a] = Makefile.scopes[a]
          /\ k.scopes[Len(Makefile.scopes)]["list"] = Current.saved
          /\ Len(Makefile.files) \in Nat \ {0} /\ Len(k.files) = Len(Makefile.files) - 1
          /\ \A a \in 1..Len(k.files) : k.files[a] = Makefile.files[a]
      BY <2>1, <3>1, <3>3, FileLeft
    <3> QED BY <3>2 DEF s, l
  <2>3. /\ Count(frames', D, "function", m) = Count(frames, D, "function", n)
        /\ Count(frames', D, "file", m) = l - 1
    BY <1>5, <1>6, <1>13
  <2>4. Known(k)
    <3>1. k.files \in Seq(FileNames)
      BY <1>1 DEF Makefiles
    <3> SUFFICES ASSUME k.files # <<>> PROVE k.scopes[s]["list"] = k.files[l - 1]
      BY <2>2 DEF Known
    <3>2. l - 1 > 0
      BY <2>2, <3>1, LastOf
    <3>3. Current.saved = Makefile.files[l - 1]
      BY <1>6, <1>7, <1>13, <2>2, <3>2 DEF Restored
    <3> QED BY <2>2, <3>2, <3>3
  <2>5. ASSUME NEW j \in 1..m, frames[j].dir = D
        PROVE  Restored(frames[j], k, Count(frames, D, "function", j), Count(frames, D, "file", j))
    <3> DEFINE a == Count(frames, D, "function", j)
               b == Count(frames, D, "file", j)
    <3>1. /\ Restored(frames[j], Makefile, a, b)
          /\ b \in 1..(l - 1) /\ a \in 0..(s - 1)
          /\ frames[j].op = "function" => a > 0
      BY <1>6, <1>12, <2>2, <2>3, <2>5
    <3> HIDE DEF a, b
    <3>2. /\ frames[j].op = "function" => k.scopes[a] = Makefile.scopes[a]
          /\ k.files[b] = Makefile.files[b]
          /\ b > 1 => k.files[b - 1] = Makefile.files[b - 1]
      <4>1. /\ a > 0 => a \in 1..s /\ a # s
            /\ b \in 1..(l - 1)
            /\ b > 1 => b - 1 \in 1..(l - 1)
        BY <3>1, <2>2
      <4> QED BY <3>1, <4>1, <2>2
    <3>3. Restored(frames[j], k, a, b)
      BY <3>1, <3>2 DEF Restored
    <3> QED BY <3>3 DEF a, b
  <2>6. Len(k.scopes) = 1 + Count(frames', D, "function", m)
    BY <1>6, <2>2, <2>3
  <2> QED BY <1>11, <2>4, <2>5, <2>6
<1>14. CASE Current.op = "function" /\ k = LeaveFunction(Makefile)
  <2>1. k = PopScope(Makefile)
    BY <1>1, <1>14 DEF LeaveFunction, FunctionsSucceed
  <2>2. /\ s \in Nat \ {0} /\ Len(k.scopes) = s - 1
        /\ \A a \in 1..(s - 1) : k.scopes[a] = Makefile.scopes[a]
        /\ k.files = Makefile.files
    BY <1>2, <2>1, ScopePopped DEF s
  <2>3. /\ Count(frames', D, "function", m) + 1 = Count(frames, D, "function", n)
        /\ Count(frames', D, "file", m) = l
        /\ Count(frames', D, "function", m) \in Nat
    BY <1>5, <1>6, <1>14
  <2>4. Known(k)
    <3>1. s - 1 \in 1..(s - 1) /\ s - 1 = Count(frames, D, "function", n)
      BY <1>6, <2>2, <2>3
    <3>2. Makefile.scopes[s - 1]["list"] = Makefile.files[l]
      BY <1>6, <1>7, <1>14, <3>1 DEF Restored
    <3> QED BY <2>2, <3>1, <3>2 DEF Known, l
  <2>5. ASSUME NEW j \in 1..m, frames[j].dir = D
        PROVE  Restored(frames[j], k, Count(frames, D, "function", j), Count(frames, D, "file", j))
    <3> DEFINE a == Count(frames, D, "function", j)
               b == Count(frames, D, "file", j)
    <3>1. /\ Restored(frames[j], Makefile, a, b)
          /\ a \in 0..(s - 2)
          /\ frames[j].op = "function" => a > 0
      BY <1>6, <1>12, <2>2, <2>3, <2>5
    <3> HIDE DEF a, b
    <3>2. frames[j].op = "function" => k.scopes[a] = Makefile.scopes[a]
      <4>1. a > 0 => a \in 1..(s - 1)
        BY <3>1, <2>2
      <4> QED BY <3>1, <4>1, <2>2
    <3>3. Restored(frames[j], k, a, b)
      BY <3>1, <3>2, <2>2 DEF Restored
    <3> QED BY <3>3 DEF a, b
  <2>6. Len(k.scopes) = 1 + Count(frames', D, "function", m)
    BY <1>6, <2>2, <2>3
  <2> QED BY <1>11, <2>4, <2>5, <2>6
<1>15. Current.op \in Blocks \union {"macro"} => Current.op \notin {"file", "function"}
  BY DEF Blocks, Loops
<1>16. Like(Makefile, Makefile)
  BY <1>2, SameAlike
<1> QED BY <1>10, <1>13, <1>14, <1>15, <1>16 DEF Left

LEMMA ListStep ==
  ASSUME TypeInv, ListInv, FunctionsSucceed, [Next]_vars
  PROVE  ListInv'
<1>1. CASE Next
  <2>1. CASE Simple \/ Record \/ Define \/ OpenBlock
    BY <2>1, RecordQuiet, DefineQuiet, OpenBlockQuiet, QuietList DEF Simple
  <2>2. CASE Switch \/ Advance \/ Repeat
    BY <2>2, SwitchTurned, AdvanceTurned, RepeatTurned, TurnedList
  <2>3. CASE \E f : Started(f)
    <3>1. PICK f : Started(f)
      BY <2>3
    <3>2. f.op \notin {"file", "function"}
      BY <3>1 DEF Started, Blocks, Loops
    <3> QED BY <3>1, <3>2, CalledList DEF Started
  <2>4. CASE \E f : Entered(f)
    <3>1. PICK f : Entered(f)
      BY <2>4
    <3>2. frames # <<>> /\ f \in Activation /\ Called(frames, f, frames')
      BY <3>1 DEF Entered
    <3>3. CASE f.op = "macro" /\ f.dir = Current.dir /\ SetMakefile(Makefile)
      <4>1. Like(Makefile, Makefile)
        BY <3>2, CurrentTyped, SameAlike
      <4>2. AllAlike
        BY <3>2, <3>3, <4>1, SetAlike
      <4> QED BY <3>2, <3>3, <4>2, CalledList
    <3>4. CASE f.op = "function" /\ f.dir = Current.dir /\ SetMakefile(PushScope(Makefile))
      BY <3>1, <3>4, FunctionList
    <3>5. CASE /\ f.op = "file" /\ f.dir = Current.dir /\ f.saved = SafeValue(Makefile, "list")
               /\ \E n \in FileNames : SetMakefile(Enter(Makefile, n))
      BY <3>1, <3>5, IncludeList
    <3>6. CASE /\ f.op = "file" /\ f.dir = "sub" /\ "sub" \notin DOMAIN makefiles
               /\ makefiles' = [d \in Directories |->
                    IF d = "sub" THEN Enter(NewMakefile(Last(Makefile.scopes)), "sub") ELSE makefiles[d]]
      BY <3>1, <3>6, SubList
    <3> QED BY <3>1, <3>3, <3>4, <3>5, <3>6 DEF Entered
  <2>5. CASE Leave /\ \E k : Left(k)
    BY <2>5, LeftList
  <2> QED BY <1>1, <2>1, <2>2, <2>3, <2>4, <2>5, StepKinds
<1>2. CASE UNCHANGED vars
  BY <1>2 DEF vars, ListInv
<1> QED BY <1>1, <1>2

LEMMA InitList ==
  ASSUME Init
  PROVE  ListInv
<1>1. /\ DOMAIN makefiles = {"top"} /\ Len(makefiles["top"].scopes) = 1
      /\ Len(makefiles["top"].files) = 1 /\ Len(frames) = 1
      /\ makefiles["top"].scopes[1]["list"] = "top" /\ makefiles["top"].files[1] = "top"
      /\ frames[1].op = "file" /\ frames[1].dir = "top"
  BY InitFacts
<1>2. /\ Count(frames, "top", "function", 0) = 0 /\ Count(frames, "top", "file", 0) = 0
      /\ Count(frames, "top", "function", 0 + 1) =
           0 + (IF frames[0 + 1].dir = "top" /\ frames[0 + 1].op = "function" THEN 1 ELSE 0)
      /\ Count(frames, "top", "file", 0 + 1) =
           0 + (IF frames[0 + 1].dir = "top" /\ frames[0 + 1].op = "file" THEN 1 ELSE 0)
  BY Counted
<1>3. 0 + 1 = 1 /\ 1 = 1 + 0 /\ ~(1 > 1) /\ 1..1 = {1}
  OBVIOUS
<1>4. Count(frames, "top", "function", 1) = 0 /\ Count(frames, "top", "file", 1) = 1
  BY <1>1, <1>2, <1>3
<1>5. Known(makefiles["top"])
  BY <1>1 DEF Known
<1>6. Restored(frames[1], makefiles["top"], 0, 1)
  BY <1>1, <1>3 DEF Restored
<1> QED BY <1>1, <1>3, <1>4, <1>5, <1>6 DEF ListInv

LEMMA Listed == Spec /\ []FunctionsSucceed => []ListInv
<1>1. Init => ListInv
  BY InitList
<1>2. TypeInv /\ ListInv /\ FunctionsSucceed /\ [Next]_vars => ListInv'
  BY ListStep
<1> QED BY <1>1, <1>2, Typed, PTL DEF Spec

LEMMA FramesCounted ==
  ASSUME TypeInv, NEW d, NEW op
  PROVE  Cardinality(Frames(d, {op})) = Count(frames, d, op, Len(frames))
<1>1. DOMAIN frames = 1..Len(frames)
  BY LenProperties DEF TypeInv, FramesTyped
<1>2. Frames(d, {op}) = {l \in 1..Len(frames) : frames[l].dir = d /\ frames[l].op = op}
  BY <1>1 DEF Frames
<1> QED BY <1>2 DEF Count

(* While no command fails as the last one of a function, there is one scope *)
(* for each function call, one list file for each file being read, and a    *)
(* directory that has been read has one policy level (ScopesNest): nothing  *)
(* is left behind by return, break, a fatal error or unbalanced policies.   *)
THEOREM ScopesMatchCalls == Spec /\ []FunctionsSucceed => []ScopesNest
<1>1. TypeInv /\ ListInv => ScopesNest
  <2> SUFFICES ASSUME TypeInv, ListInv, NEW d \in DOMAIN makefiles
               PROVE  /\ makefiles[d].files = <<>> => makefiles[d].policies = 1
                      /\ Len(makefiles[d].scopes) = 1 + Cardinality(Frames(d, {"function"}))
                      /\ Len(makefiles[d].files) = Cardinality(Frames(d, {"file"}))
    BY DEF ScopesNest
  <2> QED BY FramesCounted DEF ListInv, TypeInv, MakefilesTyped
<1> QED BY <1>1, Typed, Listed, PTL

(* With no condition at all: a call never takes a scope, a list file or a   *)
(* policy level that is not its own.  A failing function leaves scopes      *)
(* behind (cmFunctionHelperCommand returns without PopScope), it never      *)
(* removes one too many.                                                    *)
NothingTaken ==
  \A d \in DOMAIN makefiles :
    LET m == makefiles[d] IN
    /\ m.files = <<>> => m.policies = 1
    /\ Len(m.scopes) >= 1 + Cardinality(Frames(d, {"function"}))
    /\ Len(m.files) = Cardinality(Frames(d, {"file"}))

(* NothingTaken holds whatever fails.                                       *)
THEOREM ScopesSuffice == Spec => []NothingTaken
<1>1. TypeInv => NothingTaken
  <2> SUFFICES ASSUME TypeInv, NEW d \in DOMAIN makefiles
               PROVE  /\ makefiles[d].files = <<>> => makefiles[d].policies = 1
                      /\ Len(makefiles[d].scopes) >= 1 + Cardinality(Frames(d, {"function"}))
                      /\ Len(makefiles[d].files) = Cardinality(Frames(d, {"file"}))
    BY DEF NothingTaken
  <2>1. /\ makefiles[d] \in Makefiles
        /\ Len(makefiles[d].scopes) > Count(frames, d, "function", Len(frames))
        /\ Len(makefiles[d].files) = Count(frames, d, "file", Len(frames))
        /\ makefiles[d].files = <<>> => makefiles[d].policies = 1
    BY DEF TypeInv, MakefilesTyped
  <2>2. Len(frames) \in Nat /\ Len(makefiles[d].scopes) \in Nat
    BY <2>1, LenProperties DEF TypeInv, FramesTyped, Makefiles
  <2>3. Count(frames, d, "function", Len(frames)) \in 0..Len(frames)
    BY <2>2, Counted
  <2> QED BY <2>1, <2>2, <2>3, FramesCounted
<1> QED BY <1>1, Typed, PTL

(* Under the same condition the scope that is visible always names the list *)
(* file that is being read (ListFileKnown): ReadListFile restores the name  *)
(* after every include and return, whatever functions are in progress.      *)
THEOREM ListFileNamed == Spec /\ []FunctionsSucceed => []ListFileKnown
<1>1. TypeInv /\ ListInv => ListFileKnown
  <2> SUFFICES ASSUME TypeInv, ListInv, NEW d \in DOMAIN makefiles, makefiles[d].files # <<>>
               PROVE  Value(makefiles[d], "list") = Last(makefiles[d].files)
    BY DEF ListFileKnown
  <2>1. Known(makefiles[d])
    BY DEF ListInv
  <2> QED BY <2>1 DEF Known, Value, Last
<1> QED BY <1>1, Typed, Listed, PTL

---------------------------------------------------------------------------
(* Lists of commands whose blocks are closed.  Inside(B, p) has the blocks  *)
(* that are open after the first p commands of B.                           *)
Structured(B) == \E end : Nested(B, end)
Ends(B) == CHOOSE end : Nested(B, end)
Inside(B, p) == {j \in Opens(B) : j <= p /\ p < Ends(B)[j]}
Closers == {EndOf[o] : o \in Openers}

LEMMA EndOfFacts ==
  /\ \A o \in Openers : EndOf[o] \in Closers /\ EndOf[o] \notin Openers \union {"else", "elseif"}
  /\ \A o, u \in Openers : EndOf[o] = EndOf[u] => o = u
  /\ \A x \in {"else", "elseif"} : x \notin Openers \union Closers
<1>1. Openers = {"foreach", "while", "if", "function", "macro"}
  BY DEF Openers, Loops
<1>2. /\ EndOf["foreach"] = "endforeach" /\ EndOf["while"] = "endwhile" /\ EndOf["if"] = "endif"
      /\ EndOf["function"] = "endfunction" /\ EndOf["macro"] = "endmacro"
  BY DEF EndOf
<1>3. Closers = {"endforeach", "endwhile", "endif", "endfunction", "endmacro"}
  BY <1>1, <1>2 DEF Closers
<1> QED BY <1>1, <1>2, <1>3

LEMMA OpensFacts ==
  ASSUME NEW B \in Seq(Commands)
  PROVE  /\ Len(B) \in Nat /\ Opens(B) \subseteq 1..Len(B) /\ DOMAIN B = 1..Len(B)
         /\ \A j \in 1..Len(B) : B[j].op \in Openers <=> j \in Opens(B)
         /\ \A j \in 1..Len(B) : B[j] \in Commands
  BY LenProperties DEF Opens

LEMMA Nesting ==
  ASSUME NEW B \in Seq(Commands), Structured(B)
  PROVE  /\ Len(B) \in Nat /\ Opens(B) \subseteq 1..Len(B)
         /\ \A j \in Opens(B) :
              /\ Ends(B)[j] \in 1..Len(B) /\ j < Ends(B)[j] /\ B[j].op \in Openers
              /\ B[Ends(B)[j]].op = EndOf[B[j].op] /\ B[Ends(B)[j]].args \subseteq {B[j].arg}
         /\ \A j, k \in Opens(B) : j < k /\ k < Ends(B)[j] => Ends(B)[k] < Ends(B)[j]
         /\ \A j, k \in Opens(B) : Ends(B)[j] = Ends(B)[k] => j = k
         /\ \A c \in 1..Len(B) : B[c].op \in Closers => \E j \in Opens(B) : Ends(B)[j] = c
         /\ \A c \in 1..Len(B), j \in Opens(B) :
              B[c].op \in {"else", "elseif"} /\ j < c /\ c < Ends(B)[j] /\ B[j].op # "if" =>
                \E k \in Opens(B) : j < k /\ k < c /\ c < Ends(B)[k]
<1> DEFINE e == Ends(B)
<1>1. Nested(B, e)
  BY DEF Structured, Ends
<1> HIDE DEF e
<1>2. Len(B) \in Nat /\ DOMAIN B = 1..Len(B) /\ Opens(B) \subseteq 1..Len(B)
  BY OpensFacts
<1>3. \A j \in Opens(B) :
        /\ e[j] \in 1..Len(B) /\ j < e[j] /\ B[j].op \in Openers
        /\ B[e[j]].op = EndOf[B[j].op] /\ B[e[j]].args \subseteq {B[j].arg}
  BY <1>1, <1>2 DEF Nested, Opens
<1>4. \A j, k \in Opens(B) : j < k /\ k < e[j] => e[k] < e[j]
  BY <1>1 DEF Nested
<1>5. ASSUME NEW j \in Opens(B), NEW k \in Opens(B), e[j] = e[k]
      PROVE  j = k
  <2>1. j \in Nat /\ k \in Nat /\ e[j] \in Nat
    BY <1>2, <1>3
  <2>2. ~(j < k) /\ ~(k < j)
    BY <1>3, <1>4, <1>5, <2>1
  <2> QED BY <2>1, <2>2
<1>6. \A c \in 1..Len(B) : B[c].op \in Closers => \E j \in Opens(B) : e[j] = c
  BY <1>1, <1>2 DEF Nested, Closers
<1>7. \A c \in 1..Len(B), j \in Opens(B) :
        B[c].op \in {"else", "elseif"} /\ j < c /\ c < e[j] /\ B[j].op # "if" =>
          \E k \in Opens(B) : j < k /\ k < c /\ c < e[k]
  BY <1>1, <1>2 DEF Nested
<1> QED BY <1>2, <1>3, <1>4, <1>5, <1>6, <1>7 DEF e

(* One more command: an opening one opens its block, the others at most     *)
(* close one.                                                               *)
LEMMA InsideNext ==
  ASSUME NEW B \in Seq(Commands), Structured(B), NEW i \in 1..Len(B)
  PROVE  /\ Inside(B, 0) = {} /\ Inside(B, Len(B)) = {}
         /\ B[i].op \notin Openers => Inside(B, i) \subseteq Inside(B, i - 1)
         /\ B[i].op \in Openers => Inside(B, i) = Inside(B, i - 1) \union {i}
         /\ B[i].op \notin Openers \union Closers => Inside(B, i) = Inside(B, i - 1)
         /\ i \notin Inside(B, i - 1)
<1>1. /\ Len(B) \in Nat /\ Opens(B) \subseteq 1..Len(B)
      /\ \A j \in Opens(B) :
              /\ Ends(B)[j] \in 1..Len(B) /\ j < Ends(B)[j] /\ B[j].op \in Openers
              /\ B[Ends(B)[j]].op = EndOf[B[j].op]
  BY Nesting
<1>2. /\ \A j \in 1..Len(B) : B[j].op \in Openers <=> j \in Opens(B)
  BY OpensFacts
<1>3. Inside(B, 0) = {} /\ Inside(B, Len(B)) = {}
  BY <1>1 DEF Inside
<1>4. i \notin Inside(B, i - 1)
  BY DEF Inside
<1>5. ASSUME NEW j \in Inside(B, i), j # i
      PROVE  j \in Inside(B, i - 1)
  BY <1>1, <1>5 DEF Inside
<1>6. B[i].op \notin Openers => i \notin Inside(B, i)
  BY <1>2 DEF Inside
<1>7. ASSUME NEW j \in Inside(B, i - 1), B[i].op \notin Closers
      PROVE  j \in Inside(B, i)
  <2>1. /\ j \in Opens(B) /\ j \in Nat /\ j <= i - 1 /\ i - 1 < Ends(B)[j] /\ Ends(B)[j] \in Nat
        /\ i \in Nat
    BY <1>1 DEF Inside
  <2>2. B[Ends(B)[j]].op \in Closers
    BY <2>1, <1>1, EndOfFacts
  <2>3. Ends(B)[j] # i
    BY <2>2, <1>7
  <2>4. j <= i /\ i < Ends(B)[j]
    BY <2>1, <2>3
  <2> QED BY <2>1, <2>4 DEF Inside
<1>8. B[i].op \in Openers => i \in Inside(B, i) /\ B[i].op \notin Closers
  <2> SUFFICES ASSUME B[i].op \in Openers PROVE i \in Inside(B, i) /\ B[i].op \notin Closers
    OBVIOUS
  <2>1. i \in Opens(B)
    BY <1>2
  <2>2. B[i].op \notin Closers
    BY EndOfFacts DEF Closers
  <2> QED BY <2>1, <2>2, <1>1 DEF Inside
<1> QED BY <1>3, <1>4, <1>5, <1>6, <1>7, <1>8

(* The commands of a block are again a list whose blocks are closed.        *)
LEMMA StructuredSub ==
  ASSUME NEW B \in Seq(Commands), Structured(B), NEW j \in Opens(B),
         NEW S, S = SubSeq(B, j + 1, Ends(B)[j] - 1)
  PROVE  S \in Seq(Commands) /\ Structured(S)
<1> DEFINE e == Ends(B)
           m == e[j] - 1 - j
<1>1. /\ Len(B) \in Nat /\ Opens(B) \subseteq 1..Len(B)
      /\ \A k \in Opens(B) :
           /\ e[k] \in 1..Len(B) /\ k < e[k] /\ B[k].op \in Openers
           /\ B[e[k]].op = EndOf[B[k].op] /\ B[e[k]].args \subseteq {B[k].arg}
      /\ \A k, l \in Opens(B) : k < l /\ l < e[k] => e[l] < e[k]
      /\ \A k, l \in Opens(B) : e[k] = e[l] => k = l
      /\ \A c \in 1..Len(B) : B[c].op \in Closers => \E k \in Opens(B) : e[k] = c
      /\ \A c \in 1..Len(B), k \in Opens(B) :
           B[c].op \in {"else", "elseif"} /\ k < c /\ c < e[k] /\ B[k].op # "if" =>
             \E l \in Opens(B) : k < l /\ l < c /\ c < e[l]
  BY Nesting
<1> HIDE DEF e
<1>2. j \in Nat /\ j \in 1..Len(B) /\ e[j] \in Nat /\ j < e[j] /\ e[j] <= Len(B) /\ m \in Nat
      /\ e[j] = m + j + 1
  BY <1>1
<1>3. /\ S \in Seq(Commands) /\ Len(S) = m
      /\ \A q \in 1..m : S[q] = B[j + q]
  <2> DEFINE a == j + 1
             b == e[j] - 1
  <2>1. /\ a \in Int /\ b \in Int /\ \A q \in a..b : B[q] \in Commands
        /\ b - a + 1 = m /\ (a <= b <=> m > 0)
    <3>1. \A q \in a..b : q \in 1..Len(B)
      BY <1>2
    <3> QED BY <1>2, <3>1, OpensFacts
  <2>2. S = SubSeq(B, a, b)
    BY DEF e
  <2> HIDE DEF a, b
  <2>3. /\ SubSeq(B, a, b) \in Seq(Commands)
        /\ Len(SubSeq(B, a, b)) = IF a <= b THEN b - a + 1 ELSE 0
        /\ \A q \in 1..(b - a + 1) : SubSeq(B, a, b)[q] = B[a + q - 1]
    BY <2>1, SubSeqProperties
  <2>4. Len(S) = m
    <3>1. CASE a <= b
      <4>1. Len(S) = b - a + 1
        BY <2>2, <2>3, <3>1
      <4> QED BY <2>1, <4>1
    <3>2. CASE ~(a <= b)
      <4>1. Len(S) = 0
        BY <2>2, <2>3, <3>2
      <4>2. m = 0
        BY <1>2, <2>1, <3>2
      <4> QED BY <4>1, <4>2
    <3> QED BY <3>1, <3>2
  <2>5. ASSUME NEW q \in 1..m PROVE S[q] = B[j + q]
    <3>1. a + q - 1 = j + q
      BY <1>2 DEF a
    <3>2. q \in 1..(b - a + 1)
      BY <2>1
    <3> QED BY <2>2, <2>3, <3>1, <3>2
  <2> QED BY <2>2, <2>3, <2>4, <2>5
<1> HIDE DEF m
<1>4. /\ DOMAIN S = 1..m /\ Opens(S) \subseteq 1..m
      /\ \A q \in 1..m : j + q \in 1..Len(B) /\ j < j + q /\ j + q < e[j] /\ (j + q) - j = q
  BY <1>2, <1>3, LenProperties DEF Opens
<1>5. \A q \in 1..m : q \in Opens(S) <=> j + q \in Opens(B)
  BY <1>3, <1>4, OpensFacts
<1> DEFINE t == [q \in Opens(S) |-> e[j + q] - j]
<1>6. ASSUME NEW q \in Opens(S)
      PROVE  /\ q \in 1..m /\ j + q \in Opens(B) /\ t[q] \in 1..m /\ q < t[q]
             /\ e[j + q] = j + t[q] /\ t[q] = e[j + q] - j
             /\ S[q] = B[j + q] /\ S[t[q]] = B[e[j + q]]
  <2>1. q \in 1..m /\ j + q \in Opens(B)
    BY <1>4, <1>5
  <2>2. e[j + q] < e[j] /\ e[j + q] \in Nat /\ j + q < e[j + q]
    BY <1>1, <1>4, <2>1
  <2>3. t[q] = e[j + q] - j
    OBVIOUS
  <2> HIDE DEF t
  <2>4. t[q] \in 1..m /\ q < t[q] /\ e[j + q] = j + t[q]
    BY <1>2, <2>1, <2>2, <2>3
  <2> QED BY <1>3, <2>1, <2>3, <2>4
<1>7. t \in [Opens(S) -> DOMAIN S]
  BY <1>4, <1>6
<1> HIDE DEF t
<1>8. ASSUME NEW q \in Opens(S)
      PROVE  /\ q < t[q]
             /\ S[t[q]].op = EndOf[S[q].op] /\ S[t[q]].args \subseteq {S[q].arg}
             /\ \A k \in Opens(S) : q < k /\ k < t[q] => t[k] < t[q]
  <2>0. /\ q < t[q] /\ j + q \in Opens(B) /\ S[q] = B[j + q] /\ S[t[q]] = B[e[j + q]]
    BY <1>6
  <2>1. q < t[q] /\ S[t[q]].op = EndOf[S[q].op] /\ S[t[q]].args \subseteq {S[q].arg}
    <3> DEFINE k == j + q
    <3>1. k \in Opens(B) /\ S[q] = B[k] /\ S[t[q]] = B[e[k]]
      BY <2>0
    <3> HIDE DEF k
    <3>2. B[e[k]].op = EndOf[B[k].op] /\ B[e[k]].args \subseteq {B[k].arg}
      BY <1>1, <3>1
    <3> QED BY <2>0, <3>1, <3>2
  <2>2. ASSUME NEW k \in Opens(S), q < k, k < t[q]
        PROVE  t[k] < t[q]
    <3>1. /\ q \in 1..m /\ j + q \in Opens(B) /\ e[j + q] = j + t[q] /\ t[q] \in 1..m
          /\ k \in 1..m /\ j + k \in Opens(B) /\ e[j + k] = j + t[k] /\ t[k] \in 1..m
      BY <1>6
    <3>2. j + q < j + k /\ j + k < e[j + q]
      BY <1>2, <2>2, <3>1
    <3>3. e[j + k] < e[j + q]
      BY <1>1, <3>1, <3>2
    <3> QED BY <1>2, <3>1, <3>3
  <2> QED BY <2>1, <2>2
<1>9. ASSUME NEW c \in DOMAIN S, S[c].op \in Closers
      PROVE  \E q \in Opens(S) : t[q] = c
  <2>1. c \in 1..m /\ B[j + c].op \in Closers /\ j + c \in 1..Len(B) /\ j + c < e[j]
    BY <1>3, <1>4, <1>9
  <2>2. PICK k \in Opens(B) : e[k] = j + c
    BY <1>1, <2>1
  <2>3. k \in Nat /\ k < j + c /\ e[k] # e[j] /\ k # j
    BY <1>1, <1>2, <2>1, <2>2
  <2>4. ~(k < j)
    <3> SUFFICES ASSUME k < j PROVE FALSE
      OBVIOUS
    <3>1. j < e[k]
      BY <1>2, <2>1, <2>2
    <3>2. e[j] < e[k]
      BY <1>1, <3>1
    <3> QED BY <1>2, <2>1, <2>2, <3>2
  <2> DEFINE q == k - j
  <2>5. q \in 1..m /\ j + q = k
    BY <1>2, <2>1, <2>3, <2>4
  <2>6. q \in Opens(S)
    BY <1>5, <2>5
  <2>7. t[q] = e[k] - j
    BY <1>6, <2>5, <2>6
  <2> QED BY <1>2, <2>1, <2>2, <2>6, <2>7
<1>10. ASSUME NEW c \in DOMAIN S, NEW q \in Opens(S),
              S[c].op \in {"else", "elseif"}, q < c, c < t[q], S[q].op # "if"
       PROVE  \E k \in Opens(S) : q < k /\ k < c /\ c < t[k]
  <2>1. /\ c \in 1..m /\ B[j + c].op \in {"else", "elseif"} /\ j + c \in 1..Len(B) /\ j + c < e[j]
        /\ q \in 1..m /\ j + q \in Opens(B) /\ B[j + q].op # "if" /\ e[j + q] = j + t[q] /\ t[q] \in 1..m
    BY <1>3, <1>4, <1>6, <1>10
  <2>2. j + q < j + c /\ j + c < e[j + q]
    BY <1>2, <1>10, <2>1
  <2>3. PICK l \in Opens(B) : j + q < l /\ l < j + c /\ j + c < e[l]
    BY <1>1, <2>1, <2>2
  <2> DEFINE k == l - j
  <2>4. l \in Nat
    BY <1>1
  <2>5. k \in 1..m /\ j + k = l /\ q < k /\ k < c
    BY <1>2, <2>1, <2>3, <2>4
  <2>6. k \in Opens(S)
    BY <1>5, <2>5
  <2>7. e[l] = j + t[k] /\ t[k] \in 1..m
    BY <1>6, <2>5, <2>6
  <2>8. c < t[k]
    BY <1>2, <2>1, <2>3, <2>7
  <2> QED BY <2>5, <2>6, <2>8
<1>11. Nested(S, t)
  <2>1. \A c \in DOMAIN S : S[c].op \in {EndOf[o] : o \in Openers} => \E q \in Opens(S) : t[q] = c
    BY <1>9 DEF Closers
  <2> QED BY <1>7, <1>8, <1>10, <2>1 DEF Nested
<1> QED BY <1>3, <1>11 DEF Structured

---------------------------------------------------------------------------
(* A blocker that records: it belongs to the outermost block that is open   *)
(* after the first p commands of B, has recorded the commands since then,   *)
(* and counts the blocks of its kind that are open within.                  *)
Recorded(B, p, b) ==
  \E j \in Inside(B, p) :
    /\ \A k \in Inside(B, p) : j <= k
    /\ b.op = B[j].op /\ b.arg = B[j].arg
    /\ b.body = SubSeq(B, j + 1, p)
    /\ b.depth = Cardinality({k \in Inside(B, p) : j < k /\ B[k].op = b.op})

LEMMA InsideFinite ==
  ASSUME NEW B \in Seq(Commands), NEW p \in Nat, NEW S \in SUBSET Inside(B, p)
  PROVE  IsFiniteSet(S) /\ Cardinality(S) \in Nat /\ S \subseteq 1..p
<1>1. Opens(B) \subseteq 1..Len(B)
  BY OpensFacts
<1>2. S \subseteq 1..p
  BY <1>1 DEF Inside
<1>3. IsFiniteSet(1..p)
  BY FS_Interval
<1> QED BY <1>2, <1>3, FS_Subset, FS_CardinalityType

LEMMA RecordedOpen ==
  ASSUME NEW B \in Seq(Commands), Structured(B), NEW i \in 1..Len(B), NEW b,
         Inside(B, i - 1) = {}, B[i].op \in Openers,
         b.op = B[i].op, b.arg = B[i].arg, b.body = <<>>, b.depth = 0
  PROVE  Recorded(B, i, b)
<1>1. Inside(B, i) = {i}
  BY InsideNext
<1>2. i \in Int /\ i + 1 \in Int /\ i < i + 1
  OBVIOUS
<1>3. SubSeq(B, i + 1, i) = <<>>
  BY <1>2, SubSeqEmpty
<1>4. {k \in Inside(B, i) : i < k /\ B[k].op = b.op} = {}
  BY <1>1
<1>5. \A k \in Inside(B, i) : i <= k
  BY <1>1
<1> QED BY <1>1, <1>3, <1>4, <1>5, FS_EmptySet DEF Recorded

(* Which block a closing command ends: one that is open.                    *)
LEMMA ClosesOpen ==
  ASSUME NEW B \in Seq(Commands), Structured(B), NEW i \in 1..Len(B), NEW o \in Openers,
         B[i].op = EndOf[o]
  PROVE  \E j \in Inside(B, i - 1) : Ends(B)[j] = i /\ B[j].op = o
<1>1. B[i].op \in Closers
  BY EndOfFacts
<1>2. PICK j \in Opens(B) : Ends(B)[j] = i
  BY <1>1, Nesting
<1>3. /\ j \in 1..Len(B) /\ Len(B) \in Nat /\ j < i /\ B[j].op \in Openers /\ B[i].op = EndOf[B[j].op]
  BY <1>2, Nesting
<1>4. B[j].op = o
  BY <1>3, EndOfFacts
<1>5. j \in Inside(B, i - 1)
  BY <1>2, <1>3 DEF Inside
<1> QED BY <1>2, <1>4, <1>5

(* The block a recorder has recorded ends with the closing command of its   *)
(* kind at depth 0.                                                         *)
LEMMA RecordedClose ==
  ASSUME NEW B \in Seq(Commands), Structured(B), NEW i \in 1..Len(B), NEW b,
         Recorded(B, i - 1, b), Closes(B[i], b)
  PROVE  /\ ShouldRemove(B[i], b) /\ Inside(B, i) = {}
         /\ b.body \in Seq(Commands) /\ Structured(b.body)
<1>1. PICK j \in Inside(B, i - 1) :
        /\ \A k \in Inside(B, i - 1) : j <= k
        /\ b.op = B[j].op /\ b.arg = B[j].arg
        /\ b.body = SubSeq(B, j + 1, i - 1)
        /\ b.depth = Cardinality({k \in Inside(B, i - 1) : j < k /\ B[k].op = b.op})
  BY DEF Recorded
<1>2. /\ j \in Opens(B) /\ Len(B) \in Nat /\ Opens(B) \subseteq 1..Len(B)
      /\ \A k \in Opens(B) :
           /\ Ends(B)[k] \in 1..Len(B) /\ B[k].op \in Openers
           /\ B[Ends(B)[k]].op = EndOf[B[k].op] /\ B[Ends(B)[k]].args \subseteq {B[k].arg}
      /\ \A k, l \in Opens(B) : k < l /\ l < Ends(B)[k] => Ends(B)[l] < Ends(B)[k]
  BY Nesting DEF Inside
<1>3. B[i].op = EndOf[b.op] /\ b.op \in Openers /\ b.depth = 0
  BY <1>1, <1>2 DEF Closes
<1>4. {k \in Inside(B, i - 1) : j < k /\ B[k].op = b.op} = {}
  <2> DEFINE D == {k \in Inside(B, i - 1) : j < k /\ B[k].op = b.op}
  <2>1. D \in SUBSET Inside(B, i - 1) /\ i - 1 \in Nat
    OBVIOUS
  <2> HIDE DEF D
  <2>2. IsFiniteSet(D)
    BY <2>1, InsideFinite
  <2>3. Cardinality(D) = 0
    BY <1>1, <1>3 DEF D
  <2>4. D = {}
    BY <2>2, <2>3, FS_EmptySet
  <2> QED BY <2>4 DEF D
<1>5. PICK c \in Inside(B, i - 1) : Ends(B)[c] = i /\ B[c].op = b.op
  BY <1>3, ClosesOpen
<1>6. Ends(B)[j] = i
  <2>1. j <= c /\ ~(j < c)
    BY <1>1, <1>4, <1>5
  <2>2. c \in Nat /\ j \in Nat
    BY <1>2 DEF Inside
  <2> QED BY <1>5, <2>1, <2>2
<1>7. ShouldRemove(B[i], b)
  BY <1>1, <1>2, <1>3, <1>6 DEF ShouldRemove
<1>8. ASSUME NEW k \in Inside(B, i) PROVE FALSE
  <2>1. B[i].op \notin Openers
    BY <1>3, EndOfFacts
  <2>2. k \in Inside(B, i - 1)
    BY <2>1, InsideNext
  <2>3. j <= k /\ k \in Opens(B) /\ k <= i /\ i < Ends(B)[k] /\ k # i
    BY <1>1, <1>2, <2>2, InsideNext DEF Inside
  <2>4. k # j
    BY <1>2, <1>6, <2>3
  <2>5. j < k /\ k < Ends(B)[j]
    BY <1>2, <1>6, <2>3, <2>4
  <2>6. Ends(B)[k] < i
    BY <1>2, <1>6, <2>3, <2>5
  <2> QED BY <1>2, <2>3, <2>6
<1>9. b.body \in Seq(Commands) /\ Structured(b.body)
  BY <1>1, <1>2, <1>6, StructuredSub
<1> QED BY <1>7, <1>8, <1>9

(* Every other command is recorded.                                         *)
LEMMA RecordedMore ==
  ASSUME NEW B \in Seq(Commands), Structured(B), NEW i \in 1..Len(B), NEW b,
         Recorded(B, i - 1, b), ~Closes(B[i], b), NEW c,
         c.op = b.op, c.arg = b.arg, c.body = Append(b.body, B[i]),
         B[i].op = b.op => c.depth = b.depth + 1,
         B[i].op = EndOf[b.op] => c.depth = b.depth - 1,
         B[i].op # b.op /\ B[i].op # EndOf[b.op] => c.depth = b.depth
  PROVE  Recorded(B, i, c)
<1>1. PICK j \in Inside(B, i - 1) :
        /\ \A k \in Inside(B, i - 1) : j <= k
        /\ b.op = B[j].op /\ b.arg = B[j].arg
        /\ b.body = SubSeq(B, j + 1, i - 1)
        /\ b.depth = Cardinality({k \in Inside(B, i - 1) : j < k /\ B[k].op = b.op})
  BY DEF Recorded
<1> DEFINE D == {k \in Inside(B, i - 1) : j < k /\ B[k].op = b.op}
           E == {k \in Inside(B, i) : j < k /\ B[k].op = b.op}
<1>2. /\ j \in Opens(B) /\ Len(B) \in Nat /\ Opens(B) \subseteq 1..Len(B)
      /\ \A k \in Opens(B) :
           /\ Ends(B)[k] \in 1..Len(B) /\ B[k].op \in Openers
           /\ B[Ends(B)[k]].op = EndOf[B[k].op]
      /\ \A k, l \in Opens(B) : k < l /\ l < Ends(B)[k] => Ends(B)[l] < Ends(B)[k]
      /\ \A k, l \in Opens(B) : Ends(B)[k] = Ends(B)[l] => k = l
  BY Nesting DEF Inside
<1>3. /\ j \in Nat /\ j <= i - 1 /\ i \in Nat /\ i - 1 < Ends(B)[j] /\ Ends(B)[j] \in Nat
      /\ b.op \in Openers /\ EndOf[b.op] \notin Openers
  BY <1>1, <1>2, EndOfFacts DEF Inside
<1>4. IsFiniteSet(D) /\ b.depth = Cardinality(D) /\ Cardinality(D) \in Nat
  <2>1. D \in SUBSET Inside(B, i - 1) /\ i - 1 \in Nat
    OBVIOUS
  <2> QED BY <1>1, <2>1, InsideFinite
<1>5. Ends(B)[j] # i
  <2> SUFFICES ASSUME Ends(B)[j] = i PROVE FALSE
    OBVIOUS
  <2>1. ASSUME NEW k \in D PROVE FALSE
    <3>1. k \in Opens(B) /\ k \in Nat /\ j < k /\ k < i /\ i - 1 < Ends(B)[k] /\ Ends(B)[k] \in Nat
      BY <1>2 DEF Inside
    <3>2. Ends(B)[k] < i
      BY <1>2, <3>1
    <3> QED BY <1>3, <3>1, <3>2
  <2>2. D = {}
    BY <2>1
  <2> HIDE DEF D
  <2>3. b.depth = 0
    BY <1>4, <2>2, FS_EmptySet
  <2>4. B[i].op = EndOf[b.op]
    BY <1>1, <1>2
  <2> QED BY <2>3, <2>4 DEF Closes
<1>6. j \in Inside(B, i)
  BY <1>2, <1>3, <1>5 DEF Inside
<1>7. ASSUME NEW k \in Inside(B, i)
      PROVE  k \in Inside(B, i - 1) \/ (k = i /\ B[i].op \in Openers)
  BY <1>7, InsideNext
<1>8. ASSUME NEW k \in Inside(B, i)
      PROVE  j <= k
  <2>1. CASE k \in Inside(B, i - 1)
    BY <1>1, <2>1
  <2>2. CASE k = i
    BY <1>3, <2>2
  <2> QED BY <1>7, <2>1, <2>2
<1>9. Append(b.body, B[i]) = SubSeq(B, j + 1, i)
  <2> DEFINE a == j + 1
  <2>1. a \in 1..Len(B) /\ i \in a..Len(B) /\ b.body = SubSeq(B, a, i - 1)
    BY <1>1, <1>2, <1>3
  <2>2. \A q \in a..(i - 1) : B[q] \in Commands
    <3>1. \A q \in a..(i - 1) : q \in 1..Len(B)
      BY <1>2, <1>3
    <3> QED BY <3>1, OpensFacts
  <2> HIDE DEF a
  <2>3. SubSeq(B, a, i) = SubSeq(B, a, i - 1) \o <<B[i]>>
    BY <2>1, SubSeqRecursiveSecond
  <2>4. a \in Int /\ i - 1 \in Int
    BY <1>3, <2>1
  <2>5. SubSeq(B, a, i - 1) \in Seq(Commands) /\ B[i] \in Commands
    BY <2>2, <2>4, SubSeqProperties, OpensFacts
  <2>6. Append(b.body, B[i]) = SubSeq(B, a, i)
    BY <2>1, <2>3, <2>5, AppendIsConcat
  <2> QED BY <2>6 DEF a
<1>10. c.depth = Cardinality(E)
  <2>1. CASE B[i].op = b.op
    <3>1. E = D \cup {i} /\ i \notin D
      <4>1. Inside(B, i) = Inside(B, i - 1) \cup {i} /\ i \notin Inside(B, i - 1)
        BY <1>3, <2>1, InsideNext
      <4>2. j < i
        BY <1>3
      <4> QED BY <2>1, <4>1, <4>2
    <3>2. c.depth = b.depth + 1
      BY <2>1
    <3> HIDE DEF D, E
    <3>3. Cardinality(D \cup {i}) = IF i \in D THEN Cardinality(D) ELSE Cardinality(D) + 1
      BY <1>4, FS_AddElement
    <3> QED BY <1>4, <3>1, <3>2, <3>3
  <2>2. CASE B[i].op = EndOf[b.op]
    <3>1. PICK o \in Inside(B, i - 1) : Ends(B)[o] = i /\ B[o].op = b.op
      BY <1>3, <2>2, ClosesOpen
    <3>2. o \in D
      <4>1. j <= o /\ o # j
        BY <1>1, <1>5, <3>1
      <4>2. o \in Nat
        BY <1>2 DEF Inside
      <4> QED BY <1>3, <3>1, <4>1, <4>2
    <3>3. o \notin Inside(B, i)
      BY <1>3, <3>1 DEF Inside
    <3>4. ASSUME NEW k \in D, k # o PROVE k \in E
      <4>1. k \in Opens(B) /\ o \in Opens(B) /\ k <= i - 1 /\ i - 1 < Ends(B)[k]
        BY DEF Inside
      <4>2. Ends(B)[k] # i
        BY <1>2, <3>1, <3>4, <4>1
      <4>3. k <= i /\ i < Ends(B)[k]
        BY <1>2, <1>3, <4>1, <4>2
      <4> QED BY <4>1, <4>3 DEF Inside
    <3>5. E \subseteq D
      BY <1>3, <1>7, <2>2
    <3>6. E = D \ {o}
      BY <3>3, <3>4, <3>5
    <3>7. c.depth = b.depth - 1
      BY <2>2
    <3> HIDE DEF D, E
    <3> QED BY <1>4, <3>2, <3>6, <3>7, FS_RemoveElement
  <2>3. CASE B[i].op # b.op /\ B[i].op # EndOf[b.op]
    <3>1. ASSUME NEW k \in D PROVE k \in E
      <4>1. k \in Opens(B) /\ k <= i - 1 /\ i - 1 < Ends(B)[k] /\ B[k].op = b.op
        BY DEF Inside
      <4>2. Ends(B)[k] # i
        BY <1>2, <2>3, <4>1
      <4>3. k <= i /\ i < Ends(B)[k]
        BY <1>2, <1>3, <4>1, <4>2
      <4> QED BY <4>1, <4>3 DEF Inside
    <3>2. E \subseteq D
      BY <1>7, <2>3
    <3>3. E = D
      BY <3>1, <3>2
    <3>4. c.depth = b.depth
      BY <2>3
    <3> HIDE DEF D, E
    <3> QED BY <1>4, <3>3, <3>4
  <2> QED BY <2>1, <2>2, <2>3
<1>11. c.depth = Cardinality({k \in Inside(B, i) : j < k /\ B[k].op = c.op})
  BY <1>10
<1> QED BY <1>1, <1>6, <1>8, <1>9, <1>11 DEF Recorded

(* An else that is met outside the blocks of if within the body of an       *)
(* executing if is met outside every block of it.                           *)
LEMMA SwitchOutside ==
  ASSUME NEW B \in Seq(Commands), Structured(B), NEW f, f.body = B, f.i \in 1..Len(B),
         IfDepth(f) = 0, B[f.i].op \in {"else", "elseif"}
  PROVE  Inside(B, f.i) = {} /\ Inside(B, f.i - 1) = {}
<1> DEFINE i == f.i
           I == {k \in 1..i : B[k].op = "if"}
           E == {k \in 1..i : B[k].op = "endif"}
           J == {k \in I : Ends(B)[k] \in 1..i}
           g == [k \in J |-> Ends(B)[k]]
<1>1. /\ Len(B) \in Nat /\ Opens(B) \subseteq 1..Len(B)
      /\ \A k \in Opens(B) :
           /\ Ends(B)[k] \in 1..Len(B) /\ k < Ends(B)[k] /\ B[k].op \in Openers
           /\ B[Ends(B)[k]].op = EndOf[B[k].op]
      /\ \A k, l \in Opens(B) : Ends(B)[k] = Ends(B)[l] => k = l
      /\ \A c \in 1..Len(B) : B[c].op \in Closers => \E j \in Opens(B) : Ends(B)[j] = c
      /\ \A c \in 1..Len(B), j \in Opens(B) :
           B[c].op \in {"else", "elseif"} /\ j < c /\ c < Ends(B)[j] /\ B[j].op # "if" =>
             \E k \in Opens(B) : j < k /\ k < c /\ c < Ends(B)[k]
  BY Nesting
<1>2. i \in 1..Len(B) /\ i \in Nat /\ i \in Int /\ 1 \in Int
  BY <1>1
<1>3. "if" \in Openers /\ EndOf["if"] = "endif" /\ "endif" \in Closers
  BY EndOfFacts DEF Openers, EndOf, Closers
<1>4. IsFiniteSet(I) /\ IsFiniteSet(E) /\ IsFiniteSet(J)
      /\ Cardinality(I) \in Nat /\ Cardinality(E) \in Nat
  <2>1. I \in SUBSET (1..i) /\ E \in SUBSET (1..i) /\ J \in SUBSET (1..i) /\ IsFiniteSet(1..i)
    BY <1>2, FS_Interval
  <2> HIDE DEF I, E, J
  <2> QED BY <2>1, FS_Subset, FS_CardinalityType
<1>5. Cardinality(I) = Cardinality(E)
  <2>1. Cardinality(I) - Cardinality(E) = 0
    BY DEF IfDepth
  <2> HIDE DEF I, E
  <2> QED BY <1>4, <2>1
<1>6. \A k \in I : k \in Opens(B)
  BY <1>1, <1>2, <1>3, OpensFacts
<1>7. g \in Bijection(J, E)
  <2>1. ASSUME NEW k \in J PROVE g[k] \in E
    BY <1>1, <1>3, <1>6
  <2>2. ASSUME NEW k \in J, NEW l \in J, g[k] = g[l] PROVE k = l
    BY <1>1, <1>6, <2>2
  <2>3. ASSUME NEW c \in E PROVE \E k \in J : g[k] = c
    <3>1. c \in 1..Len(B) /\ B[c].op = "endif" /\ c <= i
      BY <1>1, <1>2
    <3>2. PICK k \in Opens(B) : Ends(B)[k] = c
      BY <1>1, <1>3, <3>1
    <3>3. B[k].op = "if" /\ k < c /\ k \in Nat /\ k >= 1
      <4>1. B[k].op \in Openers /\ EndOf[B[k].op] = EndOf["if"]
        BY <1>1, <1>3, <3>1, <3>2
      <4> QED BY <1>1, <1>3, <3>2, <4>1, EndOfFacts
    <3>4. k \in J
      BY <1>2, <3>1, <3>2, <3>3
    <3> QED BY <3>2, <3>4
  <2>4. g \in [J -> E]
    BY <2>1
  <2> HIDE DEF g, J, E
  <2> QED BY <2>2, <2>3, <2>4 DEF Bijection, Injection, Surjection, IsInjective
<1>8. J = I
  <2>1. ExistsBijection(J, E)
    BY <1>7 DEF ExistsBijection
  <2>2. J \in SUBSET I
    OBVIOUS
  <2> HIDE DEF I, E, J, g
  <2>3. Cardinality(E) = Cardinality(J)
    BY <1>4, <2>1, FS_Bijection
  <2> QED BY <1>4, <1>5, <2>2, <2>3, FS_Subset
<1>9. ASSUME NEW k \in Inside(B, i) PROVE B[k].op # "if"
  BY <1>1, <1>2, <1>8 DEF Inside
<1>10. Inside(B, i) = {}
  <2> SUFFICES ASSUME Inside(B, i) # {} PROVE FALSE
    OBVIOUS
  <2> DEFINE S == Inside(B, i)
             k == Max(S)
  <2>1. S \in SUBSET (1..i)
    BY <1>2, InsideFinite
  <2>2. k \in S /\ \A j \in S : j <= k
    BY <1>2, <2>1, Greatest
  <2> HIDE DEF S, k
  <2>3. k \in Opens(B) /\ k <= i /\ i < Ends(B)[k] /\ B[k].op # "if" /\ k \in Nat /\ Ends(B)[k] \in Nat
    BY <1>1, <1>9, <2>2 DEF Inside, S
  <2>4. k # i
    BY <1>1, <2>3, EndOfFacts
  <2>5. PICK l \in Opens(B) : k < l /\ l < i /\ i < Ends(B)[l]
    BY <1>1, <1>2, <2>3, <2>4
  <2>6. l \in S
    BY <1>1, <1>2, <2>5 DEF Inside, S
  <2>7. l <= k /\ l \in Nat
    BY <1>1, <2>2, <2>6
  <2> QED BY <2>3, <2>5, <2>7
<1>11. B[i].op \notin Openers \union Closers
  BY EndOfFacts
<1>12. Inside(B, i) = Inside(B, i - 1)
  BY <1>2, <1>11, InsideNext
<1> QED BY <1>10, <1>12

---------------------------------------------------------------------------
(* The executing blocks of a directory, and its blockers: they are linked   *)
(* by their identities, which increase from the outside to the inside, and  *)
(* the command a block ends with fits its blocker.                          *)
Calls(F, d) == {k \in 1..Len(F) : F[k].dir = d /\ F[k].op \in Blocks}
Chained(F, d, bs) ==
  /\ \A k \in 1..Len(bs) : bs[k].running => \E l \in Calls(F, d) : F[l].id = bs[k].id
  /\ \A l \in Calls(F, d) : \E k \in 1..Len(bs) :
       bs[k].running /\ bs[k].id = F[l].id /\ ShouldRemove(F[l].closer, bs[k])
  /\ \A k, l \in 1..Len(bs) : k < l => bs[k].id < bs[l].id
  /\ \A k, l \in Calls(F, d) : k < l => F[k].id < F[l].id

LEMMA ChainSame ==
  ASSUME NEW F, NEW G, NEW d, NEW bs, NEW cs, Chained(F, d, bs),
         Len(G) = Len(F), Len(cs) = Len(bs),
         \A k \in 1..Len(F) : /\ G[k].dir = F[k].dir /\ G[k].op = F[k].op
                              /\ G[k].id = F[k].id /\ G[k].closer = F[k].closer,
         \A k \in 1..Len(bs) : /\ cs[k].id = bs[k].id /\ cs[k].running = bs[k].running
                               /\ cs[k].op = bs[k].op /\ cs[k].arg = bs[k].arg
  PROVE  Chained(G, d, cs)
<1>1. Calls(G, d) = Calls(F, d) /\ Calls(F, d) \subseteq 1..Len(F)
  BY DEF Calls
<1>2. \A c : \A k \in 1..Len(bs) : ShouldRemove(c, bs[k]) => ShouldRemove(c, cs[k])
  BY DEF ShouldRemove
<1>3. ASSUME NEW k \in 1..Len(cs), cs[k].running
      PROVE  \E l \in Calls(G, d) : G[l].id = cs[k].id
  <2>1. k \in 1..Len(bs) /\ bs[k].running /\ cs[k].id = bs[k].id
    BY <1>3
  <2>2. PICK l \in Calls(F, d) : F[l].id = bs[k].id
    BY <2>1 DEF Chained
  <2>3. G[l].id = F[l].id
    BY <1>1
  <2> QED BY <1>1, <2>1, <2>2, <2>3
<1>4. ASSUME NEW l \in Calls(G, d)
      PROVE  \E k \in 1..Len(cs) :
               cs[k].running /\ cs[k].id = G[l].id /\ ShouldRemove(G[l].closer, cs[k])
  BY <1>1, <1>2, <1>4 DEF Chained
<1>5. \A k, l \in 1..Len(cs) : k < l => cs[k].id < cs[l].id
  BY DEF Chained
<1>6. \A k, l \in Calls(G, d) : k < l => G[k].id < G[l].id
  BY <1>1 DEF Chained
<1> QED BY <1>3, <1>4, <1>5, <1>6 DEF Chained

(* A call that executes no block of the directory, before and after it.     *)
LEMMA ChainOther ==
  ASSUME NEW F, NEW G, NEW d, NEW bs, NEW n \in Nat,
         \/ Len(F) = n /\ Len(G) = n + 1
         \/ Len(F) = n + 1 /\ Len(G) = n,
         \A k \in 1..n : G[k] = F[k],
         Len(G) = n + 1 => ~(G[n + 1].dir = d /\ G[n + 1].op \in Blocks),
         Len(F) = n + 1 => ~(F[n + 1].dir = d /\ F[n + 1].op \in Blocks),
         Chained(F, d, bs)
  PROVE  Chained(G, d, bs)
<1>1. Calls(G, d) = Calls(F, d) /\ Calls(F, d) \subseteq 1..n
  BY DEF Calls
<1>2. \A k \in Calls(F, d) : G[k] = F[k]
  BY <1>1
<1>3. ASSUME NEW k \in 1..Len(bs), bs[k].running
      PROVE  \E l \in Calls(G, d) : G[l].id = bs[k].id
  BY <1>1, <1>2, <1>3 DEF Chained
<1>4. ASSUME NEW l \in Calls(G, d)
      PROVE  \E k \in 1..Len(bs) :
               bs[k].running /\ bs[k].id = G[l].id /\ ShouldRemove(G[l].closer, bs[k])
  BY <1>1, <1>2, <1>4 DEF Chained
<1>5. \A k, l \in 1..Len(bs) : k < l => bs[k].id < bs[l].id
  BY DEF Chained
<1>6. \A k, l \in Calls(G, d) : k < l => G[k].id < G[l].id
  BY <1>1, <1>2 DEF Chained
<1> QED BY <1>3, <1>4, <1>5, <1>6 DEF Chained

(* A blocker that does not run comes or goes at the end.                    *)
LEMMA ChainLonger ==
  ASSUME NEW F, NEW d, NEW bs \in Seq(Blocker), NEW b \in Blocker, NEW cs, cs = Append(bs, b),
         Chained(F, d, bs), ~b.running, \A k \in 1..Len(bs) : bs[k].id < b.id
  PROVE  Chained(F, d, cs)
<1>1. /\ Len(bs) \in Nat /\ Len(cs) = Len(bs) + 1 /\ cs[Len(bs) + 1] = b
      /\ \A k \in 1..Len(bs) : cs[k] = bs[k]
  BY Pushed
<1>2. ASSUME NEW k \in 1..Len(cs), cs[k].running
      PROVE  k \in 1..Len(bs) /\ bs[k].running /\ bs[k].id = cs[k].id
  BY <1>1, <1>2
<1>3. ASSUME NEW k \in 1..Len(cs), cs[k].running
      PROVE  \E l \in Calls(F, d) : F[l].id = cs[k].id
  BY <1>2, <1>3 DEF Chained
<1>4. ASSUME NEW l \in Calls(F, d)
      PROVE  \E k \in 1..Len(cs) :
               cs[k].running /\ cs[k].id = F[l].id /\ ShouldRemove(F[l].closer, cs[k])
  <2>1. PICK k \in 1..Len(bs) :
          bs[k].running /\ bs[k].id = F[l].id /\ ShouldRemove(F[l].closer, bs[k])
    BY <1>4 DEF Chained
  <2>2. k \in 1..Len(cs) /\ cs[k] = bs[k]
    BY <1>1
  <2> QED BY <2>1, <2>2
<1>5. ASSUME NEW k \in 1..Len(cs), NEW l \in 1..Len(cs), k < l
      PROVE  cs[k].id < cs[l].id
  <2>1. k \in 1..Len(bs) /\ cs[k] = bs[k]
    BY <1>1, <1>5
  <2>2. CASE l \in 1..Len(bs)
    BY <1>1, <1>5, <2>1, <2>2 DEF Chained
  <2>3. CASE l \notin 1..Len(bs)
    <3>1. l = Len(bs) + 1
      BY <1>1, <2>3
    <3> QED BY <1>1, <2>1, <3>1
  <2> QED BY <2>2, <2>3
<1> QED BY <1>3, <1>4, <1>5 DEF Chained

LEMMA ChainShorter ==
  ASSUME NEW F, NEW d, NEW bs \in Seq(Blocker), bs # <<>>, NEW cs, cs = Front(bs),
         Chained(F, d, bs), ~bs[Len(bs)].running
  PROVE  Chained(F, d, cs)
<1>1. /\ Len(bs) \in Nat \ {0} /\ Len(cs) = Len(bs) - 1
      /\ \A k \in 1..Len(cs) : k \in 1..Len(bs) /\ cs[k] = bs[k]
  BY Popped
<1>2. ASSUME NEW k \in 1..Len(cs), cs[k].running
      PROVE  \E l \in Calls(F, d) : F[l].id = cs[k].id
  BY <1>1, <1>2 DEF Chained
<1>3. ASSUME NEW l \in Calls(F, d)
      PROVE  \E k \in 1..Len(cs) :
               cs[k].running /\ cs[k].id = F[l].id /\ ShouldRemove(F[l].closer, cs[k])
  <2>1. PICK k \in 1..Len(bs) :
          bs[k].running /\ bs[k].id = F[l].id /\ ShouldRemove(F[l].closer, bs[k])
    BY <1>3 DEF Chained
  <2>2. k # Len(bs)
    BY <2>1
  <2>3. k \in 1..Len(cs) /\ cs[k] = bs[k]
    BY <1>1, <2>2
  <2> QED BY <2>1, <2>3
<1>4. \A k, l \in 1..Len(cs) : k < l => cs[k].id < cs[l].id
  BY <1>1 DEF Chained
<1>5. \A k, l \in Calls(F, d) : k < l => F[k].id < F[l].id
  BY DEF Chained
<1> QED BY <1>2, <1>3, <1>4, <1>5 DEF Chained

(* The block of the last blocker starts to execute.                         *)
LEMMA ChainStarted ==
  ASSUME NEW F \in Seq(Activation), NEW f \in Activation, NEW G, Called(F, f, G), NEW d,
         NEW bs \in Seq(Blocker), bs # <<>>, NEW b \in Blocker, NEW cs,
         Len(cs) = Len(bs), cs[Len(bs)] = b, \A k \in 1..Len(bs) : k # Len(bs) => cs[k] = bs[k],
         Chained(F, d, bs), ~bs[Len(bs)].running,
         b.running, b.id = bs[Len(bs)].id, b.op = bs[Len(bs)].op, b.arg = bs[Len(bs)].arg,
         f.dir = d, f.op \in Blocks, f.id = b.id, ShouldRemove(f.closer, b)
  PROVE  Chained(G, d, cs)
<1>1. /\ Len(F) \in Nat /\ Len(G) = Len(F) + 1 /\ G[Len(F) + 1] = f
      /\ \A k \in 1..Len(F) : G[k] = F[k]
  BY CalledFacts
<1>2. Len(bs) \in 1..Len(bs) /\ Len(bs) \in Nat /\ DOMAIN bs = 1..Len(bs)
  BY LastOf
<1>3. /\ Calls(G, d) = Calls(F, d) \cup {Len(F) + 1}
      /\ \A l \in Calls(F, d) : l \in 1..Len(F) /\ G[l] = F[l]
  BY <1>1 DEF Calls
<1>4. ASSUME NEW k \in 1..Len(cs), cs[k].running
      PROVE  \E l \in Calls(G, d) : G[l].id = cs[k].id
  <2>1. CASE k = Len(bs)
    <3>1. Len(F) + 1 \in Calls(G, d)
      BY <1>3
    <3>2. cs[k].id = b.id /\ G[Len(F) + 1].id = b.id
      BY <1>1, <2>1
    <3> QED BY <3>1, <3>2
  <2>2. CASE k # Len(bs)
    <3>1. PICK l \in Calls(F, d) : F[l].id = bs[k].id
      BY <1>4, <2>2 DEF Chained
    <3> QED BY <1>3, <2>2, <3>1
  <2> QED BY <2>1, <2>2
<1>5. ASSUME NEW l \in Calls(F, d)
      PROVE  \E k \in 1..Len(bs) :
               /\ k # Len(bs) /\ cs[k] = bs[k] /\ bs[k].running
               /\ bs[k].id = F[l].id /\ ShouldRemove(F[l].closer, bs[k])
  <2>1. PICK k \in 1..Len(bs) :
          bs[k].running /\ bs[k].id = F[l].id /\ ShouldRemove(F[l].closer, bs[k])
    BY <1>5 DEF Chained
  <2>2. k # Len(bs)
    BY <2>1
  <2> QED BY <2>1, <2>2
<1>6. ASSUME NEW l \in Calls(G, d)
      PROVE  \E k \in 1..Len(cs) :
               cs[k].running /\ cs[k].id = G[l].id /\ ShouldRemove(G[l].closer, cs[k])
  <2>1. CASE l = Len(F) + 1
    BY <1>1, <1>2, <2>1
  <2>2. CASE l \in Calls(F, d)
    <3>1. PICK k \in 1..Len(bs) :
            /\ k # Len(bs) /\ cs[k] = bs[k] /\ bs[k].running
            /\ bs[k].id = F[l].id /\ ShouldRemove(F[l].closer, bs[k])
      BY <1>5, <2>2
    <3> QED BY <1>3, <2>2, <3>1
  <2> QED BY <1>3, <2>1, <2>2
<1>7. ASSUME NEW k \in 1..Len(cs), NEW l \in 1..Len(cs), k < l
      PROVE  cs[k].id < cs[l].id
  <2>1. bs[k].id < bs[l].id
    BY <1>7 DEF Chained
  <2>2. cs[k].id = bs[k].id /\ cs[l].id = bs[l].id
    OBVIOUS
  <2> QED BY <2>1, <2>2
<1>8. ASSUME NEW k \in Calls(G, d), NEW l \in Calls(G, d), k < l
      PROVE  G[k].id < G[l].id
  <2>1. k \in Calls(F, d) /\ k \in 1..Len(F) /\ G[k] = F[k]
    BY <1>1, <1>3, <1>8
  <2>2. CASE l \in Calls(F, d)
    BY <1>3, <1>8, <2>1, <2>2 DEF Chained
  <2>3. CASE l = Len(F) + 1
    <3>1. PICK q \in 1..Len(bs) : q # Len(bs) /\ bs[q].id = F[k].id
      BY <1>5, <2>1
    <3>2. q < Len(bs)
      BY <1>2, <3>1
    <3>3. bs[q].id < bs[Len(bs)].id
      BY <1>2, <3>2 DEF Chained
    <3> QED BY <1>1, <2>1, <2>3, <3>1, <3>3
  <2> QED BY <1>3, <2>2, <2>3
<1> QED BY <1>4, <1>6, <1>7, <1>8 DEF Chained

(* The innermost block ends: the blocker to remove is the last one.         *)
LEMMA ChainEnded ==
  ASSUME NEW F \in Seq(Activation), F # <<>>, NEW G, Returned(F, G), NEW d,
         NEW bs \in Seq(Blocker), NEW cs, Chained(F, d, bs),
         \A k \in 1..Len(bs) : bs[k].running,
         F[Len(F)].dir = d, F[Len(F)].op \in Blocks
  PROVE  /\ bs # <<>> /\ bs[Len(bs)].id = F[Len(F)].id
         /\ ShouldRemove(F[Len(F)].closer, bs[Len(bs)])
         /\ cs = Front(bs) => Chained(G, d, cs)
<1>1. /\ Len(F) \in Nat \ {0} /\ Len(G) = Len(F) - 1
      /\ \A k \in 1..(Len(F) - 1) : G[k] = F[k]
  BY ReturnedFacts
<1>2. /\ Len(bs) \in Nat /\ \A k \in 1..Len(bs) : bs[k].id \in Nat
  <2>1. Len(bs) \in Nat /\ \A k \in 1..Len(bs) : bs[k] \in Blocker
    BY LastOf
  <2>2. \A b \in Blocker : b.id \in Nat
    BY DEF Blocker
  <2> QED BY <2>1, <2>2
<1>3. \A k \in 1..Len(F) : F[k].id \in Nat
  <2>1. \A k \in 1..Len(F) : F[k] \in Activation
    BY LastOf
  <2>2. \A f \in Activation : f.id \in Nat
    BY DEF Activation
  <2> QED BY <2>1, <2>2
<1>4. /\ Calls(F, d) = Calls(G, d) \cup {Len(F)}
      /\ \A l \in Calls(G, d) : l \in 1..(Len(F) - 1) /\ l < Len(F) /\ G[l] = F[l]
  BY <1>1 DEF Calls
<1>5. PICK k \in 1..Len(bs) : bs[k].id = F[Len(F)].id /\ ShouldRemove(F[Len(F)].closer, bs[k])
  BY <1>4 DEF Chained
<1>6. Len(bs) \in 1..Len(bs) /\ bs # <<>>
  BY <1>2, <1>5, LastOf
<1>7. k = Len(bs)
  <2> SUFFICES ASSUME k < Len(bs) PROVE FALSE
    BY <1>2
  <2>1. bs[k].id < bs[Len(bs)].id
    BY <1>6 DEF Chained
  <2>2. PICK l \in Calls(F, d) : F[l].id = bs[Len(bs)].id
    BY <1>6 DEF Chained
  <2>3. l = Len(F) \/ F[l].id < F[Len(F)].id
    BY <1>4 DEF Chained
  <2>4. l \in 1..Len(F)
    BY DEF Calls
  <2> QED BY <1>1, <1>2, <1>3, <1>5, <1>6, <2>1, <2>2, <2>3, <2>4
<1>8. ASSUME cs = Front(bs)
      PROVE  Chained(G, d, cs)
  <2>1. /\ Len(cs) = Len(bs) - 1
        /\ \A q \in 1..Len(cs) : q \in 1..Len(bs) /\ q < Len(bs) /\ cs[q] = bs[q]
    BY <1>6, <1>8, Popped
  <2>2. ASSUME NEW q \in 1..Len(cs)
        PROVE  \E l \in Calls(G, d) : G[l].id = cs[q].id
    <3>1. PICK l \in Calls(F, d) : F[l].id = bs[q].id
      BY <2>1 DEF Chained
    <3>2. bs[q].id < bs[Len(bs)].id
      BY <1>6, <2>1 DEF Chained
    <3>3. l # Len(F)
      BY <1>2, <1>5, <1>7, <2>1, <3>1, <3>2
    <3> QED BY <1>4, <2>1, <3>1, <3>3
  <2>3. ASSUME NEW l \in Calls(G, d)
        PROVE  \E q \in 1..Len(cs) :
                 cs[q].running /\ cs[q].id = G[l].id /\ ShouldRemove(G[l].closer, cs[q])
    <3>1. l \in Calls(F, d) /\ Len(F) \in Calls(F, d) /\ l < Len(F) /\ G[l] = F[l]
      BY <1>4
    <3>2. PICK q \in 1..Len(bs) :
            bs[q].running /\ bs[q].id = F[l].id /\ ShouldRemove(F[l].closer, bs[q])
      BY <3>1 DEF Chained
    <3>3. F[l].id < F[Len(F)].id /\ l \in 1..Len(F) /\ Len(F) \in 1..Len(F)
      BY <1>1, <3>1 DEF Chained, Calls
    <3>4. q # Len(bs)
      BY <1>3, <1>5, <1>7, <3>2, <3>3
    <3>5. q \in 1..Len(cs) /\ cs[q] = bs[q]
      BY <1>2, <2>1, <3>4
    <3> QED BY <3>1, <3>2, <3>5
  <2>4. \A q, l \in 1..Len(cs) : q < l => cs[q].id < cs[l].id
    BY <2>1 DEF Chained
  <2>5. \A q, l \in Calls(G, d) : q < l => G[q].id < G[l].id
    BY <1>4 DEF Chained
  <2> QED BY <2>2, <2>3, <2>4, <2>5 DEF Chained
<1> QED BY <1>5, <1>6, <1>7, <1>8

---------------------------------------------------------------------------
(* Blocks.  Position is how many commands of the current body have been     *)
(* given to the blocker that records, which is the last blocker of the      *)
(* current directory: it was created by the outermost block that is open    *)
(* there.  No block is open around a command that is invoked.               *)
Position == IF outcome = Busy THEN Current.i - 1 ELSE Current.i

BodiesInv ==
  /\ \A n \in DOMAIN program.files : Structured(program.files[n])
  /\ \A k \in 1..Len(frames) : Structured(frames[k].body)
  /\ \A n \in DOMAIN commands : \A w \in DOMAIN commands[n] : Structured(commands[n][w].body)

PlaceInv ==
  /\ \A k \in 1..Len(frames) :
       /\ frames[k].blocking => k = Len(frames) /\ frames[k].op = "if" /\ outcome = Busy
       /\ k < Len(frames) /\ ~fatal => Inside(frames[k].body, frames[k].i) = {}
  /\ (/\ frames # <<>> /\ ~fatal /\ ~Current.blocking /\ ~Blocked)
       => Inside(Current.body, Position) = {}

Records(d, k) ==
  /\ ~fatal /\ frames # <<>> /\ d = Current.dir /\ k = Len(makefiles[d].blockers)
  /\ outcome \in {Busy, {}} /\ ~Current.blocking
  /\ Recorded(Current.body, Position, makefiles[d].blockers[k])

RecorderInv ==
  \A d \in DOMAIN makefiles : \A k \in 1..Len(makefiles[d].blockers) :
    ~makefiles[d].blockers[k].running => Records(d, k)

ChainInv ==
  \A d \in DOMAIN makefiles :
    /\ Chained(frames, d, makefiles[d].blockers)
    /\ \A k \in 1..Len(makefiles[d].blockers) : makefiles[d].blockers[k].id <= created

BlockInv == ~dangling /\ BodiesInv /\ PlaceInv /\ RecorderInv /\ ChainInv

NoRecorder ==
  \A d \in DOMAIN makefiles : \A k \in 1..Len(makefiles[d].blockers) :
    makefiles[d].blockers[k].running

LEMMA BlockersTyped ==
  ASSUME TypeInv, NEW d \in DOMAIN makefiles
  PROVE  /\ makefiles[d].blockers \in Seq(Blocker) /\ Len(makefiles[d].blockers) \in Nat
         /\ DOMAIN makefiles[d].blockers = 1..Len(makefiles[d].blockers)
         /\ \A k \in 1..Len(makefiles[d].blockers) : makefiles[d].blockers[k] \in Blocker
<1>1. makefiles[d].blockers \in Seq(Blocker)
  BY DEF TypeInv, MakefilesTyped, Makefiles
<1> QED BY <1>1, LastOf

LEMMA InsideEnds ==
  ASSUME NEW B \in Seq(Commands), Structured(B)
  PROVE  Inside(B, 0) = {} /\ Inside(B, Len(B)) = {}
<1>1. /\ Len(B) \in Nat /\ Opens(B) \subseteq 1..Len(B)
      /\ \A j \in Opens(B) : Ends(B)[j] \in 1..Len(B)
  BY Nesting
<1> QED BY <1>1 DEF Inside

LEMMA BlockedAt ==
  ASSUME TypeInv, frames # <<>>
  PROVE  Blocked <=> \E k \in 1..Len(Makefile.blockers) : ~Makefile.blockers[k].running
<1>1. DOMAIN Makefile.blockers = 1..Len(Makefile.blockers)
  BY CurrentTyped, BlockersTyped DEF Makefile
<1> QED BY <1>1 DEF Blocked, Recording

LEMMA Idle ==
  ASSUME TypeInv, RecorderInv, frames # <<>>, ~Blocked
  PROVE  NoRecorder
<1>1. ASSUME NEW d \in DOMAIN makefiles, NEW k \in 1..Len(makefiles[d].blockers),
             ~makefiles[d].blockers[k].running
      PROVE  FALSE
  <2>1. d = Current.dir
    BY <1>1 DEF RecorderInv, Records
  <2> QED BY <1>1, <2>1, BlockedAt DEF Makefile
<1> QED BY <1>1 DEF NoRecorder

LEMMA Outside ==
  ASSUME RecorderInv, frames # <<>>, Inside(Current.body, Position) = {} \/ Current.blocking \/ fatal
  PROVE  NoRecorder
<1>1. ASSUME NEW d \in DOMAIN makefiles, NEW k \in 1..Len(makefiles[d].blockers),
             ~makefiles[d].blockers[k].running
      PROVE  FALSE
  BY <1>1 DEF RecorderInv, Records, Recorded
<1> QED BY <1>1 DEF NoRecorder

LEMMA NotBlocked ==
  ASSUME TypeInv, frames # <<>>, NoRecorder
  PROVE  ~Blocked
BY BlockedAt, CurrentTyped DEF NoRecorder, Makefile

(* The blocker that records is the last one.                                *)
LEMMA TheRecorder ==
  ASSUME TypeInv, BlockInv, frames # <<>>, Blocked
  PROVE  /\ Makefile.blockers \in Seq(Blocker) /\ Makefile.blockers # <<>>
         /\ Recorder = Len(Makefile.blockers) /\ Recorder \in 1..Len(Makefile.blockers)
         /\ Makefile.blockers[Recorder] \in Blocker /\ ~Makefile.blockers[Recorder].running
         /\ \A k \in 1..Len(Makefile.blockers) : k # Recorder => Makefile.blockers[k].running
         /\ \A d \in DOMAIN makefiles : d # Current.dir =>
              \A k \in 1..Len(makefiles[d].blockers) : makefiles[d].blockers[k].running
         /\ ~fatal /\ ~Current.blocking
         /\ Recorded(Current.body, Position, Makefile.blockers[Recorder])
         /\ Chained(frames, Current.dir, Makefile.blockers)
         /\ \A k \in 1..Len(Makefile.blockers) : Makefile.blockers[k].id <= created
<1>1. /\ Makefile.blockers \in Seq(Blocker) /\ Recorder \in 1..Len(Makefile.blockers)
      /\ Makefile.blockers[Recorder] \in Blocker /\ ~Makefile.blockers[Recorder].running
  BY RecorderTyped
<1>2. Current.dir \in DOMAIN makefiles
  BY CurrentTyped
<1>3. RecorderInv /\ ChainInv
  BY DEF BlockInv
<1>4. Records(Current.dir, Recorder)
  BY <1>1, <1>2, <1>3 DEF RecorderInv, Makefile
<1>5. Recorder = Len(Makefile.blockers) /\ ~fatal /\ ~Current.blocking
      /\ Recorded(Current.body, Position, Makefile.blockers[Recorder])
  BY <1>4 DEF Records, Makefile
<1>6. Makefile.blockers # <<>>
  BY <1>1, LastOf
<1>7. ASSUME NEW k \in 1..Len(Makefile.blockers), k # Recorder
      PROVE  Makefile.blockers[k].running
  BY <1>2, <1>3, <1>5, <1>7 DEF RecorderInv, Records, Makefile
<1>8. ASSUME NEW d \in DOMAIN makefiles, d # Current.dir
      PROVE  \A k \in 1..Len(makefiles[d].blockers) : makefiles[d].blockers[k].running
  BY <1>3, <1>8 DEF RecorderInv, Records
<1>9. /\ Chained(frames, Current.dir, Makefile.blockers)
      /\ \A k \in 1..Len(Makefile.blockers) : Makefile.blockers[k].id <= created
  BY <1>2, <1>3 DEF ChainInv, Makefile
<1> QED BY <1>1, <1>5, <1>6, <1>7, <1>8, <1>9

LEMMA BlockedNext ==
  ASSUME TypeInv', frames' # <<>>
  PROVE  Blocked' <=> \E k \in 1..Len(Makefile'.blockers) : ~Makefile'.blockers[k].running
<1>1. /\ Makefile'.blockers \in Seq(Blocker)
  <2>1. frames' \in Seq(Activation) /\ \A k \in 1..Len(frames') : frames'[k].dir \in DOMAIN makefiles'
    BY DEF TypeInv, FramesTyped
  <2>2. Current' = frames'[Len(frames')] /\ Len(frames') \in 1..Len(frames')
    BY <2>1, LastOf DEF Current
  <2>3. Current'.dir \in DOMAIN makefiles'
    BY <2>1, <2>2
  <2>4. makefiles'[Current'.dir] \in Makefiles
    BY <2>3 DEF TypeInv, MakefilesTyped
  <2> QED BY <2>4 DEF Makefile, Makefiles
<1>2. DOMAIN Makefile'.blockers = 1..Len(Makefile'.blockers)
  BY <1>1, LastOf
<1> QED BY <1>2 DEF Blocked, Recording

(* Steps within the current call that give its command to a blocker or to   *)
(* the command itself.                                                      *)
LEMMA CurrentBody ==
  ASSUME TypeInv, BlockInv, frames # <<>>
  PROVE  /\ Current = frames[Len(frames)] /\ Len(frames) \in 1..Len(frames) /\ Len(frames) \in Nat
         /\ Current.body \in Seq(Commands) /\ Structured(Current.body)
         /\ Current.i \in Nat /\ Current.i >= 1
<1>1. /\ Len(frames) \in Nat \ {0} /\ Current = frames[Len(frames)] /\ Current \in Activation
      /\ Current.i \in 1..(Len(Current.body) + 1) /\ Len(Current.body) \in Nat
  BY CurrentTyped
<1>2. Current.body \in Seq(Commands)
  BY <1>1 DEF Activation
<1>3. Structured(Current.body)
  BY <1>1 DEF BlockInv, BodiesInv
<1> QED BY <1>1, <1>2, <1>3

LEMMA QuietFacts ==
  ASSUME TypeInv, BlockInv, Quiet
  PROVE  /\ frames' = frames /\ Current' = Current /\ program' = program
         /\ DOMAIN makefiles' = DOMAIN makefiles
         /\ Position = Current.i - 1 /\ Position' = Current.i /\ outcome' # Busy
         /\ Current.i \in 1..Len(Current.body) /\ ~Current.blocking
         /\ \A k \in 1..Len(frames) : ~frames[k].blocking
<1>1. /\ frames # <<>> /\ frames' = frames /\ outcome = Busy /\ outcome' \in Statuses
      /\ Executing /\ AllAlike /\ program' = program /\ Current.i <= Len(Current.body)
  BY DEF Quiet, Others
<1>2. Current' = Current
  BY <1>1 DEF Current
<1>3. outcome' # Busy
  BY <1>1, NotBusy
<1>4. Position = Current.i - 1 /\ Position' = Current.i
  BY <1>1, <1>2, <1>3 DEF Position
<1>5. ~Current.blocking
  BY <1>1 DEF Executing
<1>6. Current = frames[Len(frames)]
  BY <1>1, CurrentTyped
<1>7. \A k \in 1..Len(frames) : ~frames[k].blocking
  BY <1>5, <1>6 DEF BlockInv, PlaceInv
<1>8. Current.i \in 1..Len(Current.body)
  BY <1>1, CurrentTyped
<1> QED BY <1>1, <1>2, <1>3, <1>4, <1>5, <1>7, <1>8 DEF AllAlike

LEMMA QuietBodies ==
  ASSUME TypeInv, BlockInv, Quiet, commands' = commands
  PROVE  BodiesInv'
BY QuietFacts DEF BlockInv, BodiesInv

LEMMA QuietPlace ==
  ASSUME TypeInv, BlockInv, Quiet, ~fatal' => ~fatal,
         fatal' \/ Blocked' \/ Inside(Current.body, Current.i) = {}
  PROVE  PlaceInv'
<1>1. /\ frames' = frames /\ Current' = Current /\ Position' = Current.i
      /\ \A k \in 1..Len(frames) : ~frames[k].blocking
  BY QuietFacts
<1>2. ASSUME NEW k \in 1..Len(frames'), k < Len(frames'), ~fatal'
      PROVE  Inside(frames'[k].body, frames'[k].i) = {}
  BY <1>1, <1>2 DEF BlockInv, PlaceInv
<1>3. \A k \in 1..Len(frames') : ~frames'[k].blocking
  BY <1>1
<1>4. ~fatal' /\ ~Blocked' => Inside(Current'.body, Position') = {}
  BY <1>1
<1> QED BY <1>2, <1>3, <1>4 DEF PlaceInv

LEMMA SimpleBlocks ==
  ASSUME TypeInv, BlockInv, Simple
  PROVE  BlockInv'
<1>1. /\ Quiet /\ ~Blocked /\ SameBlockers /\ commands' = commands /\ created' = created
      /\ dangling' = dangling /\ (fatal' \/ (~fatal /\ Command.op \notin Openers))
  BY DEF Simple
<1>2. frames # <<>>
  BY <1>1 DEF Quiet
<1>3. BodiesInv'
  BY <1>1, QuietBodies
<1>4. NoRecorder
  BY <1>1, <1>2, Idle DEF BlockInv
<1>5. /\ frames' = frames /\ DOMAIN makefiles' = DOMAIN makefiles /\ ~Current.blocking
      /\ Position = Current.i - 1 /\ Current.i \in 1..Len(Current.body)
  BY <1>1, QuietFacts
<1>6. Current.body \in Seq(Commands) /\ Structured(Current.body)
  BY <1>2, CurrentBody
<1>7. PlaceInv'
  <2>1. CASE fatal'
    BY <1>1, <2>1, QuietPlace
  <2>2. CASE ~fatal'
    <3>1. ~fatal /\ Command.op \notin Openers
      BY <1>1, <2>2
    <3>2. Inside(Current.body, Current.i - 1) = {}
      BY <1>1, <1>2, <1>5, <3>1 DEF BlockInv, PlaceInv
    <3>3. Inside(Current.body, Current.i) \subseteq Inside(Current.body, Current.i - 1)
      BY <1>5, <1>6, <3>1, InsideNext DEF Command
    <3> QED BY <1>1, <3>1, <3>2, <3>3, QuietPlace
  <2> QED BY <2>1, <2>2
<1>8. RecorderInv'
  BY <1>1, <1>4, <1>5 DEF RecorderInv, NoRecorder, SameBlockers
<1>9. ChainInv'
  BY <1>1, <1>5 DEF BlockInv, ChainInv, SameBlockers
<1>10. ~dangling'
  BY <1>1 DEF BlockInv
<1> QED BY <1>3, <1>7, <1>8, <1>9, <1>10 DEF BlockInv

LEMMA OpenBlockBlocks ==
  ASSUME TypeInv, BlockInv, OpenBlock
  PROVE  BlockInv'
<1>1. /\ Quiet /\ ~Blocked /\ ~fatal /\ Command.op \in Openers
      /\ New \in Blocker /\ makefiles'[Current.dir].blockers = Append(Makefile.blockers, New)
      /\ \A d \in DOMAIN makefiles :
              d # Current.dir => makefiles'[d].blockers = makefiles[d].blockers
  BY OpenBlockQuiet
<1>2. /\ commands' = commands /\ created' = created + 1 /\ dangling' = dangling /\ fatal' = fatal
      /\ outcome' = {} /\ created \in Nat
  BY DEF OpenBlock, TypeInv
<1>3. frames # <<>>
  BY <1>1 DEF Quiet
<1>4. BodiesInv'
  BY <1>1, <1>2, QuietBodies
<1>5. NoRecorder
  BY <1>1, <1>3, Idle DEF BlockInv
<1>6. /\ frames' = frames /\ Current' = Current /\ DOMAIN makefiles' = DOMAIN makefiles
      /\ ~Current.blocking /\ Position' = Current.i
      /\ Position = Current.i - 1 /\ Current.i \in 1..Len(Current.body)
  BY <1>1, QuietFacts
<1>7. Current.body \in Seq(Commands) /\ Structured(Current.body)
  BY <1>3, CurrentBody
<1>8. /\ Current.dir \in DOMAIN makefiles /\ Makefile.blockers \in Seq(Blocker)
      /\ Makefile.blockers = makefiles[Current.dir].blockers
  BY <1>3, CurrentTyped, BlockersTyped DEF Makefile
<1> DEFINE bs == Makefile.blockers
           cs == Append(bs, New)
<1>9. /\ Len(bs) \in Nat /\ Len(cs) = Len(bs) + 1 /\ cs[Len(bs) + 1] = New
      /\ \A k \in 1..Len(bs) : cs[k] = bs[k]
  BY <1>1, <1>8, Pushed
<1>10. /\ New.op = Command.op /\ New.arg = Command.arg /\ New.body = <<>> /\ New.depth = 0
       /\ New.id = created + 1 /\ New.running = FALSE
  BY DEF New
<1>11. Recorded(Current.body, Current.i, New)
  <2>1. Inside(Current.body, Current.i - 1) = {}
    BY <1>1, <1>3, <1>6 DEF BlockInv, PlaceInv
  <2> QED BY <1>1, <1>6, <1>7, <1>10, <2>1, RecordedOpen DEF Command
<1>12. PlaceInv'
  <2>1. makefiles'[Current.dir].blockers[Len(bs) + 1].running = FALSE
    BY <1>1, <1>9, <1>10
  <2>2. Len(bs) + 1 \in 1..Len(makefiles'[Current.dir].blockers)
    BY <1>1, <1>9
  <2>3. TypeInv'
    BY <1>1, SimpleTyped
  <2>4. frames' # <<>> /\ Makefile' = makefiles'[Current.dir]
    BY <1>3, <1>6 DEF Makefile
  <2>5. Blocked' <=> \E k \in 1..Len(Makefile'.blockers) : ~Makefile'.blockers[k].running
    BY <2>3, <2>4, BlockedNext
  <2>6. Blocked'
    BY <2>1, <2>2, <2>4, <2>5
  <2> QED BY <1>1, <1>2, <2>6, QuietPlace
<1> HIDE DEF bs, cs
<1>13. RecorderInv'
  <2> SUFFICES ASSUME NEW d \in DOMAIN makefiles, NEW k \in 1..Len(makefiles'[d].blockers),
                      ~makefiles'[d].blockers[k].running
               PROVE  Records(d, k)'
    BY <1>6 DEF RecorderInv
  <2>1. d = Current.dir
    BY <1>1, <1>5 DEF NoRecorder
  <2>2. makefiles'[d].blockers = cs
    BY <1>1, <2>1 DEF bs, cs
  <2>3. k = Len(bs) + 1
    BY <1>5, <1>8, <1>9, <2>1, <2>2 DEF NoRecorder, bs
  <2>4. makefiles'[d].blockers[k] = New /\ k = Len(makefiles'[d].blockers)
    BY <1>9, <2>2, <2>3
  <2> QED BY <1>1, <1>2, <1>3, <1>6, <1>11, <2>1, <2>4 DEF Records
<1>14. ChainInv'
  <2>1. ASSUME NEW d \in DOMAIN makefiles, d # Current.dir
        PROVE  /\ Chained(frames', d, makefiles'[d].blockers)
               /\ \A k \in 1..Len(makefiles'[d].blockers) : makefiles'[d].blockers[k].id <= created'
    <3>1. makefiles'[d].blockers = makefiles[d].blockers
      BY <1>1, <2>1
    <3>2. \A k \in 1..Len(makefiles[d].blockers) :
            makefiles[d].blockers[k].id <= created /\ makefiles[d].blockers[k].id \in Nat
      BY BlockersTyped DEF BlockInv, ChainInv, Blocker
    <3> QED BY <1>2, <1>6, <3>1, <3>2 DEF BlockInv, ChainInv
  <2>2. /\ Chained(frames, Current.dir, bs)
        /\ \A k \in 1..Len(bs) : bs[k].id <= created /\ bs[k].id \in Nat
    BY <1>8, BlockersTyped DEF BlockInv, ChainInv, Blocker, bs
  <2>3. /\ Chained(frames', Current.dir, cs)
        /\ \A k \in 1..Len(cs) : cs[k].id <= created'
    <3>1. \A k \in 1..Len(bs) : bs[k].id < New.id
      BY <1>2, <1>10, <2>2
    <3>2. bs \in Seq(Blocker) /\ New \in Blocker /\ cs = Append(bs, New) /\ ~New.running
      BY <1>1, <1>8, <1>10 DEF bs, cs
    <3>3. Chained(frames, Current.dir, cs)
      BY <2>2, <3>1, <3>2, ChainLonger
    <3> QED BY <1>2, <1>6, <1>9, <1>10, <2>2, <3>3
  <2>4. makefiles'[Current.dir].blockers = cs
    BY <1>1 DEF bs, cs
  <2> QED BY <1>6, <2>1, <2>3, <2>4 DEF ChainInv
<1> QED BY <1>2, <1>4, <1>12, <1>13, <1>14 DEF BlockInv

(* A command is recorded.                                                   *)
LEMMA RecordMakes ==
  ASSUME TypeInv, BlockInv, Record
  PROVE  \E n \in Blocker, cs \in Seq(Blocker) :
           LET b == Makefile.blockers[Recorder] IN
           /\ n.op = b.op /\ n.arg = b.arg /\ n.id = b.id /\ n.running = b.running
           /\ n.body = Append(b.body, Command)
           /\ Command.op = b.op => n.depth = b.depth + 1
           /\ Command.op = EndOf[b.op] => n.depth = b.depth - 1
           /\ Command.op # b.op /\ Command.op # EndOf[b.op] => n.depth = b.depth
           /\ makefiles'[Current.dir].blockers = cs /\ Len(cs) = Len(Makefile.blockers)
           /\ \A k \in 1..Len(Makefile.blockers) :
                cs[k] = IF k = Recorder THEN n ELSE Makefile.blockers[k]
           /\ \A d \in DOMAIN makefiles :
                d # Current.dir => makefiles'[d].blockers = makefiles[d].blockers
<1>1. Executing /\ Blocked /\ frames # <<>> /\ Command \in Commands
  BY ExecutingTyped DEF Record
<1> DEFINE b == Makefile.blockers[Recorder]
           k == CASE Command.op = b.op -> b.depth + 1
                  [] Command.op = EndOf[b.op] -> b.depth - 1
                  [] OTHER -> b.depth
           n == [b EXCEPT !.body = Append(b.body, Command), !.depth = k]
           r == Recorder
           cs == [Makefile.blockers EXCEPT ![r] = n]
           m == [Makefile EXCEPT !.blockers = cs]
<1>2. Makefile \in Makefiles /\ Makefile.blockers \in Seq(Blocker)
      /\ Recorder \in 1..Len(Makefile.blockers) /\ b \in Blocker
  BY <1>1, CurrentTyped, RecorderTyped
<1>3. SetMakefile(m) /\ ~Closes(Command, b)
  BY DEF Record
<1>4. b.depth \in Nat /\ b.body \in Seq(Commands) /\ b.op \in Openers
  BY <1>2 DEF Blocker
<1>5. EndOf[b.op] # b.op
  BY <1>4, EndOfFacts
<1>6. k \in Nat
  BY <1>3, <1>4 DEF Closes
<1>7. /\ Command.op = b.op => k = b.depth + 1
      /\ Command.op = EndOf[b.op] => k = b.depth - 1
      /\ Command.op # b.op /\ Command.op # EndOf[b.op] => k = b.depth
  BY <1>5
<1>8. Append(b.body, Command) \in Seq(Commands)
  BY <1>1, <1>4, AppendProperties
<1> HIDE DEF k
<1>9. /\ n \in Blocker /\ n.op = b.op /\ n.arg = b.arg /\ n.id = b.id /\ n.running = b.running
      /\ n.body = Append(b.body, Command) /\ n.depth = k
  BY <1>2, <1>6, <1>8 DEF Blocker
<1> HIDE DEF n
<1>10. r \in 1..Len(Makefile.blockers)
  BY <1>2
<1> HIDE DEF r
<1>11. /\ cs \in Seq(Blocker) /\ Len(cs) = Len(Makefile.blockers)
       /\ \A j \in 1..Len(Makefile.blockers) : cs[j] = IF j = r THEN n ELSE Makefile.blockers[j]
  BY <1>2, <1>9, <1>10, ExceptSeq
<1> HIDE DEF cs
<1>12. m.blockers = cs
  BY <1>2 DEF Makefiles
<1> HIDE DEF m
<1>13. /\ makefiles'[Current.dir].blockers = cs
       /\ \A d \in DOMAIN makefiles :
            d # Current.dir => makefiles'[d].blockers = makefiles[d].blockers
  BY <1>1, <1>3, <1>12, MakefileSet
<1> DEFINE P(x, y) ==
           /\ x.op = b.op /\ x.arg = b.arg /\ x.id = b.id /\ x.running = b.running
           /\ x.body = Append(b.body, Command)
           /\ Command.op = b.op => x.depth = b.depth + 1
           /\ Command.op = EndOf[b.op] => x.depth = b.depth - 1
           /\ Command.op # b.op /\ Command.op # EndOf[b.op] => x.depth = b.depth
           /\ makefiles'[Current.dir].blockers = y /\ Len(y) = Len(Makefile.blockers)
           /\ \A j \in 1..Len(Makefile.blockers) :
                y[j] = IF j = Recorder THEN x ELSE Makefile.blockers[j]
           /\ \A d \in DOMAIN makefiles :
                d # Current.dir => makefiles'[d].blockers = makefiles[d].blockers
<1>14. P(n, cs)
  BY <1>7, <1>9, <1>11, <1>13 DEF r
<1>15. \E x \in Blocker, y \in Seq(Blocker) : P(x, y)
  <2> HIDE DEF P
  <2> QED BY <1>9, <1>11, <1>14
<1> QED BY <1>15

LEMMA RecordBlocks ==
  ASSUME TypeInv, BlockInv, Record
  PROVE  BlockInv'
<1>1. Quiet /\ Blocked /\ ~Closes(Command, Makefile.blockers[Recorder])
  BY RecordQuiet DEF Record
<1>2. /\ commands' = commands /\ created' = created /\ dangling' = dangling /\ fatal' = fatal
      /\ outcome' = {} /\ frames # <<>>
  BY <1>1 DEF Record, Quiet
<1> DEFINE bs == Makefile.blockers
           b == bs[Recorder]
<1>3. PICK n \in Blocker, cs \in Seq(Blocker) :
           /\ n.op = b.op /\ n.arg = b.arg /\ n.id = b.id /\ n.running = b.running
           /\ n.body = Append(b.body, Command)
           /\ Command.op = b.op => n.depth = b.depth + 1
           /\ Command.op = EndOf[b.op] => n.depth = b.depth - 1
           /\ Command.op # b.op /\ Command.op # EndOf[b.op] => n.depth = b.depth
           /\ makefiles'[Current.dir].blockers = cs /\ Len(cs) = Len(bs)
           /\ \A k \in 1..Len(bs) : cs[k] = IF k = Recorder THEN n ELSE bs[k]
           /\ \A d \in DOMAIN makefiles :
                d # Current.dir => makefiles'[d].blockers = makefiles[d].blockers
  BY RecordMakes
<1>4. /\ bs \in Seq(Blocker) /\ Recorder = Len(bs) /\ Recorder \in 1..Len(bs) /\ b \in Blocker
      /\ ~b.running /\ \A k \in 1..Len(bs) : k # Recorder => bs[k].running
      /\ \A d \in DOMAIN makefiles : d # Current.dir =>
              \A k \in 1..Len(makefiles[d].blockers) : makefiles[d].blockers[k].running
      /\ ~fatal /\ ~Current.blocking
      /\ Recorded(Current.body, Position, b) /\ Chained(frames, Current.dir, bs)
      /\ \A k \in 1..Len(bs) : bs[k].id <= created
  BY <1>1, <1>2, TheRecorder
<1> HIDE DEF b, bs
<1>5. /\ frames' = frames /\ Current' = Current /\ DOMAIN makefiles' = DOMAIN makefiles
      /\ ~Current.blocking /\ Position' = Current.i
      /\ Position = Current.i - 1 /\ Current.i \in 1..Len(Current.body)
  BY <1>1, QuietFacts
<1>6. Current.body \in Seq(Commands) /\ Structured(Current.body) /\ Current.dir \in DOMAIN makefiles
  BY <1>2, CurrentBody, CurrentTyped
<1>7. BodiesInv'
  BY <1>1, <1>2, QuietBodies
<1>8. Recorded(Current.body, Current.i, n)
  <2>1. Command = Current.body[Current.i] /\ ~Closes(Command, b)
    BY <1>1 DEF Command, b, bs
  <2> QED BY <1>3, <1>4, <1>5, <1>6, <2>1, RecordedMore
<1>9. PlaceInv'
  <2>1. TypeInv'
    BY <1>1, SimpleTyped
  <2>2. frames' # <<>> /\ Makefile' = makefiles'[Current.dir]
    BY <1>2, <1>5 DEF Makefile
  <2>3. ~Makefile'.blockers[Recorder].running /\ Recorder \in 1..Len(Makefile'.blockers)
    BY <1>3, <1>4, <2>2
  <2>4. Blocked'
    BY <2>1, <2>2, <2>3, BlockedNext
  <2> QED BY <1>1, <1>2, <2>4, QuietPlace
<1>10. RecorderInv'
  <2> SUFFICES ASSUME NEW d \in DOMAIN makefiles, NEW k \in 1..Len(makefiles'[d].blockers),
                      ~makefiles'[d].blockers[k].running
               PROVE  Records(d, k)'
    BY <1>5 DEF RecorderInv
  <2>1. d = Current.dir
    BY <1>3, <1>4
  <2>2. k = Recorder /\ makefiles'[d].blockers = cs
    BY <1>3, <1>4, <2>1
  <2>3. makefiles'[d].blockers[k] = n /\ k = Len(makefiles'[d].blockers)
    BY <1>3, <1>4, <2>2
  <2> QED BY <1>2, <1>4, <1>5, <1>8, <2>1, <2>3 DEF Records
<1>11. ChainInv'
  <2>1. ASSUME NEW d \in DOMAIN makefiles, d # Current.dir
        PROVE  /\ Chained(frames', d, makefiles'[d].blockers)
               /\ \A k \in 1..Len(makefiles'[d].blockers) : makefiles'[d].blockers[k].id <= created'
    BY <1>2, <1>3, <1>5, <2>1 DEF BlockInv, ChainInv
  <2>2. \A k \in 1..Len(bs) : /\ cs[k].id = bs[k].id /\ cs[k].running = bs[k].running
                              /\ cs[k].op = bs[k].op /\ cs[k].arg = bs[k].arg
    BY <1>3 DEF b
  <2>3. Chained(frames', Current.dir, cs)
    BY <1>3, <1>4, <1>5, <2>2, ChainSame
  <2>4. \A k \in 1..Len(cs) : cs[k].id <= created'
    BY <1>2, <1>3, <1>4, <2>2
  <2> QED BY <1>3, <1>5, <2>1, <2>3, <2>4 DEF ChainInv
<1>12. ~dangling'
  BY <1>2 DEF BlockInv
<1> QED BY <1>7, <1>9, <1>10, <1>11, <1>12 DEF BlockInv

(* The blocker to remove is the last one when its own end is met.           *)
LEMMA LastRemoved ==
  ASSUME NEW m \in Makefiles, m.blockers # <<>>, NEW c,
         ShouldRemove(c, m.blockers[Len(m.blockers)])
  PROVE  /\ RemoveFunctionBlocker(m, c).blockers = Front(m.blockers)
         /\ Removable(m, c) # {} /\ Max(Removable(m, c)) = Len(m.blockers)
<1> DEFINE bs == m.blockers
           R == Removable(m, c)
<1>1. bs \in Seq(Blocker)
  BY DEF Makefiles
<1>2. Len(bs) \in 1..Len(bs) /\ Len(bs) \in Nat /\ DOMAIN bs = 1..Len(bs)
  BY <1>1, LastOf
<1>3. R \in SUBSET (1..Len(bs)) /\ Len(bs) \in R
  BY <1>2 DEF Removable
<1>4. RemoveFunctionBlocker(m, c) = [m EXCEPT !.blockers = RemoveAt(bs, Max(R))]
  BY <1>3 DEF RemoveFunctionBlocker
<1> HIDE DEF R, bs
<1>5. Max(R) \in R /\ \A j \in R : j <= Max(R)
  BY <1>2, <1>3, Greatest
<1>6. Max(R) = Len(bs)
  <2>1. Max(R) \in 1..Len(bs) /\ Len(bs) <= Max(R)
    BY <1>3, <1>5
  <2> QED BY <1>2, <2>1
<1>7. RemoveAt(bs, Max(R)) = Front(bs)
  BY <1>1, <1>6, RemovedLast DEF bs
<1>8. RemoveFunctionBlocker(m, c).blockers = Front(bs)
  BY <1>4, <1>7 DEF Makefiles
<1> QED BY <1>3, <1>6, <1>8 DEF R, bs

(* The definition of a function or macro ends.                              *)
LEMMA DefineMakes ==
  ASSUME TypeInv, Define
  PROVE  /\ Closes(Command, Makefile.blockers[Recorder])
         /\ SetMakefile(RemoveFunctionBlocker(Makefile, Command))
         /\ \E n : /\ DOMAIN commands' = DOMAIN commands \union {n}
                   /\ \A x \in DOMAIN commands : x # n => commands'[x] = commands[x]
                   /\ \A w \in DOMAIN commands'[n] :
                        \/ commands'[n][w].body = Makefile.blockers[Recorder].body
                        \/ n \in DOMAIN commands /\ commands'[n][w] = commands[n][1]
                             /\ 1 \in DOMAIN commands[n]
<1> DEFINE b == Makefile.blockers[Recorder]
           new == [op |-> b.op, body |-> b.body]
           old == IF b.arg \in DOMAIN commands THEN <<commands[b.arg][1]>> ELSE <<>>
           s == <<new>> \o old
           a == b.arg
<1>1. /\ commands' = [n \in DOMAIN commands \union {a} |-> IF n = a THEN s ELSE commands[n]]
      /\ Closes(Command, b) /\ SetMakefile(RemoveFunctionBlocker(Makefile, Command))
  BY DEF Define
<1>2. new.body = b.body
  OBVIOUS
<1>3. ASSUME NEW w \in DOMAIN s
      PROVE  \/ s[w].body = b.body
             \/ a \in DOMAIN commands /\ s[w] = commands[a][1] /\ 1 \in DOMAIN commands[a]
  <2>1. CASE a \in DOMAIN commands
    <3>1. commands[a] \in Seq(Definition) /\ commands[a] # <<>>
      BY <2>1 DEF TypeInv, CommandsTyped
    <3>2. 1 \in DOMAIN commands[a]
      BY <3>1, LastOf
    <3> DEFINE c == commands[a][1]
    <3>3. s = <<new>> \o <<c>>
      BY <2>1
    <3> HIDE DEF c, new
    <3> DEFINE S == {new, c}
    <3>4. <<new>> \in Seq(S) /\ <<c>> \in Seq(S)
      OBVIOUS
    <3> HIDE DEF S
    <3>5. s \in Seq(S)
      BY <3>3, <3>4, ConcatProperties
    <3> HIDE DEF s
    <3>6. s[w] = new \/ s[w] = c
      BY <1>3, <3>5, LastOf DEF S
    <3> QED BY <1>2, <2>1, <3>2, <3>6 DEF c
  <2>2. CASE a \notin DOMAIN commands
    <3>1. s = <<new>> \o <<>>
      BY <2>2
    <3> HIDE DEF new
    <3>2. s = <<new>>
      BY <3>1
    <3>3. s[w] = new
      BY <3>2
    <3> QED BY <1>2, <3>3
  <2> QED BY <2>1, <2>2
<1> HIDE DEF s, a
<1>4. /\ DOMAIN commands' = DOMAIN commands \union {a} /\ commands'[a] = s
      /\ \A x \in DOMAIN commands : x # a => commands'[x] = commands[x]
  BY <1>1
<1>5. \A w \in DOMAIN commands'[a] :
        \/ commands'[a][w].body = b.body
        \/ a \in DOMAIN commands /\ commands'[a][w] = commands[a][1] /\ 1 \in DOMAIN commands[a]
  BY <1>3, <1>4
<1> QED BY <1>1, <1>4, <1>5

LEMMA DefineBlocks ==
  ASSUME TypeInv, BlockInv, Define
  PROVE  BlockInv'
<1>1. Quiet /\ Blocked
  BY DefineQuiet DEF Define
<1>2. /\ created' = created /\ dangling' = dangling /\ fatal' = fatal
      /\ outcome' = {} /\ frames # <<>>
  BY <1>1 DEF Define, Quiet
<1> DEFINE bs == Makefile.blockers
           b == bs[Recorder]
           cs == Front(bs)
<1>3. /\ bs \in Seq(Blocker) /\ bs # <<>> /\ Recorder = Len(bs) /\ Recorder \in 1..Len(bs)
      /\ b \in Blocker /\ ~b.running /\ \A k \in 1..Len(bs) : k # Recorder => bs[k].running
      /\ \A d \in DOMAIN makefiles : d # Current.dir =>
              \A k \in 1..Len(makefiles[d].blockers) : makefiles[d].blockers[k].running
      /\ Recorded(Current.body, Position, b) /\ Chained(frames, Current.dir, bs)
      /\ \A k \in 1..Len(bs) : bs[k].id <= created
  BY <1>1, <1>2, TheRecorder
<1>4. Closes(Command, b) /\ SetMakefile(RemoveFunctionBlocker(Makefile, Command))
  BY DefineMakes
<1>5. /\ frames' = frames /\ Current' = Current /\ DOMAIN makefiles' = DOMAIN makefiles
      /\ Position' = Current.i /\ program' = program
      /\ Position = Current.i - 1 /\ Current.i \in 1..Len(Current.body)
  BY <1>1, QuietFacts
<1>6. Current.body \in Seq(Commands) /\ Structured(Current.body) /\ Makefile \in Makefiles
  BY <1>2, CurrentBody, CurrentTyped
<1>7. /\ ShouldRemove(Command, b) /\ Inside(Current.body, Current.i) = {} /\ Structured(b.body)
  <2> HIDE DEF b, bs
  <2> QED BY <1>3, <1>4, <1>5, <1>6, RecordedClose DEF Command
<1>8. RemoveFunctionBlocker(Makefile, Command).blockers = cs
  BY <1>3, <1>6, <1>7, LastRemoved
<1>9. /\ makefiles'[Current.dir].blockers = cs
      /\ \A d \in DOMAIN makefiles :
            d # Current.dir => makefiles'[d].blockers = makefiles[d].blockers
  BY <1>2, <1>4, <1>8, MakefileSet
<1>10. BodiesInv'
  <2>1. PICK n : /\ DOMAIN commands' = DOMAIN commands \union {n}
                 /\ \A x \in DOMAIN commands : x # n => commands'[x] = commands[x]
                 /\ \A w \in DOMAIN commands'[n] :
                        \/ commands'[n][w].body = b.body
                        \/ n \in DOMAIN commands /\ commands'[n][w] = commands[n][1]
                             /\ 1 \in DOMAIN commands[n]
    BY DefineMakes
  <2> HIDE DEF b
  <2>2. BodiesInv
    BY DEF BlockInv
  <2>3. ASSUME NEW x \in DOMAIN commands', NEW w \in DOMAIN commands'[x]
        PROVE  Structured(commands'[x][w].body)
    <3>1. CASE x = n
      BY <1>7, <2>1, <2>2, <2>3, <3>1 DEF BodiesInv
    <3>2. CASE x # n
      BY <2>1, <2>2, <2>3, <3>2 DEF BodiesInv
    <3> QED BY <3>1, <3>2
  <2> QED BY <1>5, <2>2, <2>3 DEF BodiesInv
<1>11. /\ Len(cs) = Len(bs) - 1 /\ Len(bs) \in Nat \ {0}
       /\ \A k \in 1..Len(cs) : cs[k] = bs[k]
  BY <1>3, Popped
<1>12. PlaceInv'
  BY <1>1, <1>2, <1>7, QuietPlace
<1> HIDE DEF b, bs, cs
<1>13. \A k \in 1..Len(cs) : cs[k].running /\ cs[k].id <= created
  BY <1>3, <1>11
<1>14. RecorderInv'
  BY <1>3, <1>5, <1>9, <1>13 DEF RecorderInv
<1>15. ChainInv'
  <2>1. ASSUME NEW d \in DOMAIN makefiles, d # Current.dir
        PROVE  /\ Chained(frames', d, makefiles'[d].blockers)
               /\ \A k \in 1..Len(makefiles'[d].blockers) : makefiles'[d].blockers[k].id <= created'
    BY <1>2, <1>5, <1>9, <2>1 DEF BlockInv, ChainInv
  <2>2. Chained(frames', Current.dir, cs)
    BY <1>3, <1>5, ChainShorter DEF cs, b
  <2> QED BY <1>2, <1>5, <1>9, <1>13, <2>1, <2>2 DEF ChainInv
<1>16. ~dangling'
  BY <1>2 DEF BlockInv
<1> QED BY <1>10, <1>12, <1>14, <1>15, <1>16 DEF BlockInv

(* Steps of the loops of the C++ code.                                      *)
LEMMA TurnedBlocks ==
  ASSUME TypeInv, BlockInv, NEW f, Turned(f), f.blocking => f.op = "if",
         NoRecorder \/ (outcome # Busy /\ f.i = Current.i + 1 /\ f.blocking = Current.blocking),
         fatal \/ f.blocking \/ Blocked \/ Inside(Current.body, f.i - 1) = {}
  PROVE  BlockInv'
<1>1. /\ frames # <<>> /\ f \in Activation /\ SameCall(Current, f) /\ f.i \in 1..(Len(f.body) + 1)
      /\ Changed(frames, f, frames') /\ outcome' = Busy /\ AllAlike /\ program' = program
      /\ SameBlockers /\ UNCHANGED <<commands, fatal, created, dangling>>
  BY DEF Turned, Others
<1>2. /\ Current = frames[Len(frames)] /\ Len(frames) \in 1..Len(frames) /\ Len(frames) \in Nat
      /\ Current.body \in Seq(Commands) /\ Structured(Current.body)
      /\ Current.i \in Nat /\ Current.i >= 1 /\ frames \in Seq(Activation)
      /\ Current.dir \in DOMAIN makefiles
  BY <1>1, CurrentBody, CurrentTyped
<1>3. /\ Len(frames') = Len(frames) /\ frames' # <<>> /\ Current' = f
      /\ frames'[Len(frames)] = f
      /\ \A a \in 1..Len(frames) : a # Len(frames) => frames'[a] = frames[a]
  BY <1>1, <1>2, ChangedFacts DEF Current
<1>4. \A a \in 1..Len(frames) : /\ frames'[a].dir = frames[a].dir /\ frames'[a].op = frames[a].op
                                /\ frames'[a].id = frames[a].id
                                /\ frames'[a].closer = frames[a].closer
                                /\ frames'[a].body = frames[a].body
  BY <1>1, <1>2, <1>3 DEF SameCall
<1>5. f.dir = Current.dir /\ f.body = Current.body /\ f.i \in Nat
  BY <1>1, <1>2 DEF SameCall
<1>6. Position' = f.i - 1
  BY <1>1, <1>3 DEF Position
<1>7. DOMAIN makefiles' = DOMAIN makefiles
      /\ \A d \in DOMAIN makefiles : makefiles'[d].blockers = makefiles[d].blockers
  BY <1>1 DEF AllAlike, SameBlockers
<1>8. BodiesInv'
  BY <1>1, <1>3, <1>4 DEF BlockInv, BodiesInv
<1>9. Blocked' <=> Blocked
  <2>1. Makefile'.blockers = Makefile.blockers
    BY <1>2, <1>3, <1>5, <1>7 DEF Makefile
  <2>2. TypeInv'
    BY TurnedTyped
  <2> QED BY <1>1, <1>3, <2>1, <2>2, BlockedAt, BlockedNext
<1>10. PlaceInv'
  <2>1. ASSUME NEW k \in 1..Len(frames'), frames'[k].blocking
        PROVE  k = Len(frames') /\ frames'[k].op = "if" /\ outcome' = Busy
    BY <1>1, <1>3, <2>1 DEF BlockInv, PlaceInv
  <2>2. ASSUME NEW k \in 1..Len(frames'), k < Len(frames'), ~fatal'
        PROVE  Inside(frames'[k].body, frames'[k].i) = {}
    <3>1. frames'[k] = frames[k] /\ k \in 1..Len(frames) /\ k < Len(frames) /\ ~fatal
      BY <1>1, <1>3, <2>2
    <3> QED BY <3>1 DEF BlockInv, PlaceInv
  <2>3. ASSUME ~fatal', ~Current'.blocking, ~Blocked'
        PROVE  Inside(Current'.body, Position') = {}
    BY <1>1, <1>3, <1>5, <1>6, <1>9, <2>3
  <2> QED BY <2>1, <2>2, <2>3 DEF PlaceInv
<1>11. RecorderInv'
  <2>1. CASE NoRecorder
    BY <1>7, <2>1 DEF RecorderInv, NoRecorder
  <2>2. CASE outcome # Busy /\ f.i = Current.i + 1 /\ f.blocking = Current.blocking
    <3>1. Position' = Position
      BY <1>2, <1>6, <2>2 DEF Position
    <3> SUFFICES ASSUME NEW d \in DOMAIN makefiles, NEW k \in 1..Len(makefiles[d].blockers),
                        ~makefiles[d].blockers[k].running
                 PROVE  Records(d, k)'
      BY <1>7 DEF RecorderInv
    <3>2. Records(d, k)
      BY DEF BlockInv, RecorderInv
    <3> QED BY <1>1, <1>3, <1>5, <1>7, <2>2, <3>1, <3>2 DEF Records
  <2> QED BY <2>1, <2>2
<1>12. ChainInv'
  <2> SUFFICES ASSUME NEW d \in DOMAIN makefiles
               PROVE  /\ Chained(frames', d, makefiles[d].blockers)
                      /\ \A k \in 1..Len(makefiles[d].blockers) : makefiles[d].blockers[k].id <= created
    BY <1>1, <1>7 DEF ChainInv
  <2>1. Chained(frames, d, makefiles[d].blockers)
    BY DEF BlockInv, ChainInv
  <2> QED BY <1>3, <1>4, <2>1, ChainSame DEF BlockInv, ChainInv
<1>13. ~dangling'
  BY <1>1 DEF BlockInv
<1> QED BY <1>8, <1>10, <1>11, <1>12, <1>13 DEF BlockInv

LEMMA SwitchBlocks ==
  ASSUME TypeInv, BlockInv, Switch
  PROVE  BlockInv'
<1>1. PICK f : /\ Turned(f) /\ outcome = Busy /\ Current.i <= Len(Current.body)
               /\ f.i = Current.i + 1
               /\ IsSwitch(Current) \/ (Current.blocking /\ f.blocking = Current.blocking)
  BY SwitchTurned
<1>2. frames # <<>> /\ SameCall(Current, f)
  BY <1>1 DEF Turned
<1>3. /\ Current = frames[Len(frames)] /\ Len(frames) \in 1..Len(frames)
      /\ Current.body \in Seq(Commands) /\ Structured(Current.body)
      /\ Current.i \in Nat /\ Current.i >= 1
  BY <1>2, CurrentBody
<1>4. f.op = Current.op /\ f.i - 1 = Current.i /\ Position = Current.i - 1
  BY <1>1, <1>2, <1>3 DEF SameCall, Position
<1>5. CASE Current.blocking /\ f.blocking = Current.blocking
  <2>1. NoRecorder
    BY <1>2, <1>5, Outside DEF BlockInv
  <2>2. Current.op = "if"
    BY <1>3, <1>5 DEF BlockInv, PlaceInv
  <2> QED BY <1>1, <1>4, <1>5, <2>1, <2>2, TurnedBlocks
<1>6. CASE IsSwitch(Current)
  <2>1. /\ Current.op = "if" /\ IfDepth(Current) = 0
        /\ Current.body[Current.i].op \in {"else", "elseif"}
    BY <1>6 DEF IsSwitch
  <2>2. Current.i \in 1..Len(Current.body)
    BY <1>1, <1>3, OpensFacts
  <2>3. Inside(Current.body, Current.i) = {} /\ Inside(Current.body, Current.i - 1) = {}
    BY <1>3, <2>1, <2>2, SwitchOutside
  <2>4. NoRecorder
    BY <1>2, <1>4, <2>3, Outside DEF BlockInv
  <2> QED BY <1>1, <1>4, <2>1, <2>3, <2>4, TurnedBlocks
<1> QED BY <1>1, <1>5, <1>6

LEMMA AdvanceBlocks ==
  ASSUME TypeInv, BlockInv, Advance
  PROVE  BlockInv'
<1>1. PICK f : /\ Turned(f) /\ outcome # Busy
               /\ f.i = Current.i + 1 /\ f.blocking = Current.blocking
  BY AdvanceTurned
<1>2. frames # <<>>
  BY <1>1 DEF Turned
<1>3. /\ Current = frames[Len(frames)] /\ Len(frames) \in 1..Len(frames)
      /\ Current.i \in Nat
  BY <1>2, CurrentBody
<1>4. ~Current.blocking
  BY <1>1, <1>3 DEF BlockInv, PlaceInv
<1>5. f.i - 1 = Position
  BY <1>1, <1>3 DEF Position
<1>6. fatal \/ Blocked \/ Inside(Current.body, Position) = {}
  BY <1>2, <1>4 DEF BlockInv, PlaceInv
<1> QED BY <1>1, <1>4, <1>5, <1>6, TurnedBlocks

LEMMA RepeatBlocks ==
  ASSUME TypeInv, BlockInv, Repeat
  PROVE  BlockInv'
<1>1. PICK f : /\ Turned(f) /\ outcome = Busy /\ AtEnd
               /\ f.i = 1 /\ f.blocking = Current.blocking
  BY RepeatTurned
<1>2. frames # <<>> /\ SameCall(Current, f)
  BY <1>1 DEF Turned
<1>3. /\ Current = frames[Len(frames)] /\ Len(frames) \in 1..Len(frames)
      /\ Current.body \in Seq(Commands) /\ Structured(Current.body)
      /\ Current.i \in 1..(Len(Current.body) + 1) /\ Len(Current.body) \in Nat
  BY <1>2, CurrentBody, CurrentTyped
<1>4. Position = Len(Current.body) /\ f.i - 1 = 0
  BY <1>1, <1>3 DEF Position, AtEnd
<1>5. Inside(Current.body, 0) = {} /\ Inside(Current.body, Len(Current.body)) = {}
  BY <1>3, InsideEnds
<1>6. NoRecorder
  BY <1>2, <1>4, <1>5, Outside DEF BlockInv
<1>7. f.blocking => f.op = "if"
  BY <1>1, <1>2, <1>3 DEF BlockInv, PlaceInv, SameCall
<1> QED BY <1>1, <1>4, <1>5, <1>6, <1>7, TurnedBlocks

(* Steps that call: no block is open around the command that calls, and     *)
(* none at the start or the end of the body of the call.                    *)
LEMMA CalledPlace ==
  ASSUME TypeInv, BlockInv, NEW f \in Activation, frames # <<>>, Called(frames, f, frames'),
         Structured(f.body), program' = program, commands' = commands, fatal' = fatal,
         outcome' = Busy, ~Current.blocking, f.blocking => f.op = "if",
         Inside(Current.body, Current.i) = {}, Inside(f.body, f.i - 1) = {}
  PROVE  BodiesInv' /\ PlaceInv'
<1>1. /\ Current = frames[Len(frames)] /\ Len(frames) \in 1..Len(frames)
      /\ frames \in Seq(Activation)
  BY CurrentBody, CurrentTyped
<1>2. /\ Len(frames) \in Nat /\ Len(frames') = Len(frames) + 1 /\ frames' # <<>>
      /\ frames'[Len(frames) + 1] = f /\ Current' = f
      /\ \A a \in 1..Len(frames) : frames'[a] = frames[a]
  BY <1>1, CalledFacts DEF Current
<1>3. ASSUME NEW k \in 1..Len(frames')
      PROVE  /\ Structured(frames'[k].body)
             /\ frames'[k].blocking => k = Len(frames') /\ frames'[k].op = "if" /\ outcome' = Busy
             /\ k < Len(frames') /\ ~fatal' => Inside(frames'[k].body, frames'[k].i) = {}
  <2>1. CASE k = Len(frames) + 1
    BY <1>2, <2>1
  <2>2. CASE k # Len(frames) + 1
    <3>1. k \in 1..Len(frames) /\ frames'[k] = frames[k]
      BY <1>2, <2>2
    <3>2. ~frames[k].blocking /\ Structured(frames[k].body)
      BY <1>1, <3>1 DEF BlockInv, PlaceInv, BodiesInv
    <3>3. ~fatal' => Inside(frames[k].body, frames[k].i) = {}
      <4>1. CASE k = Len(frames)
        BY <1>1, <4>1
      <4>2. CASE k # Len(frames)
        <5>1. k < Len(frames)
          BY <1>2, <3>1, <4>2
        <5>2. ~fatal' => ~fatal
          OBVIOUS
        <5> QED BY <3>1, <5>1, <5>2 DEF BlockInv, PlaceInv
      <4> QED BY <4>1, <4>2
    <3> QED BY <3>1, <3>2, <3>3
  <2> QED BY <2>1, <2>2
<1>4. Position' = f.i - 1
  BY <1>2 DEF Position
<1>5. BodiesInv'
  BY <1>3 DEF BlockInv, BodiesInv
<1>6. PlaceInv'
  BY <1>2, <1>3, <1>4 DEF PlaceInv
<1> QED BY <1>5, <1>6

LEMMA StartedBlocks ==
  ASSUME TypeInv, BlockInv, NEW f, Started(f)
  PROVE  BlockInv'
<1> DEFINE bs == Makefile.blockers
           b == bs[Recorder]
           n == RunningBlocker
           r == Recorder
           cs == [bs EXCEPT ![r] = n]
<1>1. /\ frames # <<>> /\ Executing /\ Blocked /\ Current.i <= Len(Current.body) /\ outcome = Busy
      /\ Closes(Command, b) /\ f.op \in Blocks
      /\ f.op = b.op /\ f.arg = b.arg /\ f.body = b.body /\ f.id = b.id
      /\ f \in Activation /\ f.dir = Current.dir /\ f.closer = Command
      /\ f.i = (IF f.op = "if" THEN 1 ELSE Len(f.body) + 1)
      /\ (f.blocking => f.op = "if")
      /\ Called(frames, f, frames')
  BY DEF Started
<1>2. /\ makefiles'[Current.dir].blockers = cs
      /\ \A d \in DOMAIN makefiles :
           d # Current.dir => makefiles'[d].blockers = makefiles[d].blockers
      /\ AllAlike /\ UNCHANGED <<outcome, commands, fatal, created, dangling>>
      /\ program' = program
  BY DEF Started, Others
<1>3. /\ bs \in Seq(Blocker) /\ bs # <<>> /\ Recorder = Len(bs) /\ Recorder \in 1..Len(bs)
      /\ b \in Blocker /\ ~b.running /\ \A k \in 1..Len(bs) : k # Recorder => bs[k].running
      /\ \A d \in DOMAIN makefiles : d # Current.dir =>
              \A k \in 1..Len(makefiles[d].blockers) : makefiles[d].blockers[k].running
      /\ ~fatal /\ ~Current.blocking
      /\ Recorded(Current.body, Position, b) /\ Chained(frames, Current.dir, bs)
      /\ \A k \in 1..Len(bs) : bs[k].id <= created
  BY <1>1, TheRecorder
<1>4. /\ Current.body \in Seq(Commands) /\ Structured(Current.body)
      /\ Current.i \in 1..Len(Current.body) /\ Current.dir \in DOMAIN makefiles
      /\ frames \in Seq(Activation)
  BY <1>1, CurrentBody, CurrentTyped
<1>5. Position = Current.i - 1
  BY <1>1 DEF Position
<1>6. /\ n \in Blocker /\ n.running /\ n.id = b.id /\ n.op = b.op /\ n.arg = b.arg
  BY <1>3 DEF RunningBlocker, Blocker
<1> HIDE DEF n
<1>7. r \in 1..Len(bs) /\ r = Recorder
  BY <1>3
<1> HIDE DEF r, b
<1>8. /\ cs \in Seq(Blocker) /\ Len(cs) = Len(bs)
      /\ \A k \in 1..Len(bs) : cs[k] = IF k = r THEN n ELSE bs[k]
  <2> HIDE DEF bs
  <2> QED BY <1>3, <1>6, <1>7, ExceptSeq
<1>9. /\ Len(cs) = Len(bs) /\ cs[Len(bs)] = n
      /\ \A k \in 1..Len(bs) : k # Len(bs) => cs[k] = bs[k]
  <2> HIDE DEF cs, bs
  <2> QED BY <1>3, <1>7, <1>8
<1>10. b = bs[Len(bs)]
  BY <1>3 DEF b
<1> HIDE DEF bs, cs
<1>11. /\ ShouldRemove(Command, b) /\ Inside(Current.body, Current.i) = {}
       /\ b.body \in Seq(Commands) /\ Structured(b.body)
  BY <1>1, <1>3, <1>4, <1>5, RecordedClose DEF Command
<1>12. Inside(f.body, f.i - 1) = {}
  <2>1. Inside(b.body, 0) = {} /\ Inside(b.body, Len(b.body)) = {} /\ Len(b.body) \in Nat
    BY <1>11, InsideEnds, LenProperties
  <2>2. f.i - 1 = 0 \/ f.i - 1 = Len(b.body)
    BY <1>1, <2>1
  <2> QED BY <1>1, <2>1, <2>2
<1>13. BodiesInv' /\ PlaceInv'
  BY <1>1, <1>2, <1>3, <1>11, <1>12, CalledPlace
<1>14. DOMAIN makefiles' = DOMAIN makefiles
  BY <1>2 DEF AllAlike
<1>15. \A k \in 1..Len(cs) : cs[k].running /\ cs[k].id <= created
  <2>1. b.id <= created
    BY <1>3, <1>10
  <2> QED BY <1>3, <1>6, <1>7, <1>8, <2>1
<1>16. RecorderInv'
  BY <1>2, <1>3, <1>14, <1>15 DEF RecorderInv
<1>17. ASSUME NEW d \in DOMAIN makefiles
       PROVE  Chained(frames, d, makefiles[d].blockers)
  BY DEF BlockInv, ChainInv
<1>18. /\ Len(frames) \in Nat /\ Len(frames') = Len(frames) + 1
       /\ frames'[Len(frames) + 1] = f
       /\ \A a \in 1..Len(frames) : frames'[a] = frames[a]
  BY <1>1, <1>4, CalledFacts
<1>19. ChainInv'
  <2>1. ASSUME NEW d \in DOMAIN makefiles, d # Current.dir
        PROVE  /\ Chained(frames', d, makefiles'[d].blockers)
               /\ \A k \in 1..Len(makefiles'[d].blockers) : makefiles'[d].blockers[k].id <= created'
    <3>1. makefiles'[d].blockers = makefiles[d].blockers
      BY <1>2, <2>1
    <3>2. Chained(frames', d, makefiles[d].blockers)
      <4>1. PICK q \in Nat : q = Len(frames)
        BY <1>18
      <4>2. /\ Len(frames) = q /\ Len(frames') = q + 1
            /\ \A a \in 1..q : frames'[a] = frames[a]
            /\ frames'[q + 1] = f
        BY <1>18, <4>1
      <4>3. ~(f.dir = d /\ f.op \in Blocks)
        BY <1>1, <2>1
      <4>4. Chained(frames, d, makefiles[d].blockers)
        BY <1>17, <2>1
      <4> QED BY <4>2, <4>3, <4>4, ChainOther
    <3> QED BY <1>2, <3>1, <3>2 DEF BlockInv, ChainInv
  <2>2. ShouldRemove(f.closer, n)
    BY <1>1, <1>6, <1>11 DEF ShouldRemove
  <2>3. Chained(frames', Current.dir, cs)
    BY <1>1, <1>3, <1>4, <1>6, <1>9, <1>10, <2>2, ChainStarted
  <2> QED BY <1>2, <1>14, <1>15, <2>1, <2>3 DEF ChainInv
<1>20. ~dangling'
  BY <1>2 DEF BlockInv
<1> QED BY <1>13, <1>16, <1>19, <1>20 DEF BlockInv

LEMMA EnteredBlockers ==
  ASSUME TypeInv, NEW f, Entered(f)
  PROVE  \A d \in DOMAIN makefiles' :
           \/ d \in DOMAIN makefiles /\ makefiles'[d].blockers = makefiles[d].blockers
           \/ d \notin DOMAIN makefiles /\ makefiles'[d].blockers = <<>>
<1>1. /\ frames # <<>>
      /\ \/ f.op = "macro" /\ f.dir = Current.dir /\ SetMakefile(Makefile)
         \/ f.op = "function" /\ f.dir = Current.dir /\ SetMakefile(PushScope(Makefile))
         \/ /\ f.op = "file" /\ f.dir = Current.dir /\ f.saved = SafeValue(Makefile, "list")
            /\ \E n \in FileNames : SetMakefile(Enter(Makefile, n))
         \/ /\ f.op = "file" /\ f.dir = "sub" /\ "sub" \notin DOMAIN makefiles
            /\ makefiles' = [d \in Directories |->
                 IF d = "sub" THEN Enter(NewMakefile(Last(Makefile.scopes)), "sub") ELSE makefiles[d]]
  BY DEF Entered
<1>2. Makefile \in Makefiles /\ Makefile.scopes # <<>>
  BY <1>1, CurrentTyped
<1>3. CASE SetMakefile(Makefile)
  BY <1>1, <1>3, MakefileSet DEF Makefile
<1>4. CASE SetMakefile(PushScope(Makefile))
  <2>1. PushScope(Makefile).blockers = Makefile.blockers
    BY <1>2, ScopePushed
  <2> QED BY <1>1, <1>4, <2>1, MakefileSet DEF Makefile
<1>5. CASE \E n \in FileNames : SetMakefile(Enter(Makefile, n))
  <2>1. PICK n \in FileNames : SetMakefile(Enter(Makefile, n))
    BY <1>5
  <2>2. Enter(Makefile, n).blockers = Makefile.blockers
    BY <1>2, FileEntered
  <2> QED BY <1>1, <2>1, <2>2, MakefileSet DEF Makefile
<1>6. CASE /\ "sub" \notin DOMAIN makefiles
           /\ makefiles' = [d \in Directories |->
                IF d = "sub" THEN Enter(NewMakefile(Last(Makefile.scopes)), "sub") ELSE makefiles[d]]
  <2> DEFINE m == NewMakefile(Last(Makefile.scopes))
             e == Enter(m, "sub")
  <2>1. Last(Makefile.scopes) \in Scope
    BY <1>2, LastOf DEF Makefiles
  <2>2. m \in Makefiles /\ m.scopes # <<>> /\ m.blockers = <<>>
    BY <2>1, MakefileMade
  <2>3. "sub" \in FileNames
    BY ProgramsAssumption DEF TypeInv, FileNames, Directories
  <2> HIDE DEF m
  <2>4. e.blockers = <<>>
    BY <2>2, <2>3, FileEntered
  <2>5. makefiles' = [d \in Directories |-> IF d = "sub" THEN e ELSE makefiles[d]]
    BY <1>6 DEF m
  <2> HIDE DEF e
  <2>6. "top" \in DOMAIN makefiles
    BY DEF TypeInv, MakefilesTyped
  <2> QED BY <1>6, <2>4, <2>5, <2>6 DEF Directories
<1> QED BY <1>1, <1>3, <1>4, <1>5, <1>6

LEMMA EnteredBlocks ==
  ASSUME TypeInv, BlockInv, NEW f, Entered(f)
  PROVE  BlockInv'
<1>1. /\ frames # <<>> /\ Executing /\ ~Blocked /\ ~fatal /\ outcome = Busy
      /\ Current.i <= Len(Current.body) /\ Command.op \notin Openers
      /\ f \in Activation /\ f.op \in {"file", "function", "macro"} /\ f.i = 1 /\ ~f.blocking
      /\ Called(frames, f, frames')
      /\ UNCHANGED <<outcome, commands, fatal, created, dangling>> /\ program' = program
      /\ \/ f.op = "file" /\ \E n \in DOMAIN program.files : f.body = program.files[n]
         \/ f.op # "file" /\ \E n \in DOMAIN commands : \E w \in DOMAIN commands[n] :
              f.body = commands[n][w].body
  BY DEF Entered, Others
<1>2. /\ Current.body \in Seq(Commands) /\ Structured(Current.body)
      /\ Current.i \in 1..Len(Current.body) /\ frames \in Seq(Activation)
  BY <1>1, CurrentBody, CurrentTyped
<1>3. ~Current.blocking /\ Position = Current.i - 1
  BY <1>1 DEF Executing, Position
<1>4. NoRecorder
  BY <1>1, Idle DEF BlockInv
<1>5. Inside(Current.body, Current.i) = {}
  <2>1. Inside(Current.body, Current.i - 1) = {}
    BY <1>1, <1>3 DEF BlockInv, PlaceInv
  <2>2. Inside(Current.body, Current.i) \subseteq Inside(Current.body, Current.i - 1)
    BY <1>1, <1>2, InsideNext DEF Command
  <2> QED BY <2>1, <2>2
<1>6. Structured(f.body)
  BY <1>1 DEF BlockInv, BodiesInv
<1>7. Inside(f.body, f.i - 1) = {}
  <2>1. f.body \in Seq(Commands)
    BY <1>1 DEF Activation
  <2>2. f.i - 1 = 0
    BY <1>1
  <2> QED BY <1>6, <2>1, <2>2, InsideEnds
<1>8. BodiesInv' /\ PlaceInv'
  BY <1>1, <1>3, <1>5, <1>6, <1>7, CalledPlace
<1>9. \A d \in DOMAIN makefiles' :
           \/ d \in DOMAIN makefiles /\ makefiles'[d].blockers = makefiles[d].blockers
           \/ d \notin DOMAIN makefiles /\ makefiles'[d].blockers = <<>>
  BY EnteredBlockers
<1>10. Len(<<>>) = 0
  OBVIOUS
<1>11. RecorderInv'
  BY <1>4, <1>9, <1>10 DEF RecorderInv, NoRecorder
<1>12. /\ Len(frames) \in Nat /\ Len(frames') = Len(frames) + 1
       /\ frames'[Len(frames) + 1] = f
       /\ \A a \in 1..Len(frames) : frames'[a] = frames[a]
  BY <1>1, <1>2, CalledFacts
<1>13. f.op \notin Blocks
  BY <1>1 DEF Blocks, Loops
<1>14. ASSUME NEW d \in DOMAIN makefiles'
       PROVE  /\ Chained(frames', d, makefiles'[d].blockers)
              /\ \A k \in 1..Len(makefiles'[d].blockers) : makefiles'[d].blockers[k].id <= created'
  <2>1. CASE d \in DOMAIN makefiles /\ makefiles'[d].blockers = makefiles[d].blockers
    <3>1. Chained(frames, d, makefiles[d].blockers)
      BY <2>1 DEF BlockInv, ChainInv
    <3>2. Chained(frames', d, makefiles[d].blockers)
      <4>1. PICK q \in Nat : q = Len(frames)
        BY <1>12
      <4>2. /\ Len(frames) = q /\ Len(frames') = q + 1
            /\ \A a \in 1..q : frames'[a] = frames[a]
            /\ ~(frames'[q + 1].dir = d /\ frames'[q + 1].op \in Blocks)
        BY <1>12, <1>13, <4>1
      <4>3. Len(frames) # q + 1
        BY <4>2
      <4> QED BY <3>1, <4>2, <4>3, ChainOther
    <3> QED BY <1>1, <2>1, <3>2 DEF BlockInv, ChainInv
  <2>2. CASE d \notin DOMAIN makefiles /\ makefiles'[d].blockers = <<>>
    <3>1. \A a \in 1..Len(frames) : frames[a].dir # d
      BY <2>2 DEF TypeInv, FramesTyped
    <3>2. Calls(frames', d) = {}
      <4>1. ASSUME NEW a \in 1..Len(frames'), frames'[a].dir = d, frames'[a].op \in Blocks
            PROVE  FALSE
        <5>1. a # Len(frames) + 1
          BY <1>12, <1>13, <4>1
        <5>2. a \in 1..Len(frames)
          BY <1>12, <5>1
        <5> QED BY <1>12, <3>1, <4>1, <5>2
      <4> QED BY <4>1 DEF Calls
    <3> QED BY <1>10, <2>2, <3>2 DEF Chained
  <2> QED BY <1>9, <2>1, <2>2
<1>15. ChainInv'
  BY <1>14 DEF ChainInv
<1>16. ~dangling'
  BY <1>1 DEF BlockInv
<1> QED BY <1>8, <1>11, <1>15, <1>16 DEF BlockInv

(* The end of a call.                                                       *)
LEMMA LeaveIdle ==
  ASSUME TypeInv, BlockInv, Leave
  PROVE  NoRecorder
<1>1. frames # <<>>
  BY DEF Leave, Alive
<1>2. /\ Current.body \in Seq(Commands) /\ Structured(Current.body)
      /\ Current.i \in 1..(Len(Current.body) + 1) /\ Len(Current.body) \in Nat
  BY <1>1, CurrentBody, CurrentTyped
<1>3. CASE outcome = Busy
  <2>1. Current.i > Len(Current.body)
    BY <1>3 DEF Leave, AtEnd
  <2>2. Position = Len(Current.body)
    BY <1>2, <1>3, <2>1 DEF Position
  <2>3. Inside(Current.body, Len(Current.body)) = {}
    BY <1>2, InsideEnds
  <2> QED BY <1>1, <2>2, <2>3, Outside DEF BlockInv
<1>4. CASE outcome # Busy
  <2>1. outcome \intersect StopsAt[Current.op] # {} \/ fatal
    BY <1>4 DEF Leave, Stopped
  <2>2. outcome # {} \/ fatal
    BY <2>1
  <2> QED BY <1>4, <2>2 DEF BlockInv, RecorderInv, Records, NoRecorder
<1> QED BY <1>3, <1>4

LEMMA LeftBlockers ==
  ASSUME TypeInv, BlockInv, Leave, NEW k, Left(k)
  PROVE  /\ Current.op \notin Blocks => k.blockers = Makefile.blockers
         /\ Current.op \in Blocks =>
              /\ Makefile.blockers # <<>> /\ k.blockers = Front(Makefile.blockers)
              /\ Chained(frames', Current.dir, k.blockers)
         /\ ~dangling'
<1>1. /\ frames # <<>> /\ Returned(frames, frames')
      /\ \/ Current.op = "file" /\ k = LeaveFile(Current, Makefile)
         \/ Current.op = "function" /\ k = LeaveFunction(Makefile)
         \/ Current.op = "macro" /\ k = Makefile
         \/ Current.op \in Blocks /\ k = LeaveBlock(Current, Makefile)
  BY DEF Left
<1>2. dangling' = (/\ Current.op \in Loops \union {"if"}
                   /\ DeletesRunning(Makefile, Current.closer, Current.id))
  BY DEF Leave
<1>3. /\ Makefile \in Makefiles /\ Makefile.scopes # <<>> /\ Makefile.files # <<>>
      /\ Current \in Activation /\ frames \in Seq(Activation) /\ Current = frames[Len(frames)]
      /\ Current.dir \in DOMAIN makefiles
  BY <1>1, CurrentTyped
<1>4. CASE Current.op \notin Blocks
  <2>1. ~dangling'
    BY <1>2, <1>4 DEF Blocks
  <2>2. CASE Current.op = "file" /\ k = LeaveFile(Current, Makefile)
    <3>1. Current.saved \in Values
      BY <1>3, <2>2 DEF Activation
    <3>2. k.blockers = Makefile.blockers
      BY <1>3, <2>2, <3>1, FileLeft
    <3> QED BY <1>4, <2>1, <3>2
  <2>3. CASE Current.op = "function" /\ k = LeaveFunction(Makefile)
    <3>1. PopScope(Makefile).blockers = Makefile.blockers
      BY <1>3, ScopePopped
    <3>2. k = Makefile \/ k = PopScope(Makefile)
      BY <2>3 DEF LeaveFunction
    <3> QED BY <1>4, <2>1, <3>1, <3>2
  <2>4. CASE k = Makefile
    BY <1>4, <2>1, <2>4
  <2> QED BY <1>1, <1>4, <2>2, <2>3, <2>4
<1>5. CASE Current.op \in Blocks
  <2> DEFINE bs == Makefile.blockers
             m == IF Current.op = "foreach" THEN AddDefinition(Makefile, Current.arg, Current.saved)
                  ELSE Makefile
  <2>1. k = RemoveFunctionBlocker(m, Current.closer)
    BY <1>1, <1>5 DEF LeaveBlock, Blocks, Loops
  <2>2. Current.arg \in Variables /\ Current.saved \in Values
    BY <1>3, <1>5 DEF Activation
  <2>3. m \in Makefiles /\ m.blockers = bs
    BY <1>3, <2>2, DefinitionAlike DEF Like
  <2> HIDE DEF m
  <2>4. bs \in Seq(Blocker)
    BY <1>3 DEF Makefiles
  <2>5. \A j \in 1..Len(bs) : bs[j].running
    BY <1>3, LeaveIdle DEF NoRecorder, Makefile
  <2>6. Chained(frames, Current.dir, bs)
    BY <1>3 DEF BlockInv, ChainInv, Makefile
  <2> HIDE DEF bs
  <2>7. /\ bs # <<>> /\ bs[Len(bs)].id = Current.id /\ ShouldRemove(Current.closer, bs[Len(bs)])
        /\ \A cs : cs = Front(bs) => Chained(frames', Current.dir, cs)
    BY <1>1, <1>3, <1>5, <2>4, <2>5, <2>6, ChainEnded
  <2>8. k.blockers = Front(bs)
    BY <2>1, <2>3, <2>7, LastRemoved
  <2>9. Max(Removable(Makefile, Current.closer)) = Len(bs)
    BY <1>3, <2>7, LastRemoved DEF bs
  <2>10. ~DeletesRunning(Makefile, Current.closer, Current.id)
    BY <2>7, <2>9 DEF DeletesRunning, bs
  <2> QED BY <1>2, <1>5, <2>7, <2>8, <2>10 DEF bs
<1> QED BY <1>4, <1>5

LEMMA LeftBlocks ==
  ASSUME TypeInv, BlockInv, Leave, NEW k, Left(k)
  PROVE  BlockInv'
<1>1. /\ frames # <<>> /\ Returned(frames, frames') /\ SetMakefile(k)
      /\ UNCHANGED <<program, commands, fatal, created>>
      /\ Len(frames) # 1 => outcome' \in Statuses
  BY DEF Left
<1>2. /\ Current = frames[Len(frames)] /\ Current.dir \in DOMAIN makefiles
      /\ frames \in Seq(Activation) /\ Makefile = makefiles[Current.dir]
  BY <1>1, CurrentTyped DEF Makefile
<1>3. /\ frames' \in Seq(Activation) /\ Len(frames) \in Nat \ {0} /\ Len(frames') = Len(frames) - 1
      /\ \A a \in 1..(Len(frames) - 1) : frames'[a] = frames[a]
  BY <1>1, <1>2, ReturnedFacts
<1>4. /\ DOMAIN makefiles' = DOMAIN makefiles /\ makefiles'[Current.dir] = k
      /\ \A d \in DOMAIN makefiles : d # Current.dir => makefiles'[d] = makefiles[d]
  BY <1>1, MakefileSet
<1>5. NoRecorder
  BY LeaveIdle
<1>6. /\ Current.op \notin Blocks => k.blockers = Makefile.blockers
      /\ Current.op \in Blocks =>
           /\ Makefile.blockers # <<>> /\ k.blockers = Front(Makefile.blockers)
           /\ Chained(frames', Current.dir, k.blockers)
      /\ ~dangling'
  BY LeftBlockers
<1>7. ASSUME NEW j \in 1..Len(k.blockers)
      PROVE  k.blockers[j].running /\ k.blockers[j].id <= created
  <2>1. \A q \in 1..Len(Makefile.blockers) :
          Makefile.blockers[q].running /\ Makefile.blockers[q].id <= created
    BY <1>2, <1>5 DEF BlockInv, ChainInv, NoRecorder
  <2>2. CASE Current.op \notin Blocks
    BY <1>6, <1>7, <2>1, <2>2
  <2>3. CASE Current.op \in Blocks
    <3>1. Makefile.blockers \in Seq(Blocker)
      BY <1>2, BlockersTyped
    <3>2. j \in 1..Len(Makefile.blockers) /\ k.blockers[j] = Makefile.blockers[j]
      BY <1>6, <1>7, <2>3, <3>1, Popped
    <3> QED BY <2>1, <3>2
  <2> QED BY <2>2, <2>3
<1>8. BodiesInv'
  <2>1. \A a \in 1..Len(frames') : a \in 1..Len(frames) /\ frames'[a] = frames[a]
    BY <1>3
  <2> QED BY <1>1, <2>1 DEF BlockInv, BodiesInv
<1>9. \A a \in 1..Len(frames') : /\ a \in 1..Len(frames) /\ a < Len(frames)
                                 /\ frames'[a] = frames[a] /\ ~frames[a].blocking
                                 /\ ~fatal => Inside(frames[a].body, frames[a].i) = {}
  <2>1. \A a \in 1..Len(frames') : a \in 1..Len(frames) /\ a < Len(frames) /\ a # Len(frames)
                                   /\ frames'[a] = frames[a]
    BY <1>3
  <2> QED BY <2>1 DEF BlockInv, PlaceInv
<1>10. PlaceInv'
  <2>1. ASSUME frames' # <<>>, ~fatal'
        PROVE  Inside(Current'.body, Position') = {}
    <3>1. Len(frames') \in 1..Len(frames') /\ Current' = frames'[Len(frames')]
      BY <1>3, <2>1, LastOf DEF Current
    <3>2. Len(frames) # 1
      BY <1>3, <3>1
    <3>3. outcome' # Busy
      BY <1>1, <3>2, NotBusy
    <3>4. Position' = Current'.i
      BY <3>3 DEF Position
    <3>5. Inside(frames'[Len(frames')].body, frames'[Len(frames')].i) = {}
      BY <1>1, <1>9, <2>1, <3>1
    <3> QED BY <3>1, <3>4, <3>5
  <2>2. \A a \in 1..Len(frames') : /\ ~frames'[a].blocking
                                   /\ ~fatal' => Inside(frames'[a].body, frames'[a].i) = {}
    BY <1>1, <1>9
  <2> QED BY <2>1, <2>2 DEF PlaceInv
<1>11. RecorderInv'
  BY <1>4, <1>5, <1>7 DEF RecorderInv, NoRecorder
<1>12. ASSUME NEW d \in DOMAIN makefiles, d # Current.dir \/ Current.op \notin Blocks
       PROVE  Chained(frames', d, makefiles[d].blockers)
  <2>1. Chained(frames, d, makefiles[d].blockers)
    BY DEF BlockInv, ChainInv
  <2>2. PICK q \in Nat : q = Len(frames) - 1
    BY <1>3
  <2>3. /\ Len(frames) = q + 1 /\ Len(frames') = q
        /\ \A a \in 1..q : frames'[a] = frames[a]
        /\ ~(frames[q + 1].dir = d /\ frames[q + 1].op \in Blocks)
    BY <1>2, <1>3, <1>12, <2>2
  <2>4. Len(frames') # q + 1
    BY <2>3
  <2> QED BY <2>1, <2>3, <2>4, ChainOther
<1>13. ASSUME NEW d \in DOMAIN makefiles
       PROVE  /\ Chained(frames', d, makefiles'[d].blockers)
              /\ \A j \in 1..Len(makefiles'[d].blockers) : makefiles'[d].blockers[j].id <= created'
  <2>1. CASE d # Current.dir
    BY <1>1, <1>4, <1>12, <2>1 DEF BlockInv, ChainInv
  <2>2. CASE d = Current.dir
    <3>1. Chained(frames', d, k.blockers)
      BY <1>2, <1>6, <1>12, <2>2
    <3> QED BY <1>1, <1>4, <1>7, <2>2, <3>1
  <2> QED BY <2>1, <2>2
<1>14. ChainInv'
  BY <1>4, <1>13 DEF ChainInv
<1> QED BY <1>6, <1>8, <1>10, <1>11, <1>14 DEF BlockInv

---------------------------------------------------------------------------
(* In the list files of the projects every block is closed where it should  *)
(* be.                                                                      *)
BlocksClosed == \A p \in Programs : \A n \in DOMAIN p.files : Structured(p.files[n])

LEMMA InitBlocks ==
  ASSUME Init, BlocksClosed
  PROVE  BlockInv
<1>1. /\ program \in Programs /\ outcome = Busy /\ commands = <<>> /\ created = 0
      /\ dangling = FALSE /\ Len(frames) = 1 /\ Current = frames[1] /\ frames # <<>>
      /\ frames[1] \in Activation /\ frames[1].op = "file" /\ frames[1].i = 1 /\ ~frames[1].blocking
      /\ frames[1].body = program.files["top"] /\ "top" \in DOMAIN program.files
      /\ DOMAIN makefiles = {"top"} /\ makefiles["top"].blockers = <<>>
  BY InitFacts
<1>2. \A n \in DOMAIN program.files : Structured(program.files[n])
  BY <1>1 DEF BlocksClosed
<1>3. DOMAIN commands = {} /\ Len(<<>>) = 0
  BY <1>1
<1>4. BodiesInv
  BY <1>1, <1>2, <1>3 DEF BodiesInv
<1>5. PlaceInv
  <2>1. Position = 0
    BY <1>1 DEF Position
  <2>2. Current.body \in Seq(Commands) /\ Structured(Current.body)
    BY <1>1, <1>2 DEF Activation
  <2>3. Inside(Current.body, Position) = {}
    BY <2>1, <2>2, InsideEnds
  <2> QED BY <1>1, <2>3 DEF PlaceInv
<1>6. RecorderInv
  BY <1>1, <1>3 DEF RecorderInv
<1>7. Calls(frames, "top") = {}
  BY <1>1 DEF Calls, Blocks, Loops
<1>8. ChainInv
  BY <1>1, <1>3, <1>7 DEF ChainInv, Chained
<1> QED BY <1>1, <1>4, <1>5, <1>6, <1>8 DEF BlockInv

LEMMA BlockStep ==
  ASSUME TypeInv, BlockInv, [Next]_vars
  PROVE  BlockInv'
<1>1. CASE Next
  <2>1. CASE Simple \/ Record \/ Define \/ OpenBlock
    BY <2>1, SimpleBlocks, RecordBlocks, DefineBlocks, OpenBlockBlocks
  <2>2. CASE Switch \/ Advance \/ Repeat
    BY <2>2, SwitchBlocks, AdvanceBlocks, RepeatBlocks
  <2>3. CASE \E f : Started(f)
    BY <2>3, StartedBlocks
  <2>4. CASE \E f : Entered(f)
    BY <2>4, EnteredBlocks
  <2>5. CASE Leave /\ \E k : Left(k)
    BY <2>5, LeftBlocks
  <2> QED BY <1>1, <2>1, <2>2, <2>3, <2>4, <2>5, StepKinds
<1>2. CASE UNCHANGED vars
  <2>1. /\ program' = program /\ frames' = frames /\ outcome' = outcome
        /\ makefiles' = makefiles /\ commands' = commands /\ fatal' = fatal
        /\ created' = created /\ dangling' = dangling
    BY <1>2 DEF vars
  <2>2. Current' = Current
    BY <2>1 DEF Current
  <2>3. Position' = Position /\ (Blocked' <=> Blocked)
    BY <2>1, <2>2 DEF Position, Blocked, Recording, Makefile
  <2>4. BodiesInv'
    BY <2>1 DEF BlockInv, BodiesInv
  <2>5. PlaceInv'
    BY <2>1, <2>2, <2>3 DEF BlockInv, PlaceInv
  <2>6. RecorderInv'
    BY <2>1, <2>2, <2>3 DEF BlockInv, RecorderInv, Records
  <2>7. ChainInv'
    BY <2>1 DEF BlockInv, ChainInv
  <2> QED BY <2>1, <2>4, <2>5, <2>6, <2>7 DEF BlockInv
<1> QED BY <1>1, <1>2

LEMMA BlocksKept == BlocksClosed => (Spec => []BlockInv)
<1>1. Init /\ BlocksClosed => BlockInv
  BY InitBlocks
<1>2. TypeInv /\ BlockInv /\ [Next]_vars => BlockInv'
  BY BlockStep
<1> QED BY <1>1, <1>2, Typed, PTL DEF Spec

LEMMA ChainsNest ==
  ASSUME TypeInv, BlockInv
  PROVE  BlocksNest
<1> SUFFICES ASSUME NEW d \in DOMAIN makefiles
             PROVE  LET bs == makefiles[d].blockers
                        calls == Frames(d, Loops \union {"if"})
                    IN /\ {bs[k].id : k \in {l \in DOMAIN bs : bs[l].running}}
                            = {frames[k].id : k \in calls}
                       /\ \A k, l \in DOMAIN bs : k < l => bs[k].id < bs[l].id
                       /\ \A k, l \in calls : k < l => frames[k].id < frames[l].id
  BY DEF BlocksNest
<1> DEFINE bs == makefiles[d].blockers
           calls == Frames(d, Loops \union {"if"})
<1>1. DOMAIN bs = 1..Len(bs)
  BY BlockersTyped
<1>2. DOMAIN frames = 1..Len(frames)
  BY LastOf DEF TypeInv, FramesTyped
<1>3. calls = Calls(frames, d)
  BY <1>2 DEF Frames, Calls, Blocks
<1>4. Chained(frames, d, bs)
  BY DEF BlockInv, ChainInv
<1> HIDE DEF bs, calls
<1>5. ASSUME NEW k \in DOMAIN bs, bs[k].running PROVE \E l \in calls : frames[l].id = bs[k].id
  BY <1>1, <1>3, <1>4, <1>5 DEF Chained
<1>6. ASSUME NEW l \in calls PROVE \E k \in DOMAIN bs : bs[k].running /\ bs[k].id = frames[l].id
  BY <1>1, <1>3, <1>4, <1>6 DEF Chained
<1>7. {bs[k].id : k \in {l \in DOMAIN bs : bs[l].running}} = {frames[k].id : k \in calls}
  <2>1. ASSUME NEW x \in {bs[k].id : k \in {l \in DOMAIN bs : bs[l].running}}
        PROVE  x \in {frames[k].id : k \in calls}
    <3>1. PICK k \in DOMAIN bs : bs[k].running /\ x = bs[k].id
      BY <2>1
    <3>2. PICK l \in calls : frames[l].id = bs[k].id
      BY <1>5, <3>1
    <3> QED BY <3>1, <3>2
  <2>2. ASSUME NEW x \in {frames[k].id : k \in calls}
        PROVE  x \in {bs[k].id : k \in {l \in DOMAIN bs : bs[l].running}}
    <3>1. PICK l \in calls : x = frames[l].id
      BY <2>2
    <3>2. PICK k \in DOMAIN bs : bs[k].running /\ bs[k].id = frames[l].id
      BY <1>6
    <3> QED BY <3>1, <3>2
  <2> QED BY <2>1, <2>2
<1>8. \A k, l \in DOMAIN bs : k < l => bs[k].id < bs[l].id
  BY <1>1, <1>4 DEF Chained
<1>9. \A k, l \in calls : k < l => frames[k].id < frames[l].id
  BY <1>3, <1>4 DEF Chained
<1> QED BY <1>7, <1>8, <1>9 DEF bs, calls

(* Whatever leaves a body, return and break, failures and fatal errors, the *)
(* blockers of a directory match the blocks that execute, and the removal   *)
(* at the end of a block never deletes a blocker that still executes        *)
(* further out: ~dangling, so nothing undefined happens.                    *)
THEOREM BlockersMatchCalls ==
  BlocksClosed => (Spec => [](BlocksNest /\ ~dangling))
<1>1. TypeInv /\ BlockInv => BlocksNest /\ ~dangling
  BY ChainsNest DEF BlockInv
<1> QED BY <1>1, Typed, BlocksKept, PTL

(* Calls, scopes, list files, policies and blockers agree in every state    *)
(* (StateNests), in a project whose blocks are closed and while no command  *)
(* fails as the last one of a function.                                     *)
THEOREM CallsAndStateAgree ==
  BlocksClosed => (Spec /\ []FunctionsSucceed => []StateNests)
<1>1. BlocksClosed /\ Spec => []BlocksNest
  <2>1. TypeInv /\ BlockInv => BlocksNest
    BY ChainsNest
  <2> QED BY <2>1, Typed, BlocksKept, PTL
<1>2. ScopesNest /\ BlocksNest => StateNests
  BY DEF StateNests
<1> QED BY <1>1, <1>2, ScopesMatchCalls, PTL
=============================================================================
