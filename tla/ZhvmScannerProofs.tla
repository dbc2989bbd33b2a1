-------------------------- MODULE ZhvmScannerProofs --------------------------
(***************************************************************************)
(* Theorems about ZhvmScanner, for all texts and files, any depth of       *)
(* includes and any sizes of buffers and reads.  First who owns the        *)
(* buffers, which does not depend on what a match finds; then the types    *)
(* and what a match may find at all.  The rest is one argument: the tables *)
(* of the automaton are the rules of cmplv2.lex (over runs of classes of   *)
(* characters, one start condition after the other), a match that does not *)
(* run into the end of its buffer does not depend on what is read later,   *)
(* and so a scan, whose buffers are cut, filled, stacked and dropped, is   *)
(* one of ZhvmLexer, where a text is all there and the rules are words.    *)
(***************************************************************************)
EXTENDS ZhvmScanner, FiniteSetTheorems, SequenceTheorems, WellFoundedInduction, TLAPS

-----------------------------------------------------------------------------
(***************************************************************************)
(* The number of a new buffer.                                             *)
(***************************************************************************)
LEMMA MinIs ==
  ASSUME NEW S \in SUBSET Nat, S # {}
  PROVE  Min(S) \in S /\ \A y \in S : Min(S) <= y
<1>1. \E x \in S : \A y \in S : x <= y
  <2>1. PICK x \in S : \A y \in S : ~(<<y, x>> \in OpToRel(<, Nat))
    <3>1. IsWellFoundedOn(OpToRel(<, Nat), Nat)
      BY NatLessThanWellFounded
    <3> QED
      BY <3>1, WFMin
  <2>2. ASSUME NEW y \in S
        PROVE  x <= y
    <3>1. y < x => <<y, x>> \in OpToRel(<, Nat)
      BY DEF OpToRel
    <3>2. ~(y < x)
      BY <2>1, <3>1, Zenon
    <3> QED
      BY <3>2
  <2> QED
    BY <2>2
<1> QED
  BY <1>1 DEF Min

LEMMA NumbersLeft ==
  ASSUME NEW T, IsFiniteSet(T)
  PROVE  (1 .. Cardinality(T) + 1) \ T # {}
<1>1. Cardinality(T) \in Nat
  BY FS_CardinalityType
<1>2. Cardinality(1 .. Cardinality(T) + 1) = Cardinality(T) + 1
  BY <1>1, FS_Interval
<1>3. (1 .. Cardinality(T) + 1) \subseteq T =>
         Cardinality(1 .. Cardinality(T) + 1) <= Cardinality(T)
  BY FS_Subset
<1> QED
  BY <1>1, <1>2, <1>3

LEMMA EntriesFinite ==
  ASSUME NEW n \in Nat, NEW f, DOMAIN f = 0 .. n - 1
  PROVE  IsFiniteSet({f[i] : i \in 0 .. n - 1})
<1> DEFINE T == {f[i] : i \in 0 .. n - 1}
           g == [i \in 0 .. n - 1 |-> f[i]]
<1>1. g \in Surjection(0 .. n - 1, T)
  BY DEF Surjection
<1>2. IsFiniteSet(0 .. n - 1)
  BY FS_Interval
<1> QED
  BY <1>1, <1>2, FS_Surjection

LEMMA FreshIsNew ==
  ASSUME NEW alive, IsFiniteSet(alive), DOMAIN include_stack = 0 .. MaxInclude - 1
  PROVE  /\ Fresh(alive) \in Nat \ {0}
         /\ Fresh(alive) \notin alive
         /\ \A i \in 0 .. MaxInclude - 1 : Fresh(alive) # include_stack[i]
<1> DEFINE T == alive \cup {include_stack[i] : i \in DOMAIN include_stack}
<1>1. IsFiniteSet(T)
  <2>1. IsFiniteSet({include_stack[i] : i \in 0 .. MaxInclude - 1})
    BY EntriesFinite, MaxIncludeAssumption
  <2> QED
    BY <2>1, FS_Union
<1>2. (1 .. Cardinality(T) + 1) \ T # {}
  BY <1>1, NumbersLeft
<1>3. (1 .. Cardinality(T) + 1) \ T \in SUBSET Nat
  OBVIOUS
<1>4. Min((1 .. Cardinality(T) + 1) \ T) \in (1 .. Cardinality(T) + 1) \ T
  BY <1>2, <1>3, MinIs
<1>5. Fresh(alive) = Min((1 .. Cardinality(T) + 1) \ T)
  BY DEF Fresh
<1>6. Fresh(alive) \in Nat \ {0} /\ Fresh(alive) \notin T
  <2> HIDE DEF T
  <2>1. Cardinality(T) \in Nat
    BY <1>1, FS_CardinalityType
  <2> QED
    BY <1>4, <1>5, <2>1
<1> QED
  BY <1>6

-----------------------------------------------------------------------------
(***************************************************************************)
(* The inductive invariant.                                                *)
(***************************************************************************)
(* BuffersOwned for one state of the scanner.                              *)
Owned ==
  /\ DOMAIN buffers = Open \cup {current}
  /\ current \notin Open
  /\ \A i, j \in 0 .. include_stack_top - 1 :
       include_stack[i] = include_stack[j] => i = j

(* BuffersOwned is not inductive: that the entry taken up at the end of a  *)
(* file is on the stack needs a top that is not negative while a scan      *)
(* goes on, and the entry pushed needs a place.                            *)
OwnedInv ==
  /\ DOMAIN include_stack = 0 .. MaxInclude - 1
  /\ include_stack_top \in Int
  /\ scans \in Nat \ {0}
  /\ scans = 1 /\ ~broken =>
       /\ Owned
       /\ include_stack_top <= MaxInclude
       /\ Running => include_stack_top >= 0

LEMMA InitOwned ==
  ASSUME Init
  PROVE  OwnedInv
<1>1. PICK input \in Inputs : buffers = [b \in {1} |-> BufferOf(input)]
  BY DEF Init
<1>2. DOMAIN buffers = {1}
  BY <1>1
<1> QED
  BY <1>2, MaxIncludeAssumption DEF Init, OwnedInv, Owned, Open, Running

(* Most actions leave the stack alone and change no buffer's number.       *)
LEMMA SameBuffers ==
  ASSUME OwnedInv, DOMAIN buffers' = DOMAIN buffers, current' = current,
         include' = include, scans' = scans,
         ~broken' => ~broken,
         Running' => Running
  PROVE  OwnedInv'
<1>1. Owned' <=> Owned
  BY DEF Owned, Open, include
<1> QED
  BY <1>1 DEF OwnedInv, include

LEMMA TakenNumbers ==
  ASSUME NEW f, NEW m
  PROVE  DOMAIN Taken(f, m) = DOMAIN buffers
BY DEF Taken

LEMMA RuleOwned ==
  ASSUME OwnedInv, Running, NEW f, NEW m,
         Rule(f, m) \/ TooManyIncludes(f, m)
  PROVE  OwnedInv'
<1>1. /\ DOMAIN buffers' = DOMAIN buffers /\ current' = current
      /\ include' = include /\ scans' = scans /\ (~broken' => ~broken)
  <2>1. CASE Rule(f, m)
    <3>1. buffers' = Taken(f, m)
      BY <2>1 DEF Rule
    <3>2. current' = current /\ include' = include /\ scans' = scans /\ broken' = broken
      BY <2>1 DEF Rule
    <3> QED
      BY <3>1, <3>2, TakenNumbers
  <2>2. CASE TooManyIncludes(f, m)
    <3>1. buffers' = Taken(f, m)
      BY <2>2 DEF TooManyIncludes
    <3>2. /\ current' = current /\ include' = include /\ scans' = scans
          /\ broken' = (broken \/ scans > 1)
      BY <2>2 DEF TooManyIncludes
    <3> QED
      BY <3>1, <3>2, TakenNumbers
  <2> QED
    BY <2>1, <2>2
<1> QED
  BY <1>1, SameBuffers

LEMMA RefillOwned ==
  ASSUME OwnedInv, Running, NEW f, Refill(f)
  PROVE  OwnedInv'
<1>1. /\ DOMAIN buffers' = DOMAIN buffers /\ current' = current
      /\ include' = include /\ scans' = scans /\ broken' = broken
  BY DEF Refill, history
<1> QED
  BY <1>1, SameBuffers

LEMMA WildOwned ==
  ASSUME OwnedInv, status' = "wild", UNCHANGED <<flex, include, scans>>,
         ~broken' => ~broken
  PROVE  OwnedInv'
BY SameBuffers DEF flex, Running

(* A file is opened: its buffer is new and the one that includes it goes   *)
(* on the stack.                                                           *)
LEMMA IncludeOwned ==
  ASSUME OwnedInv, Running, NEW f, NEW m, Include(f, m)
  PROVE  OwnedInv'
<1> DEFINE id == Fresh(DOMAIN buffers \cup {current})
           top == include_stack_top
<1>1. /\ top \in 0 .. MaxInclude - 1
      /\ include_stack' = [include_stack EXCEPT ![top] = current]
      /\ include_stack_top' = top + 1
      /\ scans' = scans
      /\ ~broken' => ~broken
      /\ current' = id
      /\ DOMAIN buffers' = DOMAIN buffers \cup {id}
  <2>1. /\ current' = id
        /\ buffers' = With(Taken(f, m), id, FileBuffer(Files[FileName(Lexeme(m))], FALSE))
    BY DEF Include
  <2>2. DOMAIN buffers' = DOMAIN buffers \cup {id}
    BY <2>1, TakenNumbers DEF With
  <2> QED
    BY <2>1, <2>2 DEF Include, Push, history
<1>2. DOMAIN include_stack = 0 .. MaxInclude - 1 /\ top \in Nat
  BY <1>1 DEF OwnedInv
<1>3. SUFFICES ASSUME scans = 1, ~broken
               PROVE  Owned'
  BY <1>1, <1>2, MaxIncludeAssumption DEF OwnedInv
<1>4. Owned
  BY <1>3 DEF OwnedInv
<1>5. IsFiniteSet(DOMAIN buffers \cup {current})
  <2>1. IsFiniteSet(Open)
    <3>1. DOMAIN [i \in 0 .. top - 1 |-> include_stack[i]] = 0 .. top - 1
      OBVIOUS
    <3>2. IsFiniteSet({[i \in 0 .. top - 1 |-> include_stack[i]][j] : j \in 0 .. top - 1})
      BY <1>2, <3>1, EntriesFinite
    <3>3. Open = {[i \in 0 .. top - 1 |-> include_stack[i]][j] : j \in 0 .. top - 1}
      BY DEF Open
    <3> QED
      BY <3>2, <3>3
  <2>2. IsFiniteSet(Open \cup {current})
    BY <2>1, FS_AddElement
  <2> QED
    BY <1>4, <2>2 DEF Owned
<1>6. id \notin DOMAIN buffers \cup {current}
  BY <1>2, <1>5, FreshIsNew
<1>7. /\ 0 .. include_stack_top' - 1 = (0 .. top - 1) \cup {top}
      /\ \A i \in 0 .. top - 1 : include_stack'[i] = include_stack[i]
      /\ include_stack'[top] = current
  BY <1>1, <1>2
<1>8. Open' = Open \cup {current}
  BY <1>7 DEF Open
<1>9. current' \notin Open' /\ DOMAIN buffers' = Open' \cup {current'}
  BY <1>1, <1>4, <1>6, <1>8 DEF Owned
<1>10. ASSUME NEW i \in 0 .. include_stack_top' - 1,
              NEW j \in 0 .. include_stack_top' - 1,
              include_stack'[i] = include_stack'[j]
       PROVE  i = j
  <2>1. ASSUME NEW k \in 0 .. top - 1
        PROVE  include_stack'[k] # current
    BY <1>4, <1>7, <2>1 DEF Owned, Open
  <2>2. CASE i \in 0 .. top - 1 /\ j \in 0 .. top - 1
    BY <1>4, <1>7, <1>10, <2>2 DEF Owned
  <2> QED
    BY <1>7, <1>10, <2>1, <2>2
<1> QED
  BY <1>9, <1>10 DEF Owned

(* A file ends: its buffer is deleted and the one that included it, which  *)
(* is on the stack once, is taken up.                                      *)
LEMMA EndOfIncludeOwned ==
  ASSUME OwnedInv, Running, NEW f, EndOfInclude(f)
  PROVE  OwnedInv'
<1> DEFINE top == include_stack_top
<1>1. /\ top > 0 /\ include_stack_top' = top - 1 /\ include_stack' = include_stack
      /\ scans' = scans /\ broken' = broken
      /\ current' = include_stack[top - 1]
      /\ DOMAIN buffers' = DOMAIN buffers \ {current}
  BY DEF EndOfInclude, Below, Left, history
<1>2. DOMAIN include_stack = 0 .. MaxInclude - 1 /\ top \in Nat \ {0}
  BY <1>1 DEF OwnedInv
<1>3. SUFFICES ASSUME scans = 1, ~broken
               PROVE  Owned'
  BY <1>1, <1>2, MaxIncludeAssumption DEF OwnedInv
<1>4. Owned
  BY <1>3 DEF OwnedInv
<1>5. DOMAIN buffers' = Open
  BY <1>1, <1>4 DEF Owned
<1>6. 0 .. top - 1 = (0 .. include_stack_top' - 1) \cup {top - 1}
  BY <1>1, <1>2
<1>7. Open = Open' \cup {current'}
  BY <1>1, <1>6 DEF Open
<1>8. current' \notin Open'
  BY <1>1, <1>2, <1>4 DEF Owned, Open
<1> QED
  BY <1>1, <1>2, <1>4, <1>5, <1>7, <1>8 DEF Owned

LEMMA TerminateOwned ==
  ASSUME OwnedInv, Running, NEW f, EndOfOther(f) \/ EndOfInitial(f)
  PROVE  OwnedInv'
<1>1. /\ DOMAIN buffers' = DOMAIN buffers /\ current' = current
      /\ include_stack' = include_stack /\ scans' = scans /\ broken' = broken
      /\ ~Running'
  BY DEF EndOfOther, EndOfInitial, Terminate, history, Running
<1>2. CASE EndOfOther(f)
  BY <1>1, <1>2, SameBuffers DEF EndOfOther, include
<1>3. CASE EndOfInitial(f)
  <2>1. include_stack_top' = include_stack_top - 1 /\ include_stack_top' < 0
    BY <1>3 DEF EndOfInitial
  <2>2. include_stack_top \in Int
    BY DEF OwnedInv
  <2>3. SUFFICES ASSUME scans = 1, ~broken
                 PROVE  Owned'
    BY <1>1, <2>1, <2>2, MaxIncludeAssumption DEF OwnedInv
  <2>4. Owned /\ include_stack_top = 0
    BY <2>1, <2>2, <2>3 DEF OwnedInv
  <2>5. Open = {} /\ Open' = {}
    BY <2>1, <2>4 DEF Open
  <2> QED
    BY <1>1, <2>1, <2>4, <2>5 DEF Owned
<1> QED
  BY <1>2, <1>3

(* What another scan does is not said, and it is never again the first.    *)
LEMMA NextScanOwned ==
  ASSUME OwnedInv, NextScan
  PROVE  OwnedInv'
BY DEF OwnedInv, NextScan, include

LEMMA BrokenOwned ==
  ASSUME OwnedInv, NEW f, NEW m, IncludeFails(f, m)
  PROVE  OwnedInv'
<1>1. /\ broken' /\ scans' = scans
      /\ include_stack' = [include_stack EXCEPT ![include_stack_top] = current]
      /\ include_stack_top' = include_stack_top + 1
  BY DEF IncludeFails, Push
<1> QED
  BY <1>1 DEF OwnedInv

LEMMA NextOwned ==
  ASSUME OwnedInv, [Next]_vars
  PROVE  OwnedInv'
<1>1. CASE yylex
  <2>1. PICK f \in {Match(Pending)} :
       \/ Refill(f) \/ ReadNull(f)
       \/ \E m \in Ready(f) :
            \/ Rule(f, m) \/ Include(f, m) \/ IncludeFails(f, m)
            \/ TooManyIncludes(f, m) \/ IncludeAstray(m)
       \/ EndOfOther(f) \/ EndOfInitial(f) \/ EndOfInclude(f) \/ BelowIsGone(f)
    BY <1>1 DEF yylex
  <2>2. Running
    BY <1>1 DEF yylex
  <2>3. CASE Refill(f)
    BY <2>2, <2>3, RefillOwned
  <2>4. CASE ReadNull(f)
    BY <2>4, WildOwned DEF ReadNull, history
  <2>5. ASSUME NEW m \in Ready(f), Rule(f, m) \/ TooManyIncludes(f, m)
        PROVE  OwnedInv'
    BY <2>2, <2>5, RuleOwned
  <2>6. ASSUME NEW m \in Ready(f), Include(f, m)
        PROVE  OwnedInv'
    BY <2>2, <2>6, IncludeOwned
  <2>7. ASSUME NEW m \in Ready(f), IncludeFails(f, m)
        PROVE  OwnedInv'
    BY <2>7, BrokenOwned
  <2>8. ASSUME NEW m \in Ready(f), IncludeAstray(m)
        PROVE  OwnedInv'
    BY <2>8, WildOwned DEF IncludeAstray, history
  <2>9. CASE EndOfOther(f) \/ EndOfInitial(f)
    BY <2>2, <2>9, TerminateOwned
  <2>10. CASE EndOfInclude(f)
    BY <2>2, <2>10, EndOfIncludeOwned
  <2>11. CASE BelowIsGone(f)
    <3>1. (scans = 1 /\ ~broken) => FALSE
      <4> SUFFICES ASSUME scans = 1, ~broken
                   PROVE  FALSE
        OBVIOUS
      <4>1. Owned /\ include_stack_top > 0 /\ include_stack_top \in Int
        BY <2>11 DEF OwnedInv, BelowIsGone
      <4>2. include_stack[include_stack_top - 1] \in Open
        BY <4>1 DEF Open
      <4> QED
        BY <2>11, <4>1, <4>2 DEF BelowIsGone, Below, Left, Owned
    <3> QED
      BY <2>11, <3>1 DEF BelowIsGone, OwnedInv, flex, history
  <2> QED
    BY <2>1, <2>3, <2>4, <2>5, <2>6, <2>7, <2>8, <2>9, <2>10, <2>11
<1>2. CASE NextScan
  BY <1>2, NextScanOwned
<1>3. CASE DeletedTwice
  BY <1>3, WildOwned DEF DeletedTwice, history
<1>4. CASE UNCHANGED vars
  BY <1>4, SameBuffers DEF vars, flex, include, history, Running
<1> QED
  BY <1>1, <1>2, <1>3, <1>4 DEF Next

-----------------------------------------------------------------------------
(* In the first scan no buffer is lost, none is used after it was deleted, *)
(* and none is deleted twice, however the files include each other and     *)
(* wherever their texts end.                                               *)
THEOREM BuffersAlwaysOwned == Spec => []BuffersOwned
<1>1. Init => OwnedInv
  BY InitOwned
<1>2. OwnedInv /\ [Next]_vars => OwnedInv'
  BY NextOwned
<1>3. OwnedInv => BuffersOwned
  BY DEF OwnedInv, Owned, BuffersOwned
<1> QED
  BY <1>1, <1>2, <1>3, PTL DEF Spec

-----------------------------------------------------------------------------
(***************************************************************************)
(* The tables: where their entries lead, whatever the text is.             *)
(***************************************************************************)
Own(s, c)    == Entry(yy_chk, Entry(yy_base, s) + c) = s
Target(s, c) == Entry(yy_nxt, Entry(yy_base, s) + c)
Default(s)   == Entry(yy_def, s)
Meta(s, c)   == IF s >= 64 THEN Entry(yy_meta, c) ELSE c

LEMMA BaseRange == \A s \in 1 .. 70 : Entry(yy_base, s) \in 0 .. 151
BY DEF yy_base, Entry

LEMMA MetaRange == \A c \in 0 .. 27 : Entry(yy_meta, c) \in 0 .. 4
BY DEF yy_meta, Entry

LEMMA MetaOfEnd == Entry(yy_meta, 0) = 0
BY DEF yy_meta, Entry

(* The jam state has all its entries, and every other is at most two       *)
(* defaults away from it.                                                  *)
LEMMA JamOwns == \A c \in 0 .. 27 : Own(63, c)
<1>1. Entry(yy_base, 63) = 151
  BY DEF yy_base, Entry
<1>2. \A c \in 0 .. 27 : Entry(yy_chk, 151 + c) = 63
  BY DEF yy_chk, Entry
<1> QED
  BY <1>1, <1>2 DEF Own

LEMMA DefaultRange == \A s \in 1 .. 70 : s # 63 => Default(s) \in 1 .. 70
BY DEF yy_def, Entry, Default

LEMMA DefaultTwice ==
  \A s \in 1 .. 70 : s # 63 /\ Default(s) # 63 => Default(Default(s)) = 63
BY DEF yy_def, Entry, Default

LEMMA ChkNxt == \A k \in 0 .. 178 : Entry(yy_chk, k) # 0 => Entry(yy_nxt, k) \in 1 .. 63
BY DEF yy_nxt, yy_chk, Entry

(* Behind the end of the buffer there is nothing but its action.           *)
LEMMA EndEntry == \A s \in 1 .. 70 : Own(s, 0) => Target(s, 0) \in {11, 63}
<1>1. \A s \in 1 .. 70 : \A k \in 0 .. 151 :
        Entry(yy_base, s) = k /\ Entry(yy_chk, k) = s => Entry(yy_nxt, k) \in {11, 63}
  BY DEF yy_base, yy_chk, yy_nxt, Entry
<1>2. SUFFICES ASSUME NEW s \in 1 .. 70, Own(s, 0)
               PROVE  Target(s, 0) \in {11, 63}
  OBVIOUS
<1> DEFINE k == Entry(yy_base, s)
<1>3. k \in 0 .. 151
  BY BaseRange
<1>4. k + 0 = k
  BY <1>3
<1>5. Entry(yy_chk, k) = s /\ Target(s, 0) = Entry(yy_nxt, k)
  BY <1>2, <1>4 DEF Own, Target
<1>6. Entry(yy_base, s) = k
  OBVIOUS
<1> HIDE DEF k
<1>7. Entry(yy_nxt, k) \in {11, 63}
  BY <1>1, <1>2, <1>3, <1>5, <1>6, Zenon
<1> QED
  BY <1>5, <1>7, Zenon

(* The states of REGISTER, and those of the other start conditions, each   *)
(* with the templates they default to.                                     *)
RegStates   == {3, 11, 27, 28, 29, 63}
OtherStates == 1 .. 63 \ {2, 3, 4, 6, 8, 10, 27, 29}

LEMMA RegEdges ==
  \A k \in 0 .. 178 : Entry(yy_chk, k) \in RegStates \cup {64} => Entry(yy_nxt, k) \in RegStates
BY DEF yy_nxt, yy_chk, Entry, RegStates

LEMMA OtherEdges ==
  \A k \in 0 .. 178 :
    Entry(yy_chk, k) \in OtherStates \cup 65 .. 70 => Entry(yy_nxt, k) \in OtherStates
BY DEF yy_nxt, yy_chk, Entry, OtherStates

LEMMA RegDefaults ==
  \A s \in RegStates \cup {64} : s # 63 => Default(s) \in RegStates \cup {64}
BY DEF yy_def, Entry, Default, RegStates

LEMMA OtherDefaults ==
  \A s \in OtherStates \cup 65 .. 70 : s # 63 => Default(s) \in OtherStates \cup 65 .. 70
BY DEF yy_def, Entry, Default, OtherStates

LEMMA RegAccepts == \A s \in RegStates : Entry(yy_accept, s) \in {0, 15, 16, 28, 29}
BY DEF yy_accept, Entry, RegStates

LEMMA OtherAccepts ==
  \A s \in OtherStates : Entry(yy_accept, s) \in 0 .. 29 \ {15, 16}
BY DEF yy_accept, Entry, OtherStates

LEMMA EndAccepts == Entry(yy_accept, 11) = 29 /\ Entry(yy_accept, 63) = 0
BY DEF yy_accept, Entry

(* The next state solves its recursion: the table of four rounds does.     *)
GoFrom(f, s) ==
  [c \in 0 .. 27 |->
     IF Own(s, c) THEN Target(s, c) ELSE f[Default(s)][Meta(Default(s), c)]]

Go(f) == [s \in 1 .. 70 |-> GoFrom(f, s)]

LEMMA GoIs ==
  ASSUME NEW f, NEW s \in 1 .. 70, NEW c \in 0 .. 27
  PROVE  Go(f)[s][c] =
           IF Own(s, c) THEN Target(s, c) ELSE f[Default(s)][Meta(Default(s), c)]
<1>1. Go(f)[s] = GoFrom(f, s)
  BY DEF Go
<1>2. GoFrom(f, s)[c] =
        IF Own(s, c) THEN Target(s, c) ELSE f[Default(s)][Meta(Default(s), c)]
  BY DEF GoFrom
<1> QED
  BY <1>1, <1>2

LEMMA MetaIs ==
  ASSUME NEW s, NEW c \in 0 .. 27
  PROVE  Meta(s, c) \in 0 .. 27
BY MetaRange DEF Meta

LEMMA GoJam ==
  ASSUME NEW f, NEW g, NEW c \in 0 .. 27
  PROVE  Go(f)[63][c] = Go(g)[63][c]
<1>1. 63 \in 1 .. 70 /\ Own(63, c)
  BY JamOwns
<1>2. Go(f)[63][c] = Target(63, c) /\ Go(g)[63][c] = Target(63, c)
  BY <1>1, GoIs, ZenonT(30)
<1> QED
  BY <1>2

NextIsJam(s) == s # 63 => Default(s) = 63

LEMMA GoTwice ==
  ASSUME NEW f, NEW g, NEW s \in 1 .. 70, NEW c \in 0 .. 27, NextIsJam(s)
  PROVE  Go(Go(f))[s][c] = Go(Go(g))[s][c]
<1>1. CASE Own(s, c)
  BY <1>1, GoIs
<1>2. CASE ~Own(s, c)
  <2>1. Default(s) = 63 /\ Meta(63, c) \in 0 .. 27
    BY <1>2, JamOwns, MetaIs DEF NextIsJam
  <2>2. ASSUME NEW h
        PROVE  Go(Go(h))[s][c] = Go(h)[63][Meta(63, c)]
    <3>1. Go(Go(h))[s][c] = Go(h)[Default(s)][Meta(Default(s), c)]
      BY <1>2, GoIs, Zenon
    <3> QED
      BY <2>1, <3>1, Zenon
  <2>3. Go(f)[63][Meta(63, c)] = Go(g)[63][Meta(63, c)]
    BY <2>1, GoJam
  <2> QED
    BY <2>2, <2>3
<1> QED
  BY <1>1, <1>2

LEMMA TransitionSolves == Transition = Go(Transition)
<1> DEFINE none == << >>
           one == Go(none)
           two == Go(one)
           three == Go(two)
<1>1. ASSUME NEW s \in 1 .. 70, NEW c \in 0 .. 27
      PROVE  Go(three)[s][c] = three[s][c]
  <2>1. CASE Own(s, c)
    BY <2>1, GoIs
  <2>2. CASE ~Own(s, c)
    <3> DEFINE d == Default(s)
               e == Meta(d, c)
    <3>1. s # 63
      BY <2>2, JamOwns
    <3>2. d \in 1 .. 70 /\ e \in 0 .. 27
      BY <3>1, DefaultRange, MetaIs
    <3>3. d # 63 => Default(d) = 63
      BY <3>1, DefaultTwice
    <3>4. Go(three)[s][c] = three[d][e] /\ three[s][c] = two[d][e]
      BY <2>2, GoIs
    <3> HIDE DEF d, e
    <3>5. Go(Go(one))[d][e] = Go(Go(none))[d][e]
      <4> HIDE DEF one, none
      <4>1. ASSUME NEW f, NEW g
            PROVE  Go(Go(f))[d][e] = Go(Go(g))[d][e]
        <5>1. d \in 1 .. 70 /\ e \in 0 .. 27 /\ NextIsJam(d)
          BY <3>2, <3>3 DEF NextIsJam
        <5> QED
          BY <5>1, GoTwice, ZenonT(60)
      <4> QED
        BY <4>1, Zenon
    <3> QED
      BY <3>4, <3>5
  <2> QED
    BY <2>1, <2>2
<1>2. three = Go(three)
  <2>1. ASSUME NEW s \in 1 .. 70
        PROVE  GoFrom(two, s) = GoFrom(three, s)
    <3>1. ASSUME NEW c \in 0 .. 27
          PROVE  GoFrom(two, s)[c] = GoFrom(three, s)[c]
      <4>1. three[s] = GoFrom(two, s) /\ Go(three)[s] = GoFrom(three, s)
        BY DEF Go
      <4> QED
        BY <1>1, <4>1
    <3> QED
      BY <3>1 DEF GoFrom
  <2> QED
    BY <2>1 DEF Go
<1>3. Transition = CHOOSE f : f = Go(f)
  BY Zenon DEF Transition, Go, GoFrom, Own, Target, Default, Meta
<1> QED
  BY <1>2, <1>3

(* The entry, of state d and class e, that a transition comes from.        *)
From(s, c, d, e) ==
  /\ d = s \/ (s # 63 /\ d = Default(s)) \/ d = 63
  /\ Own(d, e) /\ Transition[s][c] = Target(d, e)
  /\ c = 0 => e = 0

LEMMA TransitionFrom ==
  ASSUME NEW s \in 1 .. 70, NEW c \in 0 .. 27
  PROVE  \E d \in 1 .. 70 : \E e \in 0 .. 27 : From(s, c, d, e)
<1>1. \A q \in 1 .. 70, x \in 0 .. 27 :
        Transition[q][x] = IF Own(q, x) THEN Target(q, x)
                           ELSE Transition[Default(q)][Meta(Default(q), x)]
  <2>1. ASSUME NEW q \in 1 .. 70, NEW x \in 0 .. 27
        PROVE  Go(Transition)[q][x] =
                 IF Own(q, x) THEN Target(q, x)
                 ELSE Transition[Default(q)][Meta(Default(q), x)]
    BY GoIs
  <2> QED
    BY <2>1, TransitionSolves
<1>m. \A q, x : x \in 0 .. 27 => Meta(q, x) \in 0 .. 27 /\ (x = 0 => Meta(q, x) = 0)
  BY MetaIs, MetaOfEnd DEF Meta
<1>2. CASE Own(s, c)
  BY <1>1, <1>2 DEF From
<1>3. CASE ~Own(s, c)
  <2> DEFINE d == Default(s)
             e == Meta(d, c)
  <2>1. s # 63 /\ d \in 1 .. 70 /\ e \in 0 .. 27 /\ (c = 0 => e = 0)
    BY <1>3, <1>m, JamOwns, DefaultRange
  <2>2. Transition[s][c] = Transition[d][e]
    BY <1>1, <1>3
  <2>3. CASE Own(d, e)
    BY <1>1, <2>1, <2>2, <2>3 DEF From
  <2>4. CASE ~Own(d, e)
    <3>1. Default(d) = 63
      BY <2>1, <2>4, JamOwns, DefaultTwice
    <3>2. Transition[d][e] = Transition[63][Meta(63, e)]
      <4> HIDE DEF d, e
      <4>1. Transition[d][e] = Transition[Default(d)][Meta(Default(d), e)]
        BY <1>1, <2>1, <2>4, Zenon
      <4> QED
        BY <3>1, <4>1, Zenon
    <3>3. Meta(63, e) \in 0 .. 27 /\ (c = 0 => Meta(63, e) = 0)
      BY <1>m, <2>1
    <3>4. Own(63, Meta(63, e)) /\ Transition[63][Meta(63, e)] = Target(63, Meta(63, e))
      <4>1. 63 \in 1 .. 70 /\ Own(63, Meta(63, e))
        BY <3>3, JamOwns
      <4> QED
        BY <1>1, <3>3, <4>1, Zenon
    <3> DEFINE z == Meta(63, e)
    <3>5. c = 0 => z = 0
      BY <2>1, <3>3
    <3>6. Transition[s][c] = Target(63, z)
      BY <2>2, <3>2, <3>4
    <3>7. Own(63, z) /\ z \in 0 .. 27
      BY <3>3, <3>4
    <3> HIDE DEF d, e, z
    <3>8. From(s, c, 63, z)
      BY <3>5, <3>6, <3>7 DEF From
    <3> QED
      BY <3>7, <3>8
  <2> QED
    BY <2>3, <2>4
<1> QED
  BY <1>2, <1>3

LEMMA EntryRange ==
  ASSUME NEW s \in 1 .. 70, NEW c \in 0 .. 27
  PROVE  Entry(yy_base, s) + c \in 0 .. 178
<1>1. Entry(yy_base, s) \in 0 .. 151
  BY BaseRange
<1> QED
  BY <1>1

LEMMA TransitionRange ==
  ASSUME NEW s \in 1 .. 70, NEW c \in 0 .. 27
  PROVE  /\ Transition[s][c] \in 1 .. 63
         /\ c = 0 => Transition[s][c] \in {11, 63}
         /\ s \in RegStates => Transition[s][c] \in RegStates
         /\ s \in OtherStates => Transition[s][c] \in OtherStates
<1>0. PICK d \in 1 .. 70, e \in 0 .. 27 : From(s, c, d, e)
  BY TransitionFrom, Zenon
<1>1. /\ d = s \/ (s # 63 /\ d = Default(s)) \/ d = 63
      /\ Own(d, e) /\ Transition[s][c] = Target(d, e)
      /\ c = 0 => e = 0
  BY <1>0 DEF From
<1> DEFINE k == Entry(yy_base, d) + e
<1>2. k \in 0 .. 178 /\ Entry(yy_chk, k) = d /\ Transition[s][c] = Entry(yy_nxt, k)
  BY <1>1, EntryRange DEF Own, Target
<1> HIDE DEF k
<1>3. Transition[s][c] \in 1 .. 63
  <2>1. d # 0
    OBVIOUS
  <2>2. Entry(yy_nxt, k) \in 1 .. 63
    BY <1>2, <2>1, ChkNxt, Zenon
  <2> QED
    BY <1>2, <2>2, Zenon
<1>4. c = 0 => Transition[s][c] \in {11, 63}
  BY <1>1, EndEntry
<1>5. s \in RegStates => Transition[s][c] \in RegStates
  <2>1. s \in RegStates => d \in RegStates \cup {64}
    BY <1>1, RegDefaults DEF RegStates
  <2> QED
    BY <1>2, <2>1, RegEdges
<1>6. s \in OtherStates => Transition[s][c] \in OtherStates
  <2>1. s \in OtherStates => d \in OtherStates \cup 65 .. 70
    BY <1>1, OtherDefaults DEF OtherStates
  <2> QED
    BY <1>2, <2>1, OtherEdges
<1> QED
  BY <1>3, <1>4, <1>5, <1>6


-----------------------------------------------------------------------------
(***************************************************************************)
(* The match: along the tables and back.  It never takes more than there   *)
(* is, and finds in REGISTER, and only there, what returns from it.        *)
(***************************************************************************)
LEMMA ClassRange ==
  ASSUME NEW c
  PROVE  Class(c) \in 1 .. 27
<1>1. CASE c \in DOMAIN yy_ec
  <2> DEFINE k == CHOOSE i \in 1 .. 8 : InKeywords[i] = c
             m == CHOOSE i \in 1 .. 11 : Marks[i] = c
  <2>1. /\ (\E i \in 1 .. 8 : InKeywords[i] = c) => k \in 1 .. 8
        /\ (\E i \in 1 .. 11 : Marks[i] = c) => m \in 1 .. 11
    OBVIOUS
  <2>2. yy_ec[c] =
     CASE c \in RegLetters -> 14
       [] c \in {"L", "Q", "q"} -> 16
       [] c \in {"S", "s"} -> 17
       [] \E i \in 1 .. 8 : InKeywords[i] = c -> 19 + k
       [] \E i \in 1 .. 11 : Marks[i] = c -> 2 + m
       [] c \in Space -> 2
       [] c \in Digit \ {"0", "1", "9"} -> 10
       [] c = "-" -> 7
       [] c = "[" -> 18
       [] c = "]" -> 19
       [] OTHER -> 15
    BY <1>1 DEF yy_ec
  <2>3. yy_ec[c] \in 1 .. 27
    <3> HIDE DEF k, m
    <3>1. CASE \E i \in 1 .. 8 : InKeywords[i] = c
      BY <2>1, <2>2, <3>1
    <3>2. CASE \E i \in 1 .. 11 : Marks[i] = c
      BY <2>1, <2>2, <3>2
    <3> QED
      BY <2>2, <3>1, <3>2
  <2> QED
    BY <1>1, <2>3 DEF Class
<1>2. CASE c \notin DOMAIN yy_ec
  BY <1>2 DEF Class
<1> QED
  BY <1>1, <1>2

ClassAt(t, i) == IF i <= Len(t) THEN Class(t[i]) ELSE EndOfBufferClass

(* The best match from state s on, i characters into the text, when f has  *)
(* those of the characters behind.                                         *)
Beyond(t, n, f, i, s) ==
  IF i = n \/ Entry(yy_base, s) = JamBase THEN NoMatch
  ELSE f[i + 1][Transition[s][ClassAt(t, i + 1)]]

BestAt(t, n, f, i, s) ==
  IF Beyond(t, n, f, i, s).rule # 0 THEN Beyond(t, n, f, i, s)
  ELSE [rule |-> Entry(yy_accept, s), len |-> i]

BestFrom(t, n, f, i) == [s \in 1 .. 63 |-> BestAt(t, n, f, i, s)]

Matching(t, n, k, f) == f = [i \in k .. n |-> BestFrom(t, n, f, i)]

LEMMA BestSame ==
  ASSUME NEW t, NEW n, NEW f, NEW g, NEW i, i # n => f[i + 1] = g[i + 1]
  PROVE  BestFrom(t, n, f, i) = BestFrom(t, n, g, i)
<1>1. \A s : Beyond(t, n, f, i, s) = Beyond(t, n, g, i, s)
  BY DEF Beyond
<1>2. \A s : BestAt(t, n, f, i, s) = BestAt(t, n, g, i, s)
  BY <1>1 DEF BestAt
<1> QED
  BY <1>2 DEF BestFrom

LEMMA MatchingIs ==
  ASSUME NEW t, NEW n, NEW k, NEW f, Matching(t, n, k, f), NEW i \in k .. n
  PROVE  f[i] = BestFrom(t, n, f, i)
BY DEF Matching

(* Induction over the numbers.                                             *)
LEMMA AllNumbers ==
  ASSUME NEW E, 0 \in E, \A k \in Nat : k \in E => k + 1 \in E
  PROVE  \A n \in Nat : n \in E
<1> SUFFICES ASSUME Nat \ E # {} PROVE FALSE
  OBVIOUS
<1>1. PICK x \in Nat \ E : \A y \in Nat \ E : ~(<<y, x>> \in OpToRel(<, Nat))
  <2>1. IsWellFoundedOn(OpToRel(<, Nat), Nat)
    BY NatLessThanWellFounded
  <2>2. Nat \ E \in SUBSET Nat
    OBVIOUS
  <2> QED
    BY <2>1, <2>2, WFMin
<1>2. x # 0 /\ x \in Nat
  OBVIOUS
<1>3. x - 1 \in Nat /\ (x - 1) + 1 = x /\ x - 1 < x
  BY <1>2
<1>4. x - 1 \notin E
  BY <1>1, <1>3
<1>5. <<x - 1, x>> \in OpToRel(<, Nat)
  BY <1>2, <1>3 DEF OpToRel
<1> QED
  BY <1>1, <1>3, <1>4, <1>5, Zenon

LEMMA MatchingExists ==
  ASSUME NEW t, NEW n \in Nat
  PROVE  \E f : Matching(t, n, 0, f)
<1> DEFINE E == {k \in Nat : k <= n => \E f : Matching(t, n, n - k, f)}
<1>1. 0 \in E
  <2> DEFINE f == [i \in n .. n |-> BestFrom(t, n, << >>, i)]
  <2>1. ASSUME NEW i \in n .. n
        PROVE  BestFrom(t, n, << >>, i) = BestFrom(t, n, f, i)
    <3>1. i = n
      OBVIOUS
    <3> HIDE DEF f
    <3> QED
      BY <3>1, BestSame
  <2>2. f = [i \in n .. n |-> BestFrom(t, n, f, i)]
    BY <2>1
  <2>3. Matching(t, n, n - 0, f)
    BY <2>2 DEF Matching
  <2> QED
    BY <2>3
<1>2. ASSUME NEW k \in Nat, k \in E
      PROVE  k + 1 \in E
  <2> SUFFICES ASSUME k + 1 <= n
               PROVE  \E g : Matching(t, n, n - (k + 1), g)
    OBVIOUS
  <2>1. PICK f : Matching(t, n, n - k, f)
    BY <1>2
  <2> DEFINE b == n - (k + 1)
             g == [i \in b .. n |-> IF i = b THEN BestFrom(t, n, f, b) ELSE f[i]]
  <2>2. /\ b \in Nat /\ b # n /\ b + 1 \in n - k .. n /\ b + 1 # b
        /\ \A i \in b .. n : i # b => i \in n - k .. n
        /\ \A i \in b .. n : i # n => i + 1 \in b .. n /\ i + 1 # b
    OBVIOUS
  <2>3. ASSUME NEW i \in b .. n
        PROVE  g[i] = BestFrom(t, n, g, i)
    <3>1. i # n => g[i + 1] = f[i + 1]
      BY <2>2
    <3>2. BestFrom(t, n, f, i) = BestFrom(t, n, g, i)
      <4> HIDE DEF g
      <4> QED
        BY <3>1, BestSame
    <3>3. g[i] = BestFrom(t, n, f, i)
      <4>1. i # b => f[i] = BestFrom(t, n, f, i)
        <5> HIDE DEF b
        <5> QED
          BY <2>1, <2>2, MatchingIs
      <4> HIDE DEF b
      <4> QED
        BY <4>1
    <3> QED
      BY <3>2, <3>3
  <2>4. g = [i \in b .. n |-> BestFrom(t, n, g, i)]
    <3>1. g = [i \in b .. n |-> g[i]]
      OBVIOUS
    <3> HIDE DEF g, b
    <3> QED
      BY <2>3, <3>1
  <2> QED
    BY <2>4 DEF Matching
<1> HIDE DEF E
<1>3. \A k \in Nat : k \in E
  BY <1>1, <1>2, AllNumbers
<1> QED
  <2>1. n \in E
    BY <1>3
  <2>2. n - n = 0 /\ n <= n
    OBVIOUS
  <2> QED
    BY <2>1, <2>2 DEF E

LEMMA AlongIs ==
  ASSUME NEW t, NEW ends, Len(t) + ends \in Nat
  PROVE  \E f : /\ Matching(t, Len(t) + ends, 0, f)
                /\ Along(t, ends) = f[0][StartState]
<1> DEFINE n == Len(t) + ends
           best == CHOOSE f : Matching(t, n, 0, f)
<1>1. Matching(t, n, 0, best)
  <2>1. n \in Nat
    OBVIOUS
  <2> HIDE DEF n
  <2>2. \E f : Matching(t, n, 0, f)
    BY <2>1, MatchingExists
  <2> QED
    BY <2>2, Zenon
<1>2. Along(t, ends) = best[0][StartState]
  BY Zenon DEF Along, Matching, BestFrom, BestAt, Beyond, ClassAt
<1> QED
  BY <1>1, <1>2

LEMMA AcceptRange == \A s \in 1 .. 63 : Entry(yy_accept, s) \in 0 .. 29
BY DEF yy_accept, Entry

(* What is found from state s on, i characters into a text of l of them.   *)
Found(r, l, n, i, s) ==
  /\ r.len \in 0 .. n
  /\ r.rule \in 0 .. 29
  /\ i > l /\ s \in {11, 63} => r.rule \in {0, EndOfBufferAct}
  /\ i <= l => r.rule = EndOfBufferAct \/ r.len <= l
  /\ s \in RegStates => r.rule \in {0, 15, 16, 28, 29}
  /\ s \in OtherStates => r.rule \notin {15, 16}

LEMMA NoMatchFound ==
  ASSUME NEW l \in Nat, NEW n \in Nat, NEW i, NEW s
  PROVE  Found(NoMatch, l, n, i, s)
BY DEF Found, NoMatch, EndOfBufferAct

(* State q follows s at place i of a text of l characters.                 *)
Leads(s, q, i, l) ==
  /\ i >= l => q \in {11, 63}
  /\ s \in RegStates => q \in RegStates
  /\ s \in OtherStates => q \in OtherStates

(* One character more.                                                     *)
LEMMA FoundBack ==
  ASSUME NEW r, NEW l \in Nat, NEW n \in Nat, NEW i \in Nat, NEW s, NEW q,
         Found(r, l, n, i + 1, q), Leads(s, q, i, l), r.rule # 0
  PROVE  Found(r, l, n, i, s)
<1>0. /\ i >= l => q \in {11, 63}
      /\ s \in RegStates => q \in RegStates
      /\ s \in OtherStates => q \in OtherStates
  BY DEF Leads
<1>1. /\ r.len \in 0 .. n
      /\ r.rule \in 0 .. 29
      /\ s \in RegStates => r.rule \in {0, 15, 16, 28, 29}
      /\ s \in OtherStates => r.rule \notin {15, 16}
  BY <1>0 DEF Found
<1>2. CASE i >= l
  <2>1. i + 1 > l
    BY <1>2
  <2>2. r.rule = EndOfBufferAct
    BY <1>0, <1>2, <2>1 DEF Found
  <2> QED
    BY <1>1, <2>2 DEF Found
<1>3. CASE i < l
  <2>1. i + 1 <= l /\ ~(i > l)
    BY <1>3
  <2>2. r.rule = EndOfBufferAct \/ r.len <= l
    BY <2>1 DEF Found
  <2> QED
    BY <1>1, <2>1, <2>2 DEF Found
<1> QED
  BY <1>2, <1>3

LEMMA FoundHere ==
  ASSUME NEW l \in Nat, NEW n \in Nat, NEW i \in 0 .. n, NEW s \in 1 .. 63
  PROVE  Found([rule |-> Entry(yy_accept, s), len |-> i], l, n, i, s)
<1> DEFINE here == [rule |-> Entry(yy_accept, s), len |-> i]
<1>1. here.rule = Entry(yy_accept, s) /\ here.len = i
  OBVIOUS
<1> HIDE DEF here
<1>2. /\ here.rule \in 0 .. 29 /\ here.len \in 0 .. n
      /\ i <= l => here.len <= l
  BY <1>1, AcceptRange
<1>3. s \in {11, 63} => here.rule \in {0, 29}
  BY <1>1, EndAccepts
<1>4. s \in RegStates => here.rule \in {0, 15, 16, 28, 29}
  BY <1>1, RegAccepts
<1>5. s \in OtherStates => here.rule \notin {15, 16}
  BY <1>1, OtherAccepts
<1>6. Found(here, l, n, i, s)
  BY <1>2, <1>3, <1>4, <1>5 DEF Found, EndOfBufferAct
<1> QED
  BY <1>6 DEF here

LEMMA FoundBefore ==
  ASSUME NEW t, NEW n \in Nat, NEW f, NEW i \in 0 .. n, NEW s \in 1 .. 63, Len(t) \in Nat,
         i # n => \A q \in 1 .. 63 : Found(f[i + 1][q], Len(t), n, i + 1, q)
  PROVE  Found(BestAt(t, n, f, i, s), Len(t), n, i, s)
<1> DEFINE r == Beyond(t, n, f, i, s)
           l == Len(t)
<1>1. CASE r.rule = 0
  <2>1. BestAt(t, n, f, i, s) = [rule |-> Entry(yy_accept, s), len |-> i]
    BY <1>1 DEF BestAt
  <2> QED
    BY <2>1, FoundHere
<1>2. CASE r.rule # 0
  <2>1. BestAt(t, n, f, i, s) = r
    BY <1>2 DEF BestAt
  <2>2. i # n /\ Entry(yy_base, s) # JamBase
    BY <1>2 DEF Beyond, NoMatch
  <2> DEFINE c == ClassAt(t, i + 1)
             q == Transition[s][c]
  <2>3. r = f[i + 1][q]
    BY <2>2 DEF Beyond
  <2>4. c \in 0 .. 27 /\ (i >= l => c = 0)
    BY ClassRange DEF ClassAt, EndOfBufferClass
  <2>5. /\ q \in 1 .. 63
        /\ c = 0 => q \in {11, 63}
        /\ s \in RegStates => q \in RegStates
        /\ s \in OtherStates => q \in OtherStates
    <3>1. s \in 1 .. 70
      OBVIOUS
    <3> HIDE DEF c
    <3> QED
      BY <2>4, <3>1, TransitionRange
  <2> HIDE DEF r, q, c, l
  <2>6. Found(r, l, n, i + 1, q)
    BY <2>2, <2>3, <2>5 DEF l
  <2>7. l \in Nat /\ i \in Nat
    BY DEF l
  <2>8. Leads(s, q, i, l)
    BY <2>4, <2>5 DEF Leads
  <2>9. Found(r, l, n, i, s)
    BY <1>2, <2>6, <2>7, <2>8, FoundBack
  <2> QED
    BY <2>1, <2>9 DEF l
<1> QED
  BY <1>1, <1>2

LEMMA FoundAlong ==
  ASSUME NEW t, NEW ends, Len(t) \in Nat, Len(t) + ends \in Nat, StartState \in 1 .. 63
  PROVE  Found(Along(t, ends), Len(t), Len(t) + ends, 0, StartState)
<1> DEFINE n == Len(t) + ends
           l == Len(t)
<1>1. PICK f : Matching(t, n, 0, f) /\ Along(t, ends) = f[0][StartState]
  BY AlongIs
<1> HIDE DEF n
<1>2. n \in Nat
  BY DEF n
<1> DEFINE E == {k \in Nat : k <= n => \A s \in 1 .. 63 : Found(f[n - k][s], l, n, n - k, s)}
<1>3. ASSUME NEW i \in 0 .. n, i # n => \A s \in 1 .. 63 : Found(f[i + 1][s], l, n, i + 1, s)
      PROVE  \A s \in 1 .. 63 : Found(f[i][s], l, n, i, s)
  <2>1. ASSUME NEW s \in 1 .. 63
        PROVE  f[i][s] = BestAt(t, n, f, i, s)
    <3>1. f[i] = BestFrom(t, n, f, i)
      BY <1>1, MatchingIs
    <3> QED
      BY <3>1 DEF BestFrom
  <2>2. ASSUME NEW s \in 1 .. 63
        PROVE  Found(BestAt(t, n, f, i, s), l, n, i, s)
    BY <1>2, <1>3, FoundBefore
  <2> QED
    BY <2>1, <2>2
<1>4. 0 \in E
  <2>1. n - 0 = n /\ n \in 0 .. n
    BY <1>2
  <2>2. \A s \in 1 .. 63 : Found(f[n][s], l, n, n, s)
    BY <1>3, <2>1
  <2> QED
    BY <2>1, <2>2
<1>5. ASSUME NEW k \in Nat, k \in E
      PROVE  k + 1 \in E
  <2> SUFFICES ASSUME k + 1 <= n
               PROVE  \A s \in 1 .. 63 : Found(f[n - (k + 1)][s], l, n, n - (k + 1), s)
    OBVIOUS
  <2>1. n - (k + 1) \in 0 .. n /\ (n - (k + 1)) + 1 = n - k /\ k <= n
    BY <1>2
  <2>2. \A s \in 1 .. 63 : Found(f[n - k][s], l, n, n - k, s)
    BY <1>5, <2>1
  <2> QED
    BY <1>3, <2>1, <2>2
<1> HIDE DEF E
<1>6. n \in E
  BY <1>2, <1>4, <1>5, AllNumbers
<1>7. n - n = 0 /\ n <= n
  BY <1>2
<1>8. Found(f[0][StartState], l, n, 0, StartState)
  BY <1>6, <1>7 DEF E
<1> QED
  BY <1>1, <1>8 DEF n

LEMMA StartStates ==
  ASSUME start \in StartConditions
  PROVE  /\ StartState \in 1 .. 63
         /\ start = "REGISTER" => StartState \in RegStates
         /\ start # "REGISTER" => StartState \in OtherStates
BY DEF StartConditions, StartState, RegStates, OtherStates

(* A match that is not the end of the buffer, and one that is made where   *)
(* the text ends, are of what there is.                                    *)
MatchOk(m, t) ==
  /\ m.len \in Nat /\ m.len <= Len(t)
  /\ start = "REGISTER" => m.rule \in {0, 15, 16, 28, 29}
  /\ start # "REGISTER" => m.rule \notin {15, 16}

LEMMA MatchFits ==
  ASSUME start \in StartConditions, NEW t, Len(t) \in Nat, ~AtBufEnd(Match(t))
  PROVE  MatchOk(Match(t), t)
<1>1. Len(t) + 2 \in Nat
  OBVIOUS
<1>2. Found(Match(t), Len(t), Len(t) + 2, 0, StartState)
  BY <1>1, FoundAlong, StartStates DEF Match
<1> QED
  BY <1>2, StartStates DEF Found, MatchOk, AtBufEnd

LEMMA MatchAtEndFits ==
  ASSUME start \in StartConditions, NEW t, Len(t) \in Nat
  PROVE  MatchOk(MatchAtEnd(t), t)
<1>1. Len(t) + 0 \in Nat /\ Len(t) + 0 = Len(t)
  OBVIOUS
<1>2. Found(MatchAtEnd(t), Len(t), Len(t) + 0, 0, StartState)
  BY <1>1, FoundAlong, StartStates DEF MatchAtEnd
<1> QED
  BY <1>1, <1>2, StartStates DEF Found, MatchOk

-----------------------------------------------------------------------------
(***************************************************************************)
(* The types of the scanner.                                               *)
(***************************************************************************)
Text == Seq(STRING)

BufferType ==
  [ch : Text, pos : Nat, size : Nat, fill : BOOLEAN,
   status : {"new", "normal", "eof_pending"}, tty : BOOLEAN, file : BOOLEAN, unread : Text]

BufferOk(b) ==
  /\ b \in BufferType
  /\ b.pos \in 1 .. Len(b.ch) + 1
  /\ b.fill => Len(b.ch) < b.size

BuffersOk(bufs) ==
  /\ \A b \in DOMAIN bufs : b \in Nat \ {0} /\ BufferOk(bufs[b])
  /\ IsFiniteSet(DOMAIN bufs)

StateOk ==
  /\ BuffersOk(buffers)
  /\ current \in DOMAIN buffers
  /\ bs \in Nat
  /\ yyin \in BOOLEAN /\ broken \in BOOLEAN
  /\ DOMAIN include_stack = 0 .. MaxInclude - 1
  /\ include_stack_top \in Int /\ include_stack_top <= MaxInclude
  /\ status \in Statuses
  /\ scans \in 1 .. MaxScans

NotRegister == StartConditions \ {"REGISTER"}

StartOk ==
  /\ start \in StartConditions
  /\ back \in Seq(NotRegister)
  /\ start = "REGISTER" => back # << >>

(* The types are not inductive without the room in the buffers, nor start  *)
(* without what is on its stack: a register's rules take that from there,  *)
(* whatever the text.                                                      *)
ScanInv == StateOk /\ StartOk

LEMMA TextLen ==
  ASSUME NEW t \in Text
  PROVE  Len(t) \in Nat
BY DEF Text

LEMMA BufferFields ==
  ASSUME NEW b, BufferOk(b)
  PROVE  /\ b.ch \in Text /\ b.pos \in Nat /\ b.size \in Nat /\ b.fill \in BOOLEAN
         /\ b.status \in {"new", "normal", "eof_pending"}
         /\ b.tty \in BOOLEAN /\ b.file \in BOOLEAN /\ b.unread \in Text
         /\ b.pos \in 1 .. Len(b.ch) + 1
         /\ b.fill => Len(b.ch) < b.size
BY DEF BufferOk, BufferType

LEMMA ScanTypes ==
  ASSUME ScanInv
  PROVE  TypeOK /\ BuffersFit
<1>1. \A b \in DOMAIN buffers : b \in Nat \ {0} /\ Buffer(buffers[b])
  BY BufferFields DEF ScanInv, StateOk, BuffersOk, Buffer
<1>2. BuffersFit
  BY DEF ScanInv, StateOk, BuffersOk, BuffersFit, BufferOk
<1>3. current \in Nat
  BY DEF ScanInv, StateOk, BuffersOk
<1> QED
  BY <1>1, <1>2, <1>3 DEF ScanInv, StateOk, StartOk, TypeOK

LEMMA MovedBuffer ==
  ASSUME NEW b, BufferOk(b), NEW p \in 1 .. Len(b.ch) + 1
  PROVE  BufferOk([b EXCEPT !.pos = p])
<1>1. Len(b.ch) \in Nat
  BY BufferFields, TextLen
<1> QED
  BY <1>1 DEF BufferOk, BufferType

LEMMA FilledBuffer ==
  ASSUME NEW b, BufferOk(b), NEW x \in Text, NEW z \in Nat, NEW u \in Text,
         NEW w \in {"new", "normal", "eof_pending"}, b.fill => Len(x) < z
  PROVE  BufferOk([b EXCEPT !.ch = x, !.pos = 1, !.size = z, !.status = w, !.unread = u])
<1> DEFINE c == [b EXCEPT !.ch = x, !.pos = 1, !.size = z, !.status = w, !.unread = u]
<1>1. b \in BufferType
  BY DEF BufferOk
<1>2. c \in BufferType
  BY <1>1 DEF BufferType
<1>3. c.ch = x /\ c.pos = 1 /\ c.size = z
  BY <1>1 DEF BufferType
<1>4. c.fill = b.fill
  BY <1>1 DEF BufferType
<1>5. Len(x) \in Nat
  BY TextLen
<1> HIDE DEF c
<1>6. BufferOk(c)
  BY <1>2, <1>3, <1>4, <1>5 DEF BufferOk
<1> QED
  BY <1>6 DEF c

LEMMA EmptiedBuffer ==
  ASSUME NEW b, BufferOk(b), NEW x \in Text, NEW z \in Nat,
         NEW w \in {"new", "normal", "eof_pending"}, b.fill => Len(x) < z
  PROVE  BufferOk([b EXCEPT !.ch = x, !.pos = 1, !.status = w, !.size = z])
<1> DEFINE c == [b EXCEPT !.ch = x, !.pos = 1, !.status = w, !.size = z]
<1>1. b \in BufferType
  BY DEF BufferOk
<1>2. c \in BufferType
  BY <1>1 DEF BufferType
<1>3. c.ch = x /\ c.pos = 1 /\ c.size = z
  BY <1>1 DEF BufferType
<1>4. c.fill = b.fill
  BY <1>1 DEF BufferType
<1>5. Len(x) \in Nat
  BY TextLen
<1> HIDE DEF c
<1>6. BufferOk(c)
  BY <1>2, <1>3, <1>4, <1>5 DEF BufferOk
<1> QED
  BY <1>6 DEF c

LEMMA ReopenedBuffer ==
  ASSUME NEW b, BufferOk(b), NEW x \in Text, NEW z \in Nat, NEW y \in BOOLEAN,
         NEW w \in {"new", "normal", "eof_pending"}, b.fill => Len(x) < z
  PROVE  BufferOk([b EXCEPT !.ch = x, !.pos = 1, !.status = w, !.file = y, !.size = z])
<1> DEFINE c == [b EXCEPT !.ch = x, !.pos = 1, !.status = w, !.file = y, !.size = z]
<1>1. b \in BufferType
  BY DEF BufferOk
<1>2. c \in BufferType
  BY <1>1 DEF BufferType
<1>3. c.ch = x /\ c.pos = 1 /\ c.size = z
  BY <1>1 DEF BufferType
<1>4. c.fill = b.fill
  BY <1>1 DEF BufferType
<1>5. Len(x) \in Nat
  BY TextLen
<1> HIDE DEF c
<1>6. BufferOk(c)
  BY <1>2, <1>3, <1>4, <1>5 DEF BufferOk
<1> QED
  BY <1>6 DEF c

LEMMA NewBuffer ==
  ASSUME NEW text \in Text, NEW tty \in BOOLEAN
  PROVE  BufferOk(FileBuffer(text, tty)) /\ BufferOk(StringBuffer(text))
<1>1. << >> \in Text /\ Len(<< >>) = 0 /\ Len(text) \in Nat
  BY TextLen DEF Text
<1>2. BufSize \in Nat /\ 0 < BufSize
  BY BufSizeAssumption
<1> QED
  BY <1>1, <1>2 DEF FileBuffer, StringBuffer, BufferOk, BufferType

LEMMA InputBuffer ==
  ASSUME NEW input \in Inputs \cup Later
  PROVE  BufferOk(BufferOf(input))
<1>1. input.text \in Text
  BY InputsAssumption DEF Text
<1>2. (input.from = "terminal") \in BOOLEAN
  OBVIOUS
<1> QED
  BY <1>1, <1>2, NewBuffer DEF BufferOf

-----------------------------------------------------------------------------
(***************************************************************************)
(* The current buffer.                                                     *)
(***************************************************************************)
LEMMA MinOfTwo ==
  ASSUME NEW a \in Nat, NEW b \in Nat
  PROVE  Min({a, b}) \in Nat /\ Min({a, b}) <= a /\ Min({a, b}) <= b
BY MinIs

LEMMA CurOk ==
  ASSUME ScanInv
  PROVE  BufferOk(Cur)
BY DEF ScanInv, StateOk, BuffersOk, Cur

LEMMA PendingIs ==
  ASSUME ScanInv
  PROVE  /\ Pending \in Text
         /\ Len(Pending) \in Nat
         /\ Len(Cur.ch) \in Nat
         /\ Cur.pos + Len(Pending) = Len(Cur.ch) + 1
         /\ Len(Pending) <= Len(Cur.ch)
<1>1. Cur.ch \in Seq(STRING) /\ Cur.pos \in 1 .. Len(Cur.ch) + 1
  BY CurOk, BufferFields DEF Text
<1>2. Len(Cur.ch) \in Nat
  BY <1>1
<1>3. SubSeq(Cur.ch, Cur.pos, Len(Cur.ch)) \in Seq(STRING)
  BY <1>1, <1>2, SubSeqProperties
<1>4. Len(SubSeq(Cur.ch, Cur.pos, Len(Cur.ch))) = Len(Cur.ch) - Cur.pos + 1
  <2>1. Cur.pos \in 1 .. Len(Cur.ch) + 1 /\ Len(Cur.ch) \in Cur.pos - 1 .. Len(Cur.ch)
    BY <1>1, <1>2
  <2> QED
    BY <1>1, <2>1, SubSeqProperties
<1> QED
  BY <1>1, <1>2, <1>3, <1>4 DEF Pending, Text

LEMMA GrownIs ==
  ASSUME ScanInv, Cur.fill
  PROVE  Grown \in Nat /\ Len(Pending) + 1 < Grown
<1>1. Cur.size \in Nat /\ Len(Cur.ch) < Cur.size
  BY CurOk, BufferFields
<1>2. Len(Pending) \in Nat /\ Len(Pending) <= Len(Cur.ch) /\ Len(Cur.ch) \in Nat
  BY PendingIs
<1> QED
  BY <1>1, <1>2 DEF Grown

LEMMA LineLenIs ==
  ASSUME NEW t \in Text
  PROVE  LineLen(t) \in 0 .. Len(t)
<1> DEFINE S == {j \in 1 .. Len(t) : t[j] = "\n"} \cup {Len(t)}
<1>1. Len(t) \in Nat
  BY TextLen
<1>2. S \in SUBSET Nat /\ S # {} /\ Len(t) \in S
  BY <1>1
<1>3. Min(S) \in Nat /\ Min(S) <= Len(t)
  <2> HIDE DEF S
  <2> QED
    BY <1>2, MinIs
<1> QED
  BY <1>1, <1>3 DEF LineLen

(* What is read fits behind what is pending, with a character to spare.    *)
LEMMA NumReadIs ==
  ASSUME ScanInv, NEW f, MustRead(f)
  PROVE  /\ NumRead(f) \in 0 .. Len(Cur.unread)
         /\ Len(Pending) + NumRead(f) < Grown
<1> DEFINE avail == IF Cur.tty THEN LineLen(Cur.unread) ELSE Len(Cur.unread)
<1>1. Cur.unread \in Text /\ Len(Cur.unread) \in Nat
  BY CurOk, BufferFields, TextLen
<1>2. avail \in 0 .. Len(Cur.unread)
  BY <1>1, LineLenIs
<1>3. Grown \in Nat /\ Len(Pending) + 1 < Grown /\ Len(Pending) \in Nat
  BY GrownIs, PendingIs DEF MustRead
<1>4. NumToRead \in Nat /\ NumToRead <= Grown - Len(Pending) - 1
  <2>1. Grown - Len(Pending) - 1 \in Nat /\ ReadMax \in Nat
    BY <1>3, BufSizeAssumption
  <2> QED
    BY <2>1, MinOfTwo DEF NumToRead
<1>5. NumRead(f) = Min({NumToRead, avail})
  BY DEF NumRead
<1> HIDE DEF avail
<1>6. avail \in Nat
  BY <1>1, <1>2
<1>7. NumRead(f) \in Nat /\ NumRead(f) <= NumToRead /\ NumRead(f) <= avail
  BY <1>4, <1>5, <1>6, MinOfTwo
<1> QED
  BY <1>1, <1>2, <1>3, <1>4, <1>7

LEMMA RefilledOk ==
  ASSUME ScanInv, NEW f, MustRead(f)
  PROVE  BufferOk([Cur EXCEPT !.ch = Pending \o SubSeq(Cur.unread, 1, NumRead(f)),
                              !.pos = 1,
                              !.size = Grown,
                              !.status = "normal",
                              !.unread = SubSeq(Cur.unread, NumRead(f) + 1, Len(Cur.unread))])
<1> DEFINE x == Pending \o SubSeq(Cur.unread, 1, NumRead(f))
           u == SubSeq(Cur.unread, NumRead(f) + 1, Len(Cur.unread))
<1>1. Cur.unread \in Seq(STRING) /\ Len(Cur.unread) \in Nat
  BY CurOk, BufferFields, TextLen DEF Text
<1>2. NumRead(f) \in 0 .. Len(Cur.unread) /\ Len(Pending) + NumRead(f) < Grown
  BY NumReadIs
<1>3. SubSeq(Cur.unread, 1, NumRead(f)) \in Seq(STRING)
         /\ Len(SubSeq(Cur.unread, 1, NumRead(f))) = NumRead(f)
  BY <1>1, <1>2, SubSeqProperties
<1>4. u \in Text
  BY <1>1, <1>2, SubSeqProperties DEF Text
<1>5. x \in Text /\ Len(x) = Len(Pending) + NumRead(f)
  <2>1. Pending \in Seq(STRING)
    BY PendingIs DEF Text
  <2> QED
    BY <1>3, <2>1, ConcatProperties DEF Text
<1>6. Grown \in Nat
  BY GrownIs DEF MustRead
<1>7. BufferOk(Cur)
  BY CurOk
<1> HIDE DEF x, u
<1>8. BufferOk([Cur EXCEPT !.ch = x, !.pos = 1, !.size = Grown, !.status = "normal", !.unread = u])
  <2>1. "normal" \in {"new", "normal", "eof_pending"}
    OBVIOUS
  <2>2. Cur.fill => Len(x) < Grown
    BY <1>2, <1>5
  <2> QED
    BY <1>4, <1>5, <1>6, <1>7, <2>1, <2>2, FilledBuffer, ZenonT(30)
<1> QED
  BY <1>8 DEF x, u

LEMMA AtFrontIs ==
  ASSUME ScanInv
  PROVE  BufferOk(AtFront) /\ AtFront.pos + Len(Pending) = Len(AtFront.ch) + 1
<1>1. CASE ~Cur.fill
  BY <1>1, CurOk, PendingIs DEF AtFront
<1>2. CASE Cur.fill
  <2> DEFINE z == IF EofPending THEN Cur.size ELSE Grown
  <2>1. z \in Nat /\ Len(Pending) < z
    BY <1>2, CurOk, BufferFields, PendingIs, GrownIs
  <2>2. AtFront = [Cur EXCEPT !.ch = Pending, !.pos = 1, !.status = "eof_pending", !.size = z]
    BY <1>2 DEF AtFront
  <2>3. BufferOk(Cur) /\ Pending \in Text /\ Len(Pending) \in Nat
    BY CurOk, PendingIs
  <2> HIDE DEF z
  <2>4. BufferOk(AtFront)
    BY <2>1, <2>2, <2>3, EmptiedBuffer
  <2>5. AtFront.pos = 1 /\ AtFront.ch = Pending
    BY <2>2, <2>3 DEF BufferOk, BufferType
  <2> QED
    BY <2>3, <2>4, <2>5
<1> QED
  BY <1>1, <1>2

LEMMA RestartedOk ==
  ASSUME ScanInv
  PROVE  BufferOk(Restarted)
<1>1. CASE ~Cur.fill
  BY <1>1, CurOk DEF Restarted
<1>2. CASE Cur.fill
  <2> DEFINE z == IF EofPending THEN Cur.size ELSE Grown
             none == << >>
  <2>1. z \in Nat /\ Len(Pending) < z /\ Len(Pending) \in Nat
    BY <1>2, CurOk, BufferFields, PendingIs, GrownIs
  <2>2. none \in Text /\ Len(none) = 0
    BY DEF Text
  <2>3. Restarted =
          [Cur EXCEPT !.ch = none, !.pos = 1, !.status = "new", !.file = yyin, !.size = z]
    BY <1>2 DEF Restarted
  <2>4. BufferOk(Cur) /\ yyin \in BOOLEAN
    BY CurOk DEF ScanInv, StateOk
  <2> HIDE DEF z, none
  <2>5. Len(none) < z
    BY <2>1, <2>2
  <2> QED
    BY <2>1, <2>2, <2>3, <2>4, <2>5, ReopenedBuffer
<1> QED
  BY <1>1, <1>2

LEMMA ReplacedOk ==
  ASSUME NEW bufs, BuffersOk(bufs), NEW i, NEW b, BufferOk(b)
  PROVE  /\ BuffersOk([bufs EXCEPT ![i] = b])
         /\ DOMAIN [bufs EXCEPT ![i] = b] = DOMAIN bufs
BY DEF BuffersOk

LEMMA WithOk ==
  ASSUME NEW bufs, BuffersOk(bufs), NEW id \in Nat \ {0}, NEW b, BufferOk(b)
  PROVE  BuffersOk(With(bufs, id, b)) /\ DOMAIN With(bufs, id, b) = DOMAIN bufs \cup {id}
<1>1. DOMAIN With(bufs, id, b) = DOMAIN bufs \cup {id}
  BY DEF With
<1>2. IsFiniteSet(DOMAIN bufs \cup {id})
  BY FS_AddElement DEF BuffersOk
<1> QED
  BY <1>1, <1>2 DEF BuffersOk, With

LEMMA ReadyIs ==
  ASSUME ScanInv, NEW f, f = Match(Pending), NEW m \in Ready(f)
  PROVE  MatchOk(m, Pending)
<1>1. start \in StartConditions /\ Len(Pending) \in Nat
  BY PendingIs DEF ScanInv, StartOk
<1>2. CASE ~AtBufEnd(f)
  <2>1. m = Match(Pending)
    BY <1>2 DEF Ready
  <2> QED
    BY <1>1, <1>2, <2>1, MatchFits
<1>3. CASE AtBufEnd(f)
  <2>1. m = MatchAtEnd(Pending)
    BY <1>3 DEF Ready
  <2> QED
    BY <1>1, <2>1, MatchAtEndFits
<1> QED
  BY <1>2, <1>3

(* A lexeme is taken from what is there.                                   *)
LEMMA TakenOk ==
  ASSUME ScanInv, NEW f, NEW m, MatchOk(m, Pending)
  PROVE  BuffersOk(Taken(f, m)) /\ DOMAIN Taken(f, m) = DOMAIN buffers
<1> DEFINE b == IF AtBufEnd(f) THEN AtFront ELSE Cur
<1>1. BufferOk(b) /\ b.pos + Len(Pending) = Len(b.ch) + 1
  BY CurOk, PendingIs, AtFrontIs
<1>2. m.len \in Nat /\ m.len <= Len(Pending) /\ Len(Pending) \in Nat
  BY PendingIs DEF MatchOk
<1>3. Taken(f, m) = [buffers EXCEPT ![current] = [b EXCEPT !.pos = b.pos + m.len]]
  BY DEF Taken
<1> HIDE DEF b
<1>4. b.pos + m.len \in 1 .. Len(b.ch) + 1
  <2>1. b.pos \in Nat /\ b.pos >= 1 /\ Len(b.ch) \in Nat
    BY <1>1, BufferFields, TextLen
  <2> QED
    BY <1>1, <1>2, <2>1
<1>5. BufferOk([b EXCEPT !.pos = b.pos + m.len])
  BY <1>1, <1>4, MovedBuffer
<1>6. BuffersOk(buffers)
  BY DEF ScanInv, StateOk
<1> DEFINE c == [b EXCEPT !.pos = b.pos + m.len]
<1> HIDE DEF c
<1>7. Taken(f, m) = [buffers EXCEPT ![current] = c] /\ BufferOk(c)
  BY <1>3, <1>5 DEF c
<1>8. /\ BuffersOk([buffers EXCEPT ![current] = c])
      /\ DOMAIN [buffers EXCEPT ![current] = c] = DOMAIN buffers
  BY <1>6, <1>7, ReplacedOk
<1> QED
  BY <1>7, <1>8, Zenon

-----------------------------------------------------------------------------
(***************************************************************************)
(* The actions.                                                            *)
(***************************************************************************)
LEMMA SameStart ==
  ASSUME StartOk, UNCHANGED <<start, back>>
  PROVE  StartOk'
BY DEF StartOk

LEMMA StatusIs ==
  /\ GoesOn => status' \in Statuses
  /\ Returns => status' \in Statuses
BY DEF GoesOn, Returns, Statuses

LEMMA RefillScan ==
  ASSUME ScanInv, NEW f, Refill(f)
  PROVE  ScanInv'
<1>1. StateOk /\ StartOk
  BY DEF ScanInv
<1> DEFINE b == [Cur EXCEPT !.ch = Pending \o SubSeq(Cur.unread, 1, NumRead(f)),
                            !.pos = 1,
                            !.size = Grown,
                            !.status = "normal",
                            !.unread = SubSeq(Cur.unread, NumRead(f) + 1, Len(Cur.unread))]
<1>2. BufferOk(b)
  <2>1. MustRead(f)
    BY DEF Refill
  <2> QED
    BY <2>1, RefilledOk, Zenon
<1>3. buffers' = [buffers EXCEPT ![current] = b]
  BY DEF Refill, Cur
<1> HIDE DEF b
<1>4. BuffersOk(buffers') /\ DOMAIN buffers' = DOMAIN buffers
  BY <1>1, <1>2, <1>3, ReplacedOk DEF StateOk
<1>5. StateOk'
  BY <1>1, <1>4, StatusIs DEF Refill, StateOk, BuffersOk, include, history
<1>6. StartOk'
  BY <1>1, SameStart DEF Refill
<1> QED
  BY <1>5, <1>6 DEF ScanInv

LEMMA WildScan ==
  ASSUME ScanInv, status' = "wild", broken' \in BOOLEAN,
         UNCHANGED <<flex, include_stack, start, back, scans>>,
         include_stack_top' \in Int, include_stack_top' <= MaxInclude
  PROVE  ScanInv'
<1>1. StateOk /\ StartOk
  BY DEF ScanInv
<1>2. StateOk'
  BY <1>1 DEF StateOk, BuffersOk, flex, Statuses
<1>3. StartOk'
  BY <1>1, SameStart
<1> QED
  BY <1>2, <1>3 DEF ScanInv

(* The start condition after a rule.                                       *)
LEMMA AfterIs ==
  ASSUME StartOk, NEW m, MatchOk(m, Pending),
         start' = After(m.rule, start, back).start, back' = After(m.rule, start, back).back
  PROVE  StartOk'
<1> DEFINE r == m.rule
<1>1. /\ start \in StartConditions /\ back \in Seq(NotRegister)
      /\ start = "REGISTER" => back # << >>
      /\ start = "REGISTER" => r \in {0, 15, 16, 28, 29}
      /\ start # "REGISTER" => r \notin {15, 16}
  BY DEF StartOk, MatchOk
<1> HIDE DEF r
<1>2. CASE r \in {11, 20}
  <2>1. start' = "REGISTER" /\ back' = << start >> \o back
    BY <1>2 DEF After, r
  <2>2. start \in NotRegister
    BY <1>1, <1>2 DEF NotRegister
  <2>3. << start >> \o back \in Seq(NotRegister) /\ Len(<< start >> \o back) = 1 + Len(back)
    BY <1>1, <2>2, ConcatProperties
  <2>4. Len(back) \in Nat
    BY <1>1
  <2>5. << start >> \o back # << >>
    BY <2>3, <2>4
  <2> QED
    BY <2>1, <2>3, <2>5 DEF StartOk, StartConditions
<1>3. CASE r \in {15, 16}
  <2>1. start' = Head(back) /\ back' = Tail(back)
    BY <1>3 DEF After, r
  <2>2. back # << >>
    BY <1>1, <1>3
  <2>3. Head(back) \in NotRegister /\ Tail(back) \in Seq(NotRegister)
    BY <1>1, <2>2, HeadTailProperties
  <2> QED
    BY <2>1, <2>3 DEF StartOk, NotRegister
<1>4. CASE r \notin {11, 20, 15, 16}
  <2>1. back' = back
    BY <1>4 DEF After, r
  <2>2. start' \in {"COMMENT", "MACRO", "INCLUDE", "INITIAL"} \/ start' = start
    BY <1>4 DEF After, r
  <2> QED
    BY <1>1, <2>1, <2>2 DEF StartOk, StartConditions
<1> QED
  BY <1>2, <1>3, <1>4

LEMMA RuleScan ==
  ASSUME ScanInv, NEW f, NEW m, MatchOk(m, Pending), Rule(f, m)
  PROVE  ScanInv'
<1>1. StateOk /\ StartOk
  BY DEF ScanInv
<1>2. BuffersOk(buffers') /\ DOMAIN buffers' = DOMAIN buffers
  <2>1. buffers' = Taken(f, m)
    BY DEF Rule
  <2> QED
    BY <2>1, TakenOk
<1>3. UNCHANGED <<current, bs, yyin, include_stack, include_stack_top, scans, broken>>
  BY DEF Rule, include
<1>4. status' \in Statuses
  BY StatusIs DEF Rule
<1>5. StateOk'
  BY <1>1, <1>2, <1>3, <1>4 DEF StateOk, BuffersOk
<1>6. start' = After(m.rule, start, back).start /\ back' = After(m.rule, start, back).back
  BY DEF Rule
<1>7. StartOk'
  BY <1>1, <1>6, AfterIs
<1> QED
  BY <1>5, <1>7 DEF ScanInv

LEMMA PushIs ==
  ASSUME StateOk, NEW m, Push(m)
  PROVE  /\ DOMAIN include_stack' = 0 .. MaxInclude - 1
         /\ include_stack_top' \in Int /\ include_stack_top' <= MaxInclude
BY MaxIncludeAssumption DEF StateOk, Push

LEMMA IncludeScan ==
  ASSUME ScanInv, NEW f, NEW m, MatchOk(m, Pending), Include(f, m)
  PROVE  ScanInv'
<1> DEFINE id == Fresh(DOMAIN buffers \cup {current})
           new == FileBuffer(Files[FileName(Lexeme(m))], FALSE)
<1>1. StateOk /\ StartOk
  BY DEF ScanInv
<1>2. /\ FileName(Lexeme(m)) \in DOMAIN Files
      /\ buffers' = With(Taken(f, m), id, new)
      /\ current' = id
      /\ yyin' = TRUE /\ start' = "INITIAL" /\ broken' = (broken \/ scans > 1)
      /\ GoesOn
      /\ UNCHANGED <<bs, back, scans>>
  BY DEF Include, history
<1>3. BufferOk(new)
  BY <1>2, FilesAssumption, NewBuffer DEF Text
<1>4. id \in Nat \ {0}
  <2>1. IsFiniteSet(DOMAIN buffers \cup {current})
    BY <1>1, FS_AddElement DEF StateOk, BuffersOk
  <2> QED
    BY <1>1, <2>1, FreshIsNew DEF StateOk
<1> DEFINE rest == Taken(f, m)
<1> HIDE DEF id, new, rest
<1>5. BuffersOk(buffers') /\ current' \in DOMAIN buffers'
  <2>1. BuffersOk(rest)
    BY TakenOk DEF rest
  <2>2. BuffersOk(With(rest, id, new)) /\ DOMAIN With(rest, id, new) = DOMAIN rest \cup {id}
    BY <2>1, <1>3, <1>4, WithOk
  <2>3. buffers' = With(rest, id, new) /\ current' = id
    BY <1>2 DEF rest
  <2>4. id \in DOMAIN rest \cup {id}
    OBVIOUS
  <2> QED
    BY <2>2, <2>3, <2>4, Zenon
<1>6. /\ DOMAIN include_stack' = 0 .. MaxInclude - 1
      /\ include_stack_top' \in Int /\ include_stack_top' <= MaxInclude
  BY <1>1, PushIs DEF Include
<1>7. StateOk'
  BY <1>1, <1>2, <1>5, <1>6, StatusIs DEF StateOk, BuffersOk
<1>8. StartOk'
  BY <1>1, <1>2 DEF StartOk, StartConditions
<1> QED
  BY <1>7, <1>8 DEF ScanInv

LEMMA FailedScan ==
  ASSUME ScanInv, NEW f, NEW m, MatchOk(m, Pending),
         IncludeFails(f, m) \/ TooManyIncludes(f, m)
  PROVE  ScanInv'
<1>1. StateOk /\ StartOk
  BY DEF ScanInv
<1>2. buffers' = Taken(f, m) /\ Returns /\ UNCHANGED <<current, bs, start, back, scans>>
  BY DEF IncludeFails, TooManyIncludes
<1>3. BuffersOk(buffers') /\ DOMAIN buffers' = DOMAIN buffers
  BY <1>2, TakenOk
<1>4. yyin' \in BOOLEAN /\ broken' \in BOOLEAN
  BY <1>1 DEF IncludeFails, TooManyIncludes, StateOk
<1>5. /\ DOMAIN include_stack' = 0 .. MaxInclude - 1
      /\ include_stack_top' \in Int /\ include_stack_top' <= MaxInclude
  <2>1. CASE IncludeFails(f, m)
    BY <1>1, <2>1, PushIs DEF IncludeFails
  <2>2. CASE TooManyIncludes(f, m)
    BY <1>1, <2>2 DEF TooManyIncludes, include, StateOk
  <2> QED
    BY <2>1, <2>2
<1>6. StateOk'
  BY <1>1, <1>2, <1>3, <1>4, <1>5, StatusIs DEF StateOk, BuffersOk
<1>7. StartOk'
  BY <1>1, <1>2, SameStart
<1> QED
  BY <1>6, <1>7 DEF ScanInv

LEMMA TerminateScan ==
  ASSUME ScanInv, NEW f, EndOfOther(f) \/ EndOfInitial(f)
  PROVE  ScanInv'
<1>1. StateOk /\ StartOk
  BY DEF ScanInv
<1>2. /\ buffers' = [buffers EXCEPT ![current] = Restarted]
      /\ status' = "end"
      /\ UNCHANGED <<current, bs, yyin, include_stack, start, back, scans, broken>>
  BY DEF EndOfOther, EndOfInitial, Terminate, history
<1>3. BuffersOk(buffers') /\ DOMAIN buffers' = DOMAIN buffers
  BY <1>1, <1>2, RestartedOk, ReplacedOk DEF StateOk
<1>4. include_stack_top' \in Int /\ include_stack_top' <= MaxInclude
  BY <1>1, MaxIncludeAssumption DEF EndOfOther, EndOfInitial, StateOk
<1>5. StateOk'
  BY <1>1, <1>2, <1>3, <1>4 DEF StateOk, BuffersOk, Statuses
<1>6. StartOk'
  BY <1>1, <1>2, SameStart
<1> QED
  BY <1>5, <1>6 DEF ScanInv

LEMMA EndOfIncludeScan ==
  ASSUME ScanInv, NEW f, EndOfInclude(f)
  PROVE  ScanInv'
<1>1. StateOk /\ StartOk
  BY DEF ScanInv
<1>2. /\ include_stack_top' = include_stack_top - 1
      /\ Below \in Left
      /\ buffers' = [b \in Left |-> buffers[b]]
      /\ current' = Below
      /\ yyin' = buffers[Below].file
      /\ start' = "MACRO"
      /\ GoesOn
      /\ UNCHANGED <<bs, include_stack, back, scans, broken>>
  BY DEF EndOfInclude, history
<1>3. Left \subseteq DOMAIN buffers /\ IsFiniteSet(Left)
  BY <1>1, FS_Subset DEF Left, StateOk, BuffersOk
<1>4. BuffersOk(buffers') /\ current' \in DOMAIN buffers'
  BY <1>1, <1>2, <1>3 DEF StateOk, BuffersOk
<1>5. yyin' \in BOOLEAN
  BY <1>1, <1>2, <1>3, BufferFields DEF StateOk, BuffersOk
<1>6. /\ include_stack_top' \in Int /\ include_stack_top' <= MaxInclude
      /\ DOMAIN include_stack' = 0 .. MaxInclude - 1
  <2>1. include_stack_top' = include_stack_top - 1 /\ include_stack' = include_stack
    BY <1>2
  <2> QED
    BY <1>1, <2>1, MaxIncludeAssumption DEF StateOk
<1>7. status' \in Statuses
  BY <1>2, StatusIs
<1>8. StateOk'
  BY <1>1, <1>2, <1>4, <1>5, <1>6, <1>7 DEF StateOk, BuffersOk
<1>9. StartOk'
  BY <1>1, <1>2 DEF StartOk, StartConditions
<1> QED
  BY <1>8, <1>9 DEF ScanInv

LEMMA NextScanScan ==
  ASSUME ScanInv, NextScan
  PROVE  ScanInv'
<1> DEFINE left == DOMAIN buffers \ {bs, current}
           id   == Fresh(left)
           kept == [b \in left |-> buffers[b]]
<1>1. StateOk /\ StartOk
  BY DEF ScanInv
<1>2. PICK input \in Later :
        /\ buffers' = With(kept, id, BufferOf(input))
        /\ bs' = IF input.from = "string" THEN id ELSE 0
        /\ yyin' = (input.from # "string")
        /\ current' = id
  BY DEF NextScan
<1>3. /\ start' = "INITIAL" /\ back' = << >> /\ status' = "ready"
      /\ scans' = scans + 1 /\ scans < MaxScans
      /\ broken' = (broken \/ include_stack_top > 0)
      /\ UNCHANGED <<include_stack, include_stack_top>>
  BY DEF NextScan, include
<1>4. left \subseteq DOMAIN buffers /\ IsFiniteSet(left)
  BY <1>1, FS_Subset DEF StateOk, BuffersOk
<1>5. id \in Nat \ {0}
  BY <1>1, <1>4, FreshIsNew DEF StateOk
<1>6. BuffersOk(kept)
  BY <1>1, <1>4 DEF StateOk, BuffersOk
<1>7. BufferOk(BufferOf(input))
  BY InputBuffer
<1> HIDE DEF left, id, kept
<1> DEFINE new == BufferOf(input)
<1>8. BuffersOk(buffers') /\ current' \in DOMAIN buffers'
  <2>1. BufferOk(new) /\ buffers' = With(kept, id, new) /\ current' = id
    BY <1>2, <1>7
  <2> HIDE DEF new
  <2>2. BuffersOk(With(kept, id, new)) /\ DOMAIN With(kept, id, new) = DOMAIN kept \cup {id}
    BY <2>1, <1>5, <1>6, WithOk
  <2>3. id \in DOMAIN kept \cup {id}
    OBVIOUS
  <2> QED
    BY <2>1, <2>2, <2>3, Zenon
<1>9. StateOk'
  BY <1>1, <1>2, <1>3, <1>5, <1>8, MaxScansAssumption DEF StateOk, BuffersOk, Statuses
<1>10. StartOk'
  BY <1>3 DEF StartOk, StartConditions
<1> QED
  BY <1>9, <1>10 DEF ScanInv

LEMMA InitScan ==
  ASSUME Init
  PROVE  ScanInv
<1>1. PICK input \in Inputs :
        /\ buffers = [b \in {1} |-> BufferOf(input)]
        /\ bs = IF input.from = "string" THEN 1 ELSE 0
        /\ yyin = (input.from # "string")
  BY DEF Init
<1>2. BufferOk(BufferOf(input))
  BY InputBuffer
<1>3. DOMAIN buffers = {1} /\ buffers[1] = BufferOf(input)
  BY <1>1
<1>4. IsFiniteSet({1})
  BY FS_Singleton
<1>5. BuffersOk(buffers)
  BY <1>2, <1>3, <1>4 DEF BuffersOk
<1>6. StateOk
  <2>1. current \in DOMAIN buffers /\ bs \in Nat /\ yyin \in BOOLEAN /\ broken \in BOOLEAN
    BY <1>1, <1>3 DEF Init
  <2>2. /\ DOMAIN include_stack = 0 .. MaxInclude - 1
        /\ include_stack_top \in Int /\ include_stack_top <= MaxInclude
    BY MaxIncludeAssumption DEF Init
  <2>3. status \in Statuses /\ scans \in 1 .. MaxScans
    BY MaxScansAssumption DEF Init, Statuses
  <2> QED
    BY <1>5, <2>1, <2>2, <2>3 DEF StateOk
<1>7. StartOk
  BY DEF Init, StartOk, StartConditions
<1> QED
  BY <1>6, <1>7 DEF ScanInv

LEMMA NextScanned ==
  ASSUME ScanInv, [Next]_vars
  PROVE  ScanInv'
<1>1. CASE yylex
  <2>1. PICK f \in {Match(Pending)} :
       \/ Refill(f) \/ ReadNull(f)
       \/ \E m \in Ready(f) :
            \/ Rule(f, m) \/ Include(f, m) \/ IncludeFails(f, m)
            \/ TooManyIncludes(f, m) \/ IncludeAstray(m)
       \/ EndOfOther(f) \/ EndOfInitial(f) \/ EndOfInclude(f) \/ BelowIsGone(f)
    BY <1>1 DEF yylex
  <2>2. \A m \in Ready(f) : MatchOk(m, Pending)
    BY ReadyIs
  <2>3. CASE Refill(f)
    BY <2>3, RefillScan
  <2>4. CASE ReadNull(f)
    BY <2>4, WildScan DEF ReadNull, history, include, ScanInv, StateOk
  <2>5. ASSUME NEW m \in Ready(f), Rule(f, m)
        PROVE  ScanInv'
    BY <2>2, <2>5, RuleScan
  <2>6. ASSUME NEW m \in Ready(f), Include(f, m)
        PROVE  ScanInv'
    BY <2>2, <2>6, IncludeScan
  <2>7. ASSUME NEW m \in Ready(f), IncludeFails(f, m) \/ TooManyIncludes(f, m)
        PROVE  ScanInv'
    BY <2>2, <2>7, FailedScan
  <2>8. ASSUME NEW m \in Ready(f), IncludeAstray(m)
        PROVE  ScanInv'
    BY <2>8, WildScan DEF IncludeAstray, history, include, ScanInv, StateOk
  <2>9. CASE EndOfOther(f) \/ EndOfInitial(f)
    BY <2>9, TerminateScan
  <2>10. CASE EndOfInclude(f)
    BY <2>10, EndOfIncludeScan
  <2>11. CASE BelowIsGone(f)
    <3>1. include_stack_top' \in Int /\ include_stack_top' <= MaxInclude
      BY <2>11, MaxIncludeAssumption DEF BelowIsGone, ScanInv, StateOk
    <3> QED
      BY <2>11, <3>1, WildScan DEF BelowIsGone, history, ScanInv, StateOk
  <2> QED
    BY <2>1, <2>3, <2>4, <2>5, <2>6, <2>7, <2>8, <2>9, <2>10, <2>11
<1>2. CASE NextScan
  BY <1>2, NextScanScan
<1>3. CASE DeletedTwice
  BY <1>3, WildScan DEF DeletedTwice, history, include, ScanInv, StateOk
<1>4. CASE UNCHANGED vars
  BY <1>4 DEF vars, flex, include, history, ScanInv, StateOk, StartOk, BuffersOk
<1> QED
  BY <1>1, <1>2, <1>3, <1>4 DEF Next

(* The scanner's state stays well typed: a match never takes more than the *)
(* buffer holds, the place in a buffer never leaves it, the index of the   *)
(* include stack never passes its end, and a register read returns to the  *)
(* start condition it interrupted, whatever the text.                      *)
THEOREM ScannerTyped == Spec => []TypeOK
<1>1. Init => ScanInv
  BY InitScan
<1>2. ScanInv /\ [Next]_vars => ScanInv'
  BY NextScanned
<1>3. ScanInv => TypeOK
  BY ScanTypes
<1> QED
  BY <1>1, <1>2, <1>3, PTL DEF Spec

(* However a file's text is cut into reads, and however the buffer grows,  *)
(* what is in it leaves room for the end marks.                            *)
THEOREM BuffersAlwaysFit == Spec => []BuffersFit
<1>1. Init => ScanInv
  BY InitScan
<1>2. ScanInv /\ [Next]_vars => ScanInv'
  BY NextScanned
<1>3. ScanInv => BuffersFit
  BY ScanTypes
<1> QED
  BY <1>1, <1>2, <1>3, PTL DEF Spec

-----------------------------------------------------------------------------
(***************************************************************************)
(* The classes of the characters, yy_ec.                                   *)
(***************************************************************************)
Blank == " "
Comma == ","
Others == {"\n", "!", "#", "$", "+", "0", "1", "9", "=", "@", "\t", "-", "[", "]"}

LEMMA SpaceIs == Space = {Blank, "\t"}
BY DEF Space, Blank

LEMMA MarksAre == Marks = << "\n", "!", "#", "$", "+", Comma, "0", "1", "9", "=", "@" >>
BY Zenon DEF Marks, Comma

LEMMA DigitIs == Digit = {"0", "1", "2", "3", "4", "5", "6", "7", "8", "9"}
BY DEF Digit, Digits

LEMMA BlankApart == Blank \notin Alpha \cup Digit \cup Others \cup {Comma}
<1>1. Blank \notin Lower
  BY Zenon DEF Blank, Lower
<1>2. Blank \notin Upper
  BY Zenon DEF Blank, Upper
<1>3. Blank \notin Digit \cup Others \cup {Comma}
  BY DigitIs, Zenon DEF Blank, Comma, Others
<1> QED
  BY <1>1, <1>2, <1>3 DEF Alpha

LEMMA CommaApart == Comma \notin Alpha \cup Digit \cup Others
<1>1. Comma \notin Lower
  BY Zenon DEF Comma, Lower
<1>2. Comma \notin Upper
  BY Zenon DEF Comma, Upper
<1>3. Comma \notin Digit \cup Others
  BY DigitIs, Zenon DEF Comma, Others
<1> QED
  BY <1>1, <1>2, <1>3 DEF Alpha

Letters == {"c", "d", "e", "i", "l", "n", "u", "x"}
Signs   == {"\n", "!", "#", "$", "+", Comma, "0", "1", "9", "=", "@"}
MiddleDigit == {"2", "3", "4", "5", "6", "7", "8"}
Suffix  == {"s", "l", "q", "S", "L", "Q"}

LEMMA MiddleIs == Digit \ {"0", "1", "9"} = MiddleDigit
BY DigitIs DEF MiddleDigit

PlaceInKeywords(c) == CHOOSE i \in 1 .. 8 : InKeywords[i] = c
PlaceInMarks(c) == CHOOSE i \in 1 .. 11 : Marks[i] = c

LEMMA KeywordPlaces ==
  /\ \A c : (\E i \in 1 .. 8 : InKeywords[i] = c) <=> c \in Letters
  /\ \A i \in 1 .. 8 : PlaceInKeywords(InKeywords[i]) = i
<1>1. \A i \in 1 .. 8 : \A j \in 1 .. 8 : InKeywords[j] = InKeywords[i] => j = i
  BY DEF InKeywords
<1>2. \A c : (\E i \in 1 .. 8 : InKeywords[i] = c) <=> c \in Letters
  BY DEF InKeywords, Letters
<1> QED
  BY <1>1, <1>2 DEF PlaceInKeywords

LEMMA MarkPlaces ==
  /\ \A c : (\E i \in 1 .. 11 : Marks[i] = c) <=> c \in Signs
  /\ \A i \in 1 .. 11 : PlaceInMarks(Marks[i]) = i
<1>0. /\ Comma \notin Others
      /\ Marks = << "\n", "!", "#", "$", "+", Comma, "0", "1", "9", "=", "@" >>
  BY CommaApart, MarksAre
<1>1. \A i \in 1 .. 11 : \A j \in 1 .. 11 : Marks[j] = Marks[i] => j = i
  BY <1>0 DEF Others
<1>2. \A c : (\E i \in 1 .. 11 : Marks[i] = c) <=> c \in Signs
  BY <1>0 DEF Signs
<1> QED
  BY <1>1, <1>2 DEF PlaceInMarks

LEMMA KeywordPlace ==
  /\ PlaceInKeywords("c") = 1 /\ PlaceInKeywords("d") = 2 /\ PlaceInKeywords("e") = 3
  /\ PlaceInKeywords("i") = 4 /\ PlaceInKeywords("l") = 5 /\ PlaceInKeywords("n") = 6
  /\ PlaceInKeywords("u") = 7 /\ PlaceInKeywords("x") = 8
<1>1. /\ InKeywords[1] = "c" /\ InKeywords[2] = "d" /\ InKeywords[3] = "e"
      /\ InKeywords[4] = "i" /\ InKeywords[5] = "l" /\ InKeywords[6] = "n"
      /\ InKeywords[7] = "u" /\ InKeywords[8] = "x"
  BY DEF InKeywords
<1> QED
  BY <1>1, KeywordPlaces

LEMMA MarkPlace ==
  /\ PlaceInMarks("\n") = 1 /\ PlaceInMarks("!") = 2 /\ PlaceInMarks("#") = 3
  /\ PlaceInMarks("$") = 4 /\ PlaceInMarks("+") = 5 /\ PlaceInMarks(Comma) = 6
  /\ PlaceInMarks("0") = 7 /\ PlaceInMarks("1") = 8 /\ PlaceInMarks("9") = 9
  /\ PlaceInMarks("=") = 10 /\ PlaceInMarks("@") = 11
<1>1. /\ Marks[1] = "\n" /\ Marks[2] = "!" /\ Marks[3] = "#" /\ Marks[4] = "$"
      /\ Marks[5] = "+" /\ Marks[6] = Comma /\ Marks[7] = "0" /\ Marks[8] = "1"
      /\ Marks[9] = "9" /\ Marks[10] = "=" /\ Marks[11] = "@"
  BY MarksAre
<1> QED
  BY <1>1, MarkPlaces

OtherLetters == Alpha \ (RegLetters \cup {"L", "Q", "q", "S", "s"} \cup Letters)

LEMMA LettersIn ==
  /\ RegLetters \subseteq Alpha /\ {"L", "Q", "q"} \subseteq Alpha /\ {"S", "s"} \subseteq Alpha
  /\ Letters \subseteq Alpha /\ OtherLetters \subseteq Alpha
BY DEF RegLetters, Letters, OtherLetters, Alpha, Lower, Upper

LEMMA SpaceApart ==
  \A c \in Space : c \notin Alpha \cup Digit \cup MiddleDigit \cup Signs \cup {"-", "[", "]"}
<1>1. MiddleDigit \subseteq Digit
  BY MiddleIs
<1>2. \A c \in {"\n", "!", "#", "$", "+", "0", "1", "9", "=", "@", "-", "[", "]"} : c # "\t"
  OBVIOUS
<1>3. "\t" \notin Alpha \cup Digit
  BY DigitIs DEF Alpha, Lower, Upper
<1>4. "\t" # Comma /\ Blank # Comma
  BY CommaApart, BlankApart DEF Others
<1> QED
  BY <1>1, <1>2, <1>3, <1>4, SpaceIs, BlankApart DEF Signs, Others

LEMMA SignsApart ==
  \A c \in Signs : c \notin Alpha \cup MiddleDigit \cup {"-", "[", "]"}
<1>1. Comma \notin Alpha \cup MiddleDigit \cup {"-", "[", "]"}
  BY CommaApart, MiddleIs DEF Others
<1> QED
  BY <1>1 DEF Signs, MiddleDigit, Alpha, Lower, Upper

LEMMA AlphaApart ==
  \A c \in Alpha : c \notin Signs \cup Space \cup Digit \cup MiddleDigit \cup {"-", "[", "]"}
<1>1. \A c \in Digit \cup {"-", "[", "]"} : c \notin Alpha
  BY DigitIs DEF Alpha, Lower, Upper
<1>2. MiddleDigit \subseteq Digit
  BY MiddleIs
<1> QED
  BY <1>1, <1>2, SpaceApart, SignsApart

(* The characters that have a class, and the cases of the table.           *)
Classed == Alpha \cup Digit \cup Space \cup {"-", "[", "]"} \cup Signs

LEMMA EcIs ==
  /\ DOMAIN yy_ec = Classed
  /\ \A c \in Classed :
       yy_ec[c] =
         CASE c \in RegLetters -> 14
           [] c \in {"L", "Q", "q"} -> 16
           [] c \in {"S", "s"} -> 17
           [] c \in Letters -> 19 + PlaceInKeywords(c)
           [] c \in Signs -> 2 + PlaceInMarks(c)
           [] c \in Space -> 2
           [] c \in MiddleDigit -> 10
           [] c = "-" -> 7
           [] c = "[" -> 18
           [] c = "]" -> 19
           [] OTHER -> 15
<1>1. {Marks[i] : i \in 1 .. 11} = Signs
  BY MarkPlaces
<1>2. DOMAIN yy_ec = Classed
  BY <1>1 DEF yy_ec, Classed
<1>3. ASSUME NEW c \in Classed
      PROVE  yy_ec[c] =
         CASE c \in RegLetters -> 14
           [] c \in {"L", "Q", "q"} -> 16
           [] c \in {"S", "s"} -> 17
           [] c \in Letters -> 19 + PlaceInKeywords(c)
           [] c \in Signs -> 2 + PlaceInMarks(c)
           [] c \in Space -> 2
           [] c \in MiddleDigit -> 10
           [] c = "-" -> 7
           [] c = "[" -> 18
           [] c = "]" -> 19
           [] OTHER -> 15
  <2> DEFINE inKeywords == \E i \in 1 .. 8 : InKeywords[i] = c
             inMarks == \E i \in 1 .. 11 : Marks[i] = c
  <2>1. yy_ec[c] =
         CASE c \in RegLetters -> 14
           [] c \in {"L", "Q", "q"} -> 16
           [] c \in {"S", "s"} -> 17
           [] inKeywords -> 19 + PlaceInKeywords(c)
           [] inMarks -> 2 + PlaceInMarks(c)
           [] c \in Space -> 2
           [] c \in Digit \ {"0", "1", "9"} -> 10
           [] c = "-" -> 7
           [] c = "[" -> 18
           [] c = "]" -> 19
           [] OTHER -> 15
    BY <1>1 DEF yy_ec, Classed, PlaceInKeywords, PlaceInMarks
  <2>2. (inKeywords <=> c \in Letters) /\ (inMarks <=> c \in Signs)
    BY KeywordPlaces, MarkPlaces
  <2> HIDE DEF inKeywords, inMarks
  <2> QED
    BY <2>1, <2>2, MiddleIs
<1> QED
  BY <1>2, <1>3

LEMMA ClassOf ==
  ASSUME NEW c
  PROVE  /\ c \in RegLetters => Class(c) = 14
         /\ c \in {"L", "Q", "q"} => Class(c) = 16
         /\ c \in {"S", "s"} => Class(c) = 17
         /\ c \in Letters => Class(c) = 19 + PlaceInKeywords(c)
         /\ c \in OtherLetters => Class(c) = 15
         /\ c \in Signs => Class(c) = 2 + PlaceInMarks(c)
         /\ c \in Space => Class(c) = 2
         /\ c \in MiddleDigit => Class(c) = 10
         /\ c = "-" => Class(c) = 7
         /\ c = "[" => Class(c) = 18
         /\ c = "]" => Class(c) = 19
         /\ c \notin Classed => Class(c) = 1
<1>1. c \in Classed =>
       Class(c) =
         CASE c \in RegLetters -> 14
           [] c \in {"L", "Q", "q"} -> 16
           [] c \in {"S", "s"} -> 17
           [] c \in Letters -> 19 + PlaceInKeywords(c)
           [] c \in Signs -> 2 + PlaceInMarks(c)
           [] c \in Space -> 2
           [] c \in MiddleDigit -> 10
           [] c = "-" -> 7
           [] c = "[" -> 18
           [] c = "]" -> 19
           [] OTHER -> 15
  BY EcIs DEF Class
<1>2. c \notin Classed => Class(c) = 1
  BY EcIs DEF Class
<1>3. CASE c \in Alpha
  <2>1. c \notin Signs \cup Space \cup MiddleDigit \cup {"-", "[", "]"}
    BY <1>3, AlphaApart
  <2>2. c \in Letters => c \notin RegLetters \cup {"L", "Q", "q"} \cup {"S", "s"}
    BY DEF Letters, RegLetters
  <2>3. c \in {"L", "Q", "q"} \cup {"S", "s"} => c \notin RegLetters
    BY DEF RegLetters
  <2>4. c \in OtherLetters => c \notin RegLetters \cup {"L", "Q", "q"} \cup {"S", "s"} \cup Letters
    BY DEF OtherLetters
  <2> QED
    BY <1>1, <1>3, <2>1, <2>2, <2>3, <2>4 DEF Classed
<1>4. CASE c \notin Alpha
  <2>1. c \notin RegLetters \cup {"L", "Q", "q"} \cup {"S", "s"} \cup Letters \cup OtherLetters
    BY <1>4, LettersIn
  <2>2. c \in Signs => c \notin Space \cup MiddleDigit \cup {"-", "[", "]"}
    BY SignsApart, SpaceApart
  <2>3. c \in Space => c \notin MiddleDigit \cup {"-", "[", "]"}
    BY SpaceApart
  <2>4. c \in MiddleDigit => c \notin {"-", "[", "]"}
    BY DEF MiddleDigit
  <2>5. MiddleDigit \subseteq Classed
    BY MiddleIs DEF Classed
  <2> QED
    BY <1>1, <1>2, <2>1, <2>2, <2>3, <2>4, <2>5 DEF Classed
<1> QED
  BY <1>3, <1>4

(* The characters of each class that an entry of the tables tells apart.   *)
Kind(c, k) ==
  /\ k = 2 <=> c \in Space
  /\ k = 3 <=> c = "\n"
  /\ k = 4 <=> c = "!"
  /\ k = 5 <=> c = "#"
  /\ k = 6 <=> c = "$"
  /\ k = 7 <=> c \in {"+", "-"}
  /\ k = 8 <=> c = Comma
  /\ k = 9 <=> c = "0"
  /\ k \in 9 .. 11 <=> c \in Digit
  /\ k = 12 <=> c = "="
  /\ k = 13 <=> c = "@"
  /\ k \in 14 .. 17 \cup 20 .. 27 <=> c \in Alpha
  /\ k \in {16, 17, 24} <=> c \in Suffix
  /\ k = 18 <=> c = "["
  /\ k = 19 <=> c = "]"
  /\ k \in {9, 10, 14, 17, 20, 21} <=> c \in RegChar

KindLetter(c, k) ==
  /\ k = 20 <=> c = "c"
  /\ k = 21 <=> c = "d"
  /\ k = 22 <=> c = "e"
  /\ k = 23 <=> c = "i"
  /\ k = 24 <=> c = "l"
  /\ k = 25 <=> c = "n"
  /\ k = 26 <=> c = "u"
  /\ k = 27 <=> c = "x"

LEMMA RegCharApart ==
  /\ RegChar = {"0", "1", "2", "3", "4", "5", "6", "7", "8",
                "a", "b", "c", "z", "s", "d", "p", "A", "B", "C", "Z", "S", "D", "P"}
  /\ RegChar \subseteq Digit \cup Alpha
BY DigitIs DEF RegChar, Octal, Alpha, Lower, Upper

LEMMA AlphaKind ==
  ASSUME NEW c \in Alpha
  PROVE  Kind(c, Class(c)) /\ KindLetter(c, Class(c))
<1> DEFINE k == Class(c)
<1>0. c \notin Signs \cup Space \cup Digit \cup {"-", "[", "]"}
  BY AlphaApart
<1>1. /\ c \in RegLetters => k = 14
      /\ c \in {"L", "Q", "q"} => k = 16
      /\ c \in {"S", "s"} => k = 17
      /\ c \in Letters => k = 19 + PlaceInKeywords(c)
      /\ c \in OtherLetters => k = 15
  BY ClassOf
<1> HIDE DEF k
<1>2. CASE c \in RegLetters
  <2>1. k = 14 /\ c \in RegChar
    BY <1>1, <1>2, RegCharApart DEF RegLetters
  <2>2. c \notin Suffix \cup Letters
    BY <1>2 DEF RegLetters, Suffix, Letters
  <2> QED
    BY <1>0, <2>1, <2>2 DEF Kind, KindLetter, Signs, Letters, k
<1>3. CASE c \in {"L", "Q", "q"}
  <2>1. k = 16 /\ c \notin RegChar
    BY <1>1, <1>3, RegCharApart
  <2>2. c \in Suffix /\ c \notin Letters
    BY <1>3 DEF Suffix, Letters
  <2> QED
    BY <1>0, <2>1, <2>2 DEF Kind, KindLetter, Signs, Letters, k
<1>4. CASE c \in {"S", "s"}
  <2>1. k = 17 /\ c \in RegChar
    BY <1>1, <1>4, RegCharApart
  <2>2. c \in Suffix /\ c \notin Letters
    BY <1>4 DEF Suffix, Letters
  <2> QED
    BY <1>0, <2>1, <2>2 DEF Kind, KindLetter, Signs, Letters, k
<1>5. CASE c \in Letters
  <2>1. k = IF c = "c" THEN 20 ELSE IF c = "d" THEN 21 ELSE IF c = "e" THEN 22
            ELSE IF c = "i" THEN 23 ELSE IF c = "l" THEN 24 ELSE IF c = "n" THEN 25
            ELSE IF c = "u" THEN 26 ELSE 27
    BY <1>1, <1>5, KeywordPlace DEF Letters
  <2>2. /\ c \in Suffix <=> c = "l"
        /\ c \in RegChar <=> c \in {"c", "d"}
    BY <1>5, RegCharApart DEF Suffix, Letters
  <2> QED
    BY <1>0, <1>5, <2>1, <2>2 DEF Kind, KindLetter, Signs, Letters, k
<1>6. CASE c \in OtherLetters
  <2>1. k = 15
    BY <1>1, <1>6
  <2>2. c \notin RegLetters \cup {"L", "Q", "q", "S", "s"} \cup Letters
    BY <1>6 DEF OtherLetters
  <2>3. c \notin Suffix
    BY <2>2 DEF Suffix, Letters
  <2>4. c \notin RegChar
    BY <1>0, <2>2, RegCharApart, DigitIs DEF RegLetters, Letters
  <2> QED
    BY <1>0, <2>1, <2>2, <2>3, <2>4 DEF Kind, KindLetter, Signs, Letters, k
<1> QED
  BY <1>2, <1>3, <1>4, <1>5, <1>6 DEF OtherLetters

LEMMA OtherKind ==
  ASSUME NEW c, c \notin Alpha
  PROVE  Kind(c, Class(c)) /\ KindLetter(c, Class(c))
<1> DEFINE k == Class(c)
<1>1. /\ c \in Signs => k = 2 + PlaceInMarks(c)
      /\ c \in Space => k = 2
      /\ c \in MiddleDigit => k = 10
      /\ c = "-" => k = 7
      /\ c = "[" => k = 18
      /\ c = "]" => k = 19
      /\ c \notin Classed => k = 1
  BY ClassOf
<1>2. /\ c \notin Letters \cup Suffix
      /\ c \in RegChar <=> c \in Digit \ {"9"}
  <2>1. Letters \cup Suffix \subseteq Alpha
    BY DEF Letters, Suffix, Alpha, Lower, Upper
  <2>2. RegChar \cap Digit = Digit \ {"9"}
    BY RegCharApart, DigitIs
  <2> QED
    BY <2>1, <2>2, RegCharApart
<1>3. Digit = {"0", "1", "9"} \cup MiddleDigit
  BY DigitIs DEF MiddleDigit
<1> HIDE DEF k
<1>4. CASE c \in Signs
  <2>1. c \notin Space \cup MiddleDigit \cup {"-", "[", "]"}
    BY <1>4, SpaceApart, SignsApart
  <2>2. /\ c = "\n" => k = 3
        /\ c = "!" => k = 4
        /\ c = "#" => k = 5
        /\ c = "$" => k = 6
        /\ c = "+" => k = 7
        /\ c = Comma => k = 8
        /\ c = "0" => k = 9
        /\ c = "1" => k = 10
        /\ c = "9" => k = 11
        /\ c = "=" => k = 12
        /\ c = "@" => k = 13
    BY <1>1, <1>4, MarkPlace
  <2>3. Comma \notin Others
    BY CommaApart
  <2> QED
    BY <1>2, <1>3, <1>4, <2>1, <2>2, <2>3 DEF Kind, KindLetter, Signs, Others, Letters, k
<1>5. CASE c \in Space
  <2>1. k = 2 /\ c \notin Signs \cup Digit \cup {"-", "[", "]"}
    BY <1>1, <1>5, SpaceApart
  <2> QED
    BY <1>2, <1>3, <1>5, <2>1 DEF Kind, KindLetter, Signs, Letters, k
<1>6. CASE c \in MiddleDigit
  <2>1. k = 10 /\ c \notin Signs \cup Space \cup {"-", "[", "]"}
    BY <1>1, <1>6, SpaceApart, SignsApart DEF MiddleDigit
  <2> QED
    BY <1>2, <1>3, <1>6, <2>1 DEF Kind, KindLetter, Signs, Letters, k
<1>7. CASE c \in {"-", "[", "]"}
  <2>1. c \notin Signs \cup Space \cup MiddleDigit
    BY <1>7, SpaceApart, SignsApart DEF MiddleDigit
  <2> QED
    BY <1>1, <1>2, <1>3, <1>7, <2>1 DEF Kind, KindLetter, Signs, Letters, k
<1>8. CASE c \notin Classed
  <2>1. k = 1 /\ c \notin Signs \cup Space \cup Digit \cup {"-", "[", "]"}
    BY <1>1, <1>8 DEF Classed
  <2> QED
    BY <1>2, <1>3, <2>1 DEF Kind, KindLetter, Signs, Letters, k
<1> QED
  BY <1>3, <1>4, <1>5, <1>6, <1>7, <1>8 DEF Classed, Signs

LEMMA Kinds ==
  ASSUME NEW c
  PROVE  Class(c) \in 1 .. 27 /\ Kind(c, Class(c)) /\ KindLetter(c, Class(c))
BY ClassRange, AlphaKind, OtherKind

-----------------------------------------------------------------------------
(***************************************************************************)
(* Where the packed tables lead: the rows of the automaton, those that end *)
(* a match, those with a template and those that share another row.        *)
(***************************************************************************)
LEMMA TransitionStep ==
  ASSUME NEW s \in 1 .. 70, NEW k \in 0 .. 27
  PROVE  Transition[s][k] =
           IF Own(s, k) THEN Target(s, k)
           ELSE Transition[Default(s)][Meta(Default(s), k)]
<1>1. Go(Transition)[s][k] =
         IF Own(s, k) THEN Target(s, k)
         ELSE Transition[Default(s)][Meta(Default(s), k)]
  BY GoIs
<1> QED
  BY <1>1, TransitionSolves

LEMMA JamRow == \A k \in 0 .. 27 : Transition[63][k] = IF k = 0 THEN 11 ELSE 63
<1>1. \A k \in 0 .. 27 : Entry(yy_nxt, 151 + k) = IF k = 0 THEN 11 ELSE 63
  BY DEF yy_nxt, Entry
<1>2. Entry(yy_base, 63) = 151
  BY DEF yy_base, Entry
<1>3. ASSUME NEW k \in 0 .. 27
      PROVE  Transition[63][k] = Target(63, k)
  <2>1. 63 \in 1 .. 70 /\ Own(63, k)
    BY JamOwns
  <2>2. Transition[63][k] = IF Own(63, k) THEN Target(63, k)
                            ELSE Transition[Default(63)][Meta(Default(63), k)]
    BY <2>1, TransitionStep, ZenonT(60)
  <2> QED
    BY <2>1, <2>2, Zenon
<1> QED
  BY <1>1, <1>2, <1>3 DEF Target

LEMMA MetaOfClass == \A k \in 1 .. 27 : Entry(yy_meta, k) \in 1 .. 4
BY DEF yy_meta, Entry

(* A row of the tables whose other entries are the jam state's, one with a *)
(* template, and one that shares another state's entries.                  *)
LEMMA DirectRow ==
  ASSUME NEW s \in 1 .. 70, Default(s) = 63, NEW k \in 1 .. 27
  PROVE  Transition[s][k] = IF Own(s, k) THEN Target(s, k) ELSE 63
<1>0. k \in 0 .. 27
  OBVIOUS
<1>1. Transition[s][k] = IF Own(s, k) THEN Target(s, k)
                         ELSE Transition[Default(s)][Meta(Default(s), k)]
  BY <1>0, TransitionStep, ZenonT(60)
<1>2. Transition[63][Meta(63, k)] = 63
  BY JamRow DEF Meta
<1> QED
  BY <1>1, <1>2

LEMMA TemplateRow ==
  ASSUME NEW s \in 1 .. 70, Default(s) \in 64 .. 70, NEW k \in 1 .. 27
  PROVE  Transition[s][k] =
           IF Own(s, k) THEN Target(s, k)
           ELSE IF Own(Default(s), Entry(yy_meta, k)) THEN Target(Default(s), Entry(yy_meta, k))
           ELSE 63
<1> DEFINE m == Entry(yy_meta, k)
           d == Default(s)
<1>0. k \in 0 .. 27 /\ d \in 1 .. 70 /\ Default(d) = 63
  <2>1. \A e \in 64 .. 70 : Default(e) = 63
    BY DEF Default, yy_def, Entry
  <2> QED
    BY <2>1
<1>1. Transition[s][k] = IF Own(s, k) THEN Target(s, k) ELSE Transition[d][Meta(d, k)]
  BY <1>0, TransitionStep, ZenonT(60)
<1>2. Meta(d, k) = m /\ m \in 1 .. 27
  BY MetaOfClass DEF Meta
<1> HIDE DEF m, d
<1>3. Transition[d][m] = IF Own(d, m) THEN Target(d, m) ELSE 63
  BY <1>0, <1>2, DirectRow, ZenonT(60)
<1>4. Transition[s][k] = IF Own(s, k) THEN Target(s, k)
                         ELSE IF Own(d, m) THEN Target(d, m) ELSE 63
  BY <1>1, <1>2, <1>3
<1> QED
  BY <1>4 DEF d, m

LEMMA SharedRow ==
  ASSUME NEW s \in 1 .. 70, Default(s) \in 1 .. 62, NEW k \in 1 .. 27
  PROVE  Transition[s][k] = IF Own(s, k) THEN Target(s, k) ELSE Transition[Default(s)][k]
<1>0. k \in 0 .. 27 /\ Meta(Default(s), k) = k
  BY DEF Meta
<1>1. Transition[s][k] = IF Own(s, k) THEN Target(s, k)
                         ELSE Transition[Default(s)][Meta(Default(s), k)]
  BY <1>0, TransitionStep, ZenonT(60)
<1> QED
  BY <1>0, <1>1

(* Where a state goes with a character.                                    *)
To(s, c) == Transition[s][Class(c)]

-----------------------------------------------------------------------------
(* Spaces.                                                                 *)
SpaceStates == {13, 42, 32, 48, 41, 55}

LEMMA SpaceRows ==
  \A s \in SpaceStates : \A k \in 1 .. 27 :
    Transition[s][k] = IF k = 2 THEN (IF s \in {13, 42} THEN 42
                                      ELSE IF s \in {32, 48} THEN 48 ELSE 55) ELSE 63
<1>1. \A s \in SpaceStates : Default(s) = 63
  BY DEF SpaceStates, Default, yy_def, Entry
<1>2. \A s \in SpaceStates : \A k \in 1 .. 27 : Own(s, k) <=> k = 2
  BY DEF SpaceStates, Own, yy_base, yy_chk, Entry
<1>3. \A s \in SpaceStates :
         Target(s, 2) = IF s \in {13, 42} THEN 42 ELSE IF s \in {32, 48} THEN 48 ELSE 55
  BY DEF SpaceStates, Target, yy_base, yy_nxt, Entry
<1>4. SpaceStates \subseteq 1 .. 70
  BY DEF SpaceStates
<1> SUFFICES ASSUME NEW s \in SpaceStates, NEW k \in 1 .. 27
             PROVE  Transition[s][k] =
                      IF k = 2 THEN (IF s \in {13, 42} THEN 42
                                     ELSE IF s \in {32, 48} THEN 48 ELSE 55) ELSE 63
  OBVIOUS
<1>5. s \in 1 .. 70
  BY <1>4
<1>6. Default(s) = 63 /\ (Own(s, k) <=> k = 2)
  BY <1>1, <1>2
<1>7. Transition[s][k] = IF k = 2 THEN Target(s, k) ELSE 63
  BY <1>5, <1>6, DirectRow
<1> QED
  BY <1>3, <1>7

LEMMA SpaceTo ==
  ASSUME NEW c
  PROVE  /\ \A s \in {13, 42} : To(s, c) = IF c \in Space THEN 42 ELSE 63
         /\ \A s \in {32, 48} : To(s, c) = IF c \in Space THEN 48 ELSE 63
         /\ \A s \in {41, 55} : To(s, c) = IF c \in Space THEN 55 ELSE 63
<1> DEFINE k == Class(c)
<1>1. k \in 1 .. 27 /\ (k = 2 <=> c \in Space)
  BY Kinds DEF Kind
<1> HIDE DEF k
<1>2. \A s \in {13, 42} : Transition[s][k] = IF k = 2 THEN 42 ELSE 63
  BY <1>1, SpaceRows DEF SpaceStates
<1>3. \A s \in {32, 48} : Transition[s][k] = IF k = 2 THEN 48 ELSE 63
  BY <1>1, SpaceRows DEF SpaceStates
<1>4. \A s \in {41, 55} : Transition[s][k] = IF k = 2 THEN 55 ELSE 63
  BY <1>1, SpaceRows DEF SpaceStates
<1> QED
  BY <1>1, <1>2, <1>3, <1>4 DEF To, k

(* Words, comments and file names.                                         *)
AlphaNum == Alpha \cup Digit

LEMMA WordMeta ==
  \A k \in 1 .. 27 :
    /\ Entry(yy_meta, k) = 4 <=> k \in 9 .. 11 \cup 14 .. 17 \cup 20 .. 27
    /\ Entry(yy_meta, k) = 3 <=> k = 3
    /\ Entry(yy_meta, k) = 2 <=> k = 2
BY DEF yy_meta, Entry

LEMMA TemplateEntries ==
  /\ \A m \in 1 .. 4 : (Own(64, m) /\ Target(64, m) = 27)
                    /\ (Own(65, m) /\ Target(65, m) = 30)
                    /\ (Own(66, m) /\ Target(66, m) = 40)
  /\ \A m \in 1 .. 4 : (Own(67, m) <=> m = 4) /\ (Own(69, m) <=> m = 4)
  /\ \A m \in 1 .. 4 : Own(68, m) <=> m # 3
  /\ \A m \in 1 .. 4 : Own(70, m) <=> m \notin {2, 3}
  /\ Target(67, 4) = 46 /\ Target(69, 4) = 52
  /\ \A m \in {1, 2, 4} : Target(68, m) = 47
  /\ \A m \in {1, 4} : Target(70, m) = 54
  /\ \A d \in 64 .. 70 : Default(d) = 63
<1>1. \A m \in 1 .. 4 : Own(64, m) /\ Own(65, m) /\ Own(66, m)
  BY DEF Own, yy_base, yy_chk, Entry
<1>2. \A m \in 1 .. 4 : Target(64, m) = 27 /\ Target(65, m) = 30 /\ Target(66, m) = 40
  BY DEF Target, yy_base, yy_nxt, Entry
<1>3. \A m \in 1 .. 4 : (Own(67, m) <=> m = 4) /\ (Own(69, m) <=> m = 4)
                     /\ (Own(68, m) <=> m # 3) /\ (Own(70, m) <=> m \notin {2, 3})
  BY DEF Own, yy_base, yy_chk, Entry
<1>4. /\ Target(67, 4) = 46 /\ Target(69, 4) = 52
      /\ \A m \in {1, 2, 4} : Target(68, m) = 47
      /\ \A m \in {1, 4} : Target(70, m) = 54
  BY DEF Target, yy_base, yy_nxt, Entry
<1>5. \A d \in 64 .. 70 : Default(d) = 63
  BY DEF Default, yy_def, Entry
<1> QED
  BY <1>1, <1>2, <1>3, <1>4, <1>5

LEMMA WordTo ==
  ASSUME NEW c
  PROVE  /\ \A s \in {24, 46} : To(s, c) = IF c \in AlphaNum THEN 46 ELSE 63
         /\ \A s \in {38, 52, 62} : To(s, c) = IF c \in AlphaNum THEN 52 ELSE 63
         /\ \A s \in {30, 47} : To(s, c) = IF c # "\n" THEN 47 ELSE 63
         /\ \A s \in {40, 54} : To(s, c) = IF c \notin Space \cup {"\n"} THEN 54 ELSE 63
<1> DEFINE k == Class(c)
           m == Entry(yy_meta, k)
<1>1. /\ k \in 1 .. 27 /\ m \in 1 .. 4
      /\ m = 4 <=> c \in AlphaNum
      /\ m = 3 <=> c = "\n"
      /\ m = 2 <=> c \in Space
  BY Kinds, WordMeta, MetaOfClass DEF Kind, AlphaNum
<1>2. /\ \A s \in {24, 46} : Default(s) = 67
      /\ \A s \in {38, 52, 62} : Default(s) = 69
      /\ \A s \in {30, 47} : Default(s) = 68
      /\ \A s \in {40, 54} : Default(s) = 70
  BY DEF Default, yy_def, Entry
<1>3. \A s \in {24, 46, 38, 52, 62, 30, 47, 40, 54} : \A j \in 1 .. 27 : ~Own(s, j)
  BY DEF Own, yy_base, yy_chk, Entry
<1> HIDE DEF k, m
<1>4. ASSUME NEW s \in {24, 46, 38, 52, 62, 30, 47, 40, 54}
      PROVE  To(s, c) = IF Own(Default(s), m) THEN Target(Default(s), m) ELSE 63
  <2>1. ~Own(s, k) /\ s \in 1 .. 70 /\ Default(s) \in 64 .. 70
    BY <1>1, <1>2, <1>3
  <2>2. Transition[s][k] =
           IF Own(s, k) THEN Target(s, k)
           ELSE IF Own(Default(s), Entry(yy_meta, k))
                THEN Target(Default(s), Entry(yy_meta, k)) ELSE 63
    BY <1>1, <2>1, TemplateRow, ZenonT(60)
  <2> QED
    BY <2>1, <2>2 DEF To, k, m
<1>5. \A s \in {24, 46} : To(s, c) = IF c \in AlphaNum THEN 46 ELSE 63
  BY <1>1, <1>2, <1>4, TemplateEntries
<1>6. \A s \in {38, 52, 62} : To(s, c) = IF c \in AlphaNum THEN 52 ELSE 63
  BY <1>1, <1>2, <1>4, TemplateEntries
<1>7. \A s \in {30, 47} : To(s, c) = IF c # "\n" THEN 47 ELSE 63
  BY <1>1, <1>2, <1>4, TemplateEntries
<1>8. \A s \in {40, 54} : To(s, c) = IF c \notin Space \cup {"\n"} THEN 54 ELSE 63
  BY <1>1, <1>2, <1>4, TemplateEntries
<1> QED
  BY <1>5, <1>6, <1>7, <1>8

(* The keyword, letter by letter.                                          *)
LEMMA KeyRows ==
  \A k \in 1 .. 27 :
    /\ Own(39, k) <=> k = 25
    /\ Own(53, k) <=> k = 20
    /\ Own(58, k) <=> k = 24
    /\ Own(59, k) <=> k = 26
    /\ Own(60, k) <=> k = 21
    /\ Own(61, k) <=> k = 22
BY DEF Own, yy_base, yy_chk, Entry

LEMMA KeyTargets ==
  /\ Target(39, 25) = 53 /\ Target(53, 20) = 58 /\ Target(58, 24) = 59
  /\ Target(59, 26) = 60 /\ Target(60, 21) = 61 /\ Target(61, 22) = 62
BY DEF Target, yy_base, yy_nxt, Entry

LEMMA KeyTo ==
  ASSUME NEW c
  PROVE  /\ To(39, c) = IF c = "n" THEN 53 ELSE IF c \in AlphaNum THEN 52 ELSE 63
         /\ To(53, c) = IF c = "c" THEN 58 ELSE IF c \in AlphaNum THEN 52 ELSE 63
         /\ To(58, c) = IF c = "l" THEN 59 ELSE IF c \in AlphaNum THEN 52 ELSE 63
         /\ To(59, c) = IF c = "u" THEN 60 ELSE IF c \in AlphaNum THEN 52 ELSE 63
         /\ To(60, c) = IF c = "d" THEN 61 ELSE IF c \in AlphaNum THEN 52 ELSE 63
         /\ To(61, c) = IF c = "e" THEN 62 ELSE IF c \in AlphaNum THEN 52 ELSE 63
<1> DEFINE k == Class(c)
           m == Entry(yy_meta, k)
<1>1. /\ k \in 1 .. 27 /\ m \in 1 .. 4
      /\ m = 4 <=> c \in AlphaNum
      /\ k = 25 <=> c = "n"
      /\ k = 20 <=> c = "c"
      /\ k = 24 <=> c = "l"
      /\ k = 26 <=> c = "u"
      /\ k = 21 <=> c = "d"
      /\ k = 22 <=> c = "e"
  BY Kinds, WordMeta, MetaOfClass DEF Kind, KindLetter, AlphaNum
<1>2. \A s \in {39, 53, 58, 59, 60, 61} : Default(s) = 69
  BY DEF Default, yy_def, Entry
<1> HIDE DEF k, m
<1>3. ASSUME NEW s \in {39, 53, 58, 59, 60, 61}
      PROVE  To(s, c) = IF Own(s, k) THEN Target(s, k)
                        ELSE IF c \in AlphaNum THEN 52 ELSE 63
  <2>1. s \in 1 .. 70 /\ Default(s) \in 64 .. 70 /\ Default(s) = 69
    BY <1>2
  <2>2. Transition[s][k] =
           IF Own(s, k) THEN Target(s, k)
           ELSE IF Own(Default(s), Entry(yy_meta, k))
                THEN Target(Default(s), Entry(yy_meta, k)) ELSE 63
    BY <1>1, <2>1, TemplateRow, ZenonT(60)
  <2>3. (Own(69, m) <=> m = 4) /\ Target(69, 4) = 52
    BY <1>1, TemplateEntries
  <2> QED
    BY <1>1, <2>1, <2>2, <2>3 DEF To, k, m
<1> QED
  BY <1>1, <1>3, KeyRows, KeyTargets

(* Numbers: the states of INITIAL and those of MACRO.                      *)
NumberRow(s, k, digit, suffix, pair) ==
  Transition[s][k] = IF k \in 9 .. 11 THEN digit
                     ELSE IF k \in {16, 17, 24} THEN suffix
                     ELSE IF k = 27 THEN pair ELSE 63

LEMMA NumberOwn ==
  /\ \A s \in {20, 36} : \A k \in 1 .. 27 :
       Own(s, k) <=> k \in 9 .. 11 \cup {16, 17, 24, 27}
  /\ \A s \in {21, 43, 37, 49} : \A k \in 1 .. 27 : Own(s, k) <=> k = 27
  /\ \A s \in {56, 57} : \A k \in 1 .. 27 : ~Own(s, k)
  /\ \A s \in {44, 50} : \A k \in 1 .. 27 : Own(s, k) <=> k \in {16, 17, 24}
  /\ \A s \in {45, 51} : \A k \in 1 .. 27 : Own(s, k) <=> k \in 9 .. 11
<1>1. \A s \in {20, 36} : \A k \in 1 .. 27 :
        Own(s, k) <=> k \in 9 .. 11 \cup {16, 17, 24, 27}
  BY DEF Own, yy_base, yy_chk, Entry
<1>2. \A s \in {21, 43, 37, 49} : \A k \in 1 .. 27 : Own(s, k) <=> k = 27
  BY DEF Own, yy_base, yy_chk, Entry
<1>3. \A s \in {56, 57} : \A k \in 1 .. 27 : ~Own(s, k)
  BY DEF Own, yy_base, yy_chk, Entry
<1>4. \A s \in {44, 50} : \A k \in 1 .. 27 : Own(s, k) <=> k \in {16, 17, 24}
  BY DEF Own, yy_base, yy_chk, Entry
<1>5. \A s \in {45, 51} : \A k \in 1 .. 27 : Own(s, k) <=> k \in 9 .. 11
  BY DEF Own, yy_base, yy_chk, Entry
<1> QED
  BY <1>1, <1>2, <1>3, <1>4, <1>5

LEMMA NumberTargets ==
  /\ \A k \in {9, 10, 11} : Target(20, k) = 43 /\ Target(36, k) = 49
  /\ \A k \in {16, 17, 24} : /\ Target(20, k) = 44 /\ Target(36, k) = 50
                             /\ Target(44, k) = 44 /\ Target(50, k) = 50
  /\ Target(20, 27) = 45 /\ Target(36, 27) = 51
  /\ \A s \in {21, 43, 37, 49} : Target(s, 27) = 63
  /\ Target(45, 9) = 56 /\ Target(51, 9) = 57
  /\ \A k \in {10, 11} : Target(45, k) = 43 /\ Target(51, k) = 49
<1>1. /\ \A k \in {9, 10, 11} : Target(20, k) = 43 /\ Target(36, k) = 49
      /\ \A k \in {16, 17, 24} : /\ Target(20, k) = 44 /\ Target(36, k) = 50
                                 /\ Target(44, k) = 44 /\ Target(50, k) = 50
  BY DEF Target, yy_base, yy_nxt, Entry
<1>2. /\ Target(20, 27) = 45 /\ Target(36, 27) = 51
      /\ \A s \in {21, 43, 37, 49} : Target(s, 27) = 63
  BY DEF Target, yy_base, yy_nxt, Entry
<1>3. /\ Target(45, 9) = 56 /\ Target(51, 9) = 57
      /\ \A k \in {10, 11} : Target(45, k) = 43 /\ Target(51, k) = 49
  BY DEF Target, yy_base, yy_nxt, Entry
<1> QED
  BY <1>1, <1>2, <1>3

LEMMA NumberDefaults ==
  /\ \A s \in {20, 36, 44, 50, 45, 51} : Default(s) = 63
  /\ \A s \in {21, 43, 56} : Default(s) = 20
  /\ \A s \in {37, 49, 57} : Default(s) = 36
BY DEF Default, yy_def, Entry

LEMMA NumberRows ==
  ASSUME NEW k \in 1 .. 27
  PROVE  /\ NumberRow(20, k, 43, 44, 45) /\ NumberRow(36, k, 49, 50, 51)
         /\ NumberRow(56, k, 43, 44, 45) /\ NumberRow(57, k, 49, 50, 51)
         /\ NumberRow(21, k, 43, 44, 63) /\ NumberRow(37, k, 49, 50, 63)
         /\ NumberRow(43, k, 43, 44, 63) /\ NumberRow(49, k, 49, 50, 63)
         /\ NumberRow(44, k, 63, 44, 63) /\ NumberRow(50, k, 63, 50, 63)
         /\ Transition[45][k] = IF k = 9 THEN 56 ELSE IF k \in {10, 11} THEN 43 ELSE 63
         /\ Transition[51][k] = IF k = 9 THEN 57 ELSE IF k \in {10, 11} THEN 49 ELSE 63
<1>1. ASSUME NEW s \in {20, 36, 44, 50, 45, 51}
      PROVE  Transition[s][k] = IF Own(s, k) THEN Target(s, k) ELSE 63
  <2>1. s \in 1 .. 70 /\ Default(s) = 63
    BY NumberDefaults
  <2> QED
    BY <2>1, DirectRow, ZenonT(60)
<1>2. ASSUME NEW s \in {21, 43, 56}
      PROVE  Transition[s][k] = IF Own(s, k) THEN Target(s, k) ELSE Transition[20][k]
  <2>1. s \in 1 .. 70 /\ Default(s) \in 1 .. 62 /\ Default(s) = 20
    BY NumberDefaults
  <2>2. Transition[s][k] = IF Own(s, k) THEN Target(s, k) ELSE Transition[Default(s)][k]
    BY <2>1, SharedRow, Zenon
  <2> QED
    BY <2>1, <2>2
<1>3. ASSUME NEW s \in {37, 49, 57}
      PROVE  Transition[s][k] = IF Own(s, k) THEN Target(s, k) ELSE Transition[36][k]
  <2>1. s \in 1 .. 70 /\ Default(s) \in 1 .. 62 /\ Default(s) = 36
    BY NumberDefaults
  <2>2. Transition[s][k] = IF Own(s, k) THEN Target(s, k) ELSE Transition[Default(s)][k]
    BY <2>1, SharedRow, Zenon
  <2> QED
    BY <2>1, <2>2
<1>4. NumberRow(20, k, 43, 44, 45) /\ NumberRow(36, k, 49, 50, 51)
  BY <1>1, NumberOwn, NumberTargets DEF NumberRow
<1>5. NumberRow(56, k, 43, 44, 45) /\ NumberRow(57, k, 49, 50, 51)
  BY <1>2, <1>3, <1>4, NumberOwn DEF NumberRow
<1>6. /\ NumberRow(21, k, 43, 44, 63) /\ NumberRow(37, k, 49, 50, 63)
      /\ NumberRow(43, k, 43, 44, 63) /\ NumberRow(49, k, 49, 50, 63)
  BY <1>2, <1>3, <1>4, NumberOwn, NumberTargets DEF NumberRow
<1>7. NumberRow(44, k, 63, 44, 63) /\ NumberRow(50, k, 63, 50, 63)
  BY <1>1, NumberOwn, NumberTargets DEF NumberRow
<1>8. /\ Transition[45][k] = IF k = 9 THEN 56 ELSE IF k \in {10, 11} THEN 43 ELSE 63
      /\ Transition[51][k] = IF k = 9 THEN 57 ELSE IF k \in {10, 11} THEN 49 ELSE 63
  BY <1>1, NumberOwn, NumberTargets
<1> QED
  BY <1>4, <1>5, <1>6, <1>7, <1>8

(* Of the characters: rule 9 in INITIAL and 23 in MACRO, by the same states*)
(* under other numbers.                                                    *)
Zeros(z) == IF z = 9 THEN {20, 56} ELSE {36, 57}
Digital(z) == IF z = 9 THEN {21, 43} ELSE {37, 49}
DigitState(z) == IF z = 9 THEN 43 ELSE 49
SuffixState(z) == IF z = 9 THEN 44 ELSE 50
PairState(z) == IF z = 9 THEN 45 ELSE 51
ZeroState(z) == IF z = 9 THEN 56 ELSE 57

LEMMA NumberTo ==
  ASSUME NEW c, NEW z \in {9, 23}
  PROVE  /\ \A s \in Zeros(z) : To(s, c) = IF c \in Digit THEN DigitState(z)
                                  ELSE IF c \in Suffix THEN SuffixState(z)
                                  ELSE IF c = "x" THEN PairState(z) ELSE 63
         /\ \A s \in Digital(z) : To(s, c) = IF c \in Digit THEN DigitState(z)
                                    ELSE IF c \in Suffix THEN SuffixState(z) ELSE 63
         /\ To(SuffixState(z), c) = IF c \in Suffix THEN SuffixState(z) ELSE 63
         /\ To(PairState(z), c) = IF c = "0" THEN ZeroState(z)
                                  ELSE IF c \in Digit THEN DigitState(z) ELSE 63
<1> DEFINE k == Class(c)
<1>1. /\ k \in 1 .. 27
      /\ k \in 9 .. 11 <=> c \in Digit
      /\ k = 9 <=> c = "0"
      /\ k \in {16, 17, 24} <=> c \in Suffix
      /\ k = 27 <=> c = "x"
  BY Kinds DEF Kind, KindLetter
<1> HIDE DEF k
<1>2. /\ NumberRow(20, k, 43, 44, 45) /\ NumberRow(36, k, 49, 50, 51)
      /\ NumberRow(56, k, 43, 44, 45) /\ NumberRow(57, k, 49, 50, 51)
      /\ NumberRow(21, k, 43, 44, 63) /\ NumberRow(37, k, 49, 50, 63)
      /\ NumberRow(43, k, 43, 44, 63) /\ NumberRow(49, k, 49, 50, 63)
      /\ NumberRow(44, k, 63, 44, 63) /\ NumberRow(50, k, 63, 50, 63)
      /\ Transition[45][k] = IF k = 9 THEN 56 ELSE IF k \in {10, 11} THEN 43 ELSE 63
      /\ Transition[51][k] = IF k = 9 THEN 57 ELSE IF k \in {10, 11} THEN 49 ELSE 63
  BY <1>1, NumberRows
<1>3. \A s \in Zeros(z) : Transition[s][k] = IF c \in Digit THEN DigitState(z)
                                  ELSE IF c \in Suffix THEN SuffixState(z)
                                  ELSE IF c = "x" THEN PairState(z) ELSE 63
  BY <1>1, <1>2 DEF NumberRow, Zeros, DigitState, SuffixState, PairState
<1>4. \A s \in Digital(z) : Transition[s][k] = IF c \in Digit THEN DigitState(z)
                                    ELSE IF c \in Suffix THEN SuffixState(z) ELSE 63
  BY <1>1, <1>2 DEF NumberRow, Digital, DigitState, SuffixState
<1>5. Transition[SuffixState(z)][k] = IF c \in Suffix THEN SuffixState(z) ELSE 63
  BY <1>1, <1>2 DEF NumberRow, SuffixState
<1>6. Transition[PairState(z)][k] = IF c = "0" THEN ZeroState(z)
                                  ELSE IF c \in Digit THEN DigitState(z) ELSE 63
  BY <1>1, <1>2 DEF PairState, ZeroState, DigitState
<1> QED
  BY <1>3, <1>4, <1>5, <1>6 DEF To, k

-----------------------------------------------------------------------------
(* The first character.                                                    *)
LEMMA InitialRow ==
  \A k \in 1 .. 27 :
    Transition[1][k] = IF k <= 9 THEN k + 11
                       ELSE IF k \in {10, 11} THEN 21
                       ELSE IF k \in {12, 13} THEN k + 10
                       ELSE IF k = 18 THEN 25 ELSE IF k = 19 THEN 26 ELSE 24
<1>1. \A k \in 1 .. 27 : Own(1, k)
  BY DEF Own, yy_base, yy_chk, Entry
<1>2. \A k \in 1 .. 27 :
        Target(1, k) = IF k <= 9 THEN k + 11
                       ELSE IF k \in {10, 11} THEN 21
                       ELSE IF k \in {12, 13} THEN k + 10
                       ELSE IF k = 18 THEN 25 ELSE IF k = 19 THEN 26 ELSE 24
  BY DEF Target, yy_base, yy_nxt, Entry
<1>3. 1 \in 1 .. 70 /\ Default(1) = 63
  BY DEF Default, yy_def, Entry
<1>4. \A k \in 1 .. 27 : Transition[1][k] = IF Own(1, k) THEN Target(1, k) ELSE 63
  BY <1>3, DirectRow, ZenonT(60)
<1> QED
  BY <1>1, <1>2, <1>4

LEMMA InitialTo ==
  ASSUME NEW c
  PROVE  /\ c \in Space => To(1, c) = 13
         /\ c = "\n" => To(1, c) = 14
         /\ c = "!" => To(1, c) = 15
         /\ c = "#" => To(1, c) = 16
         /\ c = "$" => To(1, c) = 17
         /\ c \in {"+", "-"} => To(1, c) = 18
         /\ c = Comma => To(1, c) = 19
         /\ c = "0" => To(1, c) = 20
         /\ c \in Digit \ {"0"} => To(1, c) = 21
         /\ c = "=" => To(1, c) = 22
         /\ c = "@" => To(1, c) = 23
         /\ c \in Alpha => To(1, c) = 24
         /\ c = "[" => To(1, c) = 25
         /\ c = "]" => To(1, c) = 26
         /\ c \notin Classed => To(1, c) = 12
<1>1. Class(c) \in 1 .. 27 /\ Kind(c, Class(c)) /\ (c \notin Classed => Class(c) = 1)
  BY Kinds, ClassOf
<1> QED
  BY <1>1, InitialRow DEF To, Kind

LEMMA MacroRow ==
  \A k \in 1 .. 27 :
    Transition[7][k] = IF k \in {2, 3} THEN k + 30
                       ELSE IF k \in {5, 6} THEN k + 29
                       ELSE IF k = 9 THEN 36
                       ELSE IF k \in {10, 11} THEN 37
                       ELSE IF k = 23 THEN 39
                       ELSE IF k \in 14 .. 17 \cup 20 .. 27 THEN 38 ELSE 28
<1>1. \A k \in 1 .. 27 : Own(7, k)
  BY DEF Own, yy_base, yy_chk, Entry
<1>2. \A k \in 1 .. 27 :
        Target(7, k) = IF k \in {2, 3} THEN k + 30
                       ELSE IF k \in {5, 6} THEN k + 29
                       ELSE IF k = 9 THEN 36
                       ELSE IF k \in {10, 11} THEN 37
                       ELSE IF k = 23 THEN 39
                       ELSE IF k \in 14 .. 17 \cup 20 .. 27 THEN 38 ELSE 28
  BY DEF Target, yy_base, yy_nxt, Entry
<1>3. 7 \in 1 .. 70 /\ Default(7) = 63
  BY DEF Default, yy_def, Entry
<1>4. \A k \in 1 .. 27 : Transition[7][k] = IF Own(7, k) THEN Target(7, k) ELSE 63
  BY <1>3, DirectRow, ZenonT(60)
<1> QED
  BY <1>1, <1>2, <1>4

LEMMA MacroTo ==
  ASSUME NEW c
  PROVE  /\ c \in Space => To(7, c) = 32
         /\ c = "\n" => To(7, c) = 33
         /\ c = "#" => To(7, c) = 34
         /\ c = "$" => To(7, c) = 35
         /\ c = "0" => To(7, c) = 36
         /\ c \in Digit \ {"0"} => To(7, c) = 37
         /\ c = "i" => To(7, c) = 39
         /\ c \in Alpha \ {"i"} => To(7, c) = 38
         /\ c \notin Space \cup {"\n", "#", "$"} \cup AlphaNum => To(7, c) = 28
<1>1. Class(c) \in 1 .. 27 /\ Kind(c, Class(c)) /\ KindLetter(c, Class(c))
  BY Kinds
<1> QED
  BY <1>1, MacroRow DEF To, Kind, KindLetter, AlphaNum

LEMMA RegisterTo ==
  ASSUME NEW c
  PROVE  To(3, c) = IF c = "\n" THEN 28 ELSE IF c \in RegChar THEN 29 ELSE 27
<1> DEFINE k == Class(c)
           m == Entry(yy_meta, k)
<1>1. /\ k \in 1 .. 27 /\ m \in 1 .. 4
      /\ k = 3 <=> c = "\n"
      /\ k \in {9, 10, 14, 17, 20, 21} <=> c \in RegChar
  BY Kinds, MetaOfClass DEF Kind
<1> HIDE DEF k, m
<1>2. \A j \in 1 .. 27 : Own(3, j) <=> j \in {3, 9, 10, 14, 17, 20, 21}
  BY DEF Own, yy_base, yy_chk, Entry
<1>3. Target(3, 3) = 28 /\ \A j \in {9, 10, 14, 17, 20, 21} : Target(3, j) = 29
  BY DEF Target, yy_base, yy_nxt, Entry
<1>4. 3 \in 1 .. 70 /\ Default(3) = 64 /\ Default(3) \in 64 .. 70
  BY DEF Default, yy_def, Entry
<1>5. Transition[3][k] =
         IF Own(3, k) THEN Target(3, k)
         ELSE IF Own(Default(3), Entry(yy_meta, k)) THEN Target(Default(3), Entry(yy_meta, k))
         ELSE 63
  BY <1>1, <1>4, TemplateRow, ZenonT(60)
<1>6. Own(64, m) /\ Target(64, m) = 27
  BY <1>1, TemplateEntries
<1>7. Transition[3][k] = IF k \in {3, 9, 10, 14, 17, 20, 21} THEN Target(3, k) ELSE 27
  BY <1>1, <1>2, <1>4, <1>5, <1>6 DEF m
<1>8. Transition[3][k] = IF k = 3 THEN 28 ELSE IF k \in {9, 10, 14, 17, 20, 21} THEN 29 ELSE 27
  BY <1>3, <1>7
<1> QED
  BY <1>1, <1>8, Zenon DEF To, k

LEMMA CommentTo ==
  ASSUME NEW c
  PROVE  To(5, c) = IF c = "\n" THEN 31 ELSE 30
<1> DEFINE k == Class(c)
           m == Entry(yy_meta, k)
<1>1. k \in 1 .. 27 /\ m \in 1 .. 4 /\ (k = 3 <=> c = "\n")
  BY Kinds, MetaOfClass DEF Kind
<1> HIDE DEF k, m
<1>2. \A j \in 1 .. 27 : Own(5, j) <=> j = 3
  BY DEF Own, yy_base, yy_chk, Entry
<1>3. Target(5, 3) = 31
  BY DEF Target, yy_base, yy_nxt, Entry
<1>4. 5 \in 1 .. 70 /\ Default(5) = 65 /\ Default(5) \in 64 .. 70
  BY DEF Default, yy_def, Entry
<1>5. Transition[5][k] =
         IF Own(5, k) THEN Target(5, k)
         ELSE IF Own(Default(5), Entry(yy_meta, k)) THEN Target(Default(5), Entry(yy_meta, k))
         ELSE 63
  BY <1>1, <1>4, TemplateRow, ZenonT(60)
<1>6. Own(65, m) /\ Target(65, m) = 30
  BY <1>1, TemplateEntries
<1> QED
  BY <1>1, <1>2, <1>3, <1>4, <1>5, <1>6 DEF To, k, m

LEMMA IncludeTo ==
  ASSUME NEW c
  PROVE  To(9, c) = IF c \in Space THEN 41 ELSE IF c = "\n" THEN 28 ELSE 40
<1> DEFINE k == Class(c)
           m == Entry(yy_meta, k)
<1>1. k \in 1 .. 27 /\ m \in 1 .. 4 /\ (k = 2 <=> c \in Space) /\ (k = 3 <=> c = "\n")
  BY Kinds, MetaOfClass DEF Kind
<1> HIDE DEF k, m
<1>2. \A j \in 1 .. 27 : Own(9, j) <=> j \in {2, 3}
  BY DEF Own, yy_base, yy_chk, Entry
<1>3. Target(9, 2) = 41 /\ Target(9, 3) = 28
  BY DEF Target, yy_base, yy_nxt, Entry
<1>4. 9 \in 1 .. 70 /\ Default(9) = 66 /\ Default(9) \in 64 .. 70
  BY DEF Default, yy_def, Entry
<1>5. Transition[9][k] =
         IF Own(9, k) THEN Target(9, k)
         ELSE IF Own(Default(9), Entry(yy_meta, k)) THEN Target(Default(9), Entry(yy_meta, k))
         ELSE 63
  BY <1>1, <1>4, TemplateRow, ZenonT(60)
<1>6. Own(66, m) /\ Target(66, m) = 40
  BY <1>1, TemplateEntries
<1> QED
  BY <1>1, <1>2, <1>3, <1>4, <1>5, <1>6 DEF To, k, m

-----------------------------------------------------------------------------
(***************************************************************************)
(* Runs of characters of a set.                                            *)
(***************************************************************************)
LEMMA RunBound ==
  ASSUME NEW t \in Text, NEW i \in 1 .. Len(t) + 1, NEW set
  PROVE  /\ Run(t, i, set) \in Nat
         /\ i + Run(t, i, set) <= Len(t) + 1
         /\ \A j \in i .. i + Run(t, i, set) - 1 : t[j] \in set
         /\ i + Run(t, i, set) <= Len(t) => t[i + Run(t, i, set)] \notin set
<1> DEFINE S == {j \in i .. Len(t) : t[j] \notin set} \cup {Len(t) + 1}
           x == Min(S)
<1>1. Len(t) \in Nat
  BY TextLen
<1>2. S \in SUBSET Nat /\ S # {} /\ Len(t) + 1 \in S
  BY <1>1
<1>3. x \in S /\ \A y \in S : x <= y
  <2> HIDE DEF S
  <2> QED
    BY <1>2, MinIs
<1>4. Run(t, i, set) = x - i
  BY DEF Run
<1>5. x \in i .. Len(t) + 1
  BY <1>1, <1>3
<1>6. \A j \in i .. x - 1 : t[j] \in set
  <2> SUFFICES ASSUME NEW j \in i .. x - 1, t[j] \notin set
               PROVE  FALSE
    OBVIOUS
  <2>1. j \in i .. Len(t)
    BY <1>1, <1>5
  <2>2. j \in S
    BY <2>1
  <2>3. x <= j
    BY <1>3, <2>2
  <2> HIDE DEF S, x
  <2> QED
    BY <1>1, <1>5, <2>3
<1>7. x <= Len(t) => t[x] \notin set
  BY <1>1, <1>3
<1> HIDE DEF S, x
<1>8. i + (x - i) = x /\ x - i \in Nat /\ i \in Nat
  BY <1>1, <1>5
<1> QED
  BY <1>1, <1>4, <1>5, <1>6, <1>7, <1>8

LEMMA RunStep ==
  ASSUME NEW t \in Text, NEW i \in 1 .. Len(t) + 1, NEW set
  PROVE  Run(t, i, set) = IF i <= Len(t) /\ t[i] \in set
                          THEN 1 + Run(t, i + 1, set) ELSE 0
<1> DEFINE n == Len(t)
           x == Run(t, i, set)
           y == Run(t, i + 1, set)
<1>0. n \in Nat
  BY TextLen
<1>1. /\ x \in Nat /\ i + x <= n + 1
      /\ \A j \in i .. i + x - 1 : t[j] \in set
      /\ i + x <= n => t[i + x] \notin set
  BY RunBound
<1>2. CASE i <= n /\ t[i] \in set
  <2>1. i + 1 \in 1 .. n + 1
    BY <1>0, <1>2
  <2>2. /\ y \in Nat /\ i + 1 + y <= n + 1
        /\ \A j \in i + 1 .. i + 1 + y - 1 : t[j] \in set
        /\ i + 1 + y <= n => t[i + 1 + y] \notin set
    BY <2>1, RunBound
  <2> HIDE DEF n, x, y
  <2>3. x # 0
    BY <1>1, <1>2
  <2>4. x - 1 <= y
    <3>1. SUFFICES ASSUME x - 1 > y
                   PROVE  FALSE
      BY <1>1, <2>2
    <3>2. i + 1 + y \in i .. i + x - 1 /\ i + 1 + y <= n
      BY <1>0, <1>1, <2>2, <3>1
    <3> QED
      BY <1>1, <2>2, <3>2
  <2>5. x - 1 >= y
    <3>1. SUFFICES ASSUME x - 1 < y
                   PROVE  FALSE
      BY <1>1, <2>2
    <3>2. i + x \in i + 1 .. i + 1 + y - 1 /\ i + x <= n
      BY <1>0, <1>1, <2>2, <2>3, <3>1
    <3> QED
      BY <1>1, <2>2, <3>2
  <2> QED
    BY <1>1, <1>2, <2>2, <2>4, <2>5 DEF n, x, y
<1>3. CASE ~(i <= n /\ t[i] \in set)
  <2>1. x = 0
    <3> HIDE DEF n, x
    <3>1. SUFFICES ASSUME x # 0
                   PROVE  FALSE
      OBVIOUS
    <3>2. i \in i .. i + x - 1 /\ i <= n
      BY <1>0, <1>1, <3>1
    <3> QED
      BY <1>1, <1>3, <3>2
  <2> QED
    BY <1>3, <2>1
<1> QED
  BY <1>2, <1>3

(* A set and its complement.                                               *)
NotIn(set) == STRING \ set

LEMMA Complement ==
  ASSUME NEW t \in Text, NEW i \in 1 .. Len(t) + 1, NEW set
  PROVE  Min({j \in i .. Len(t) : t[j] \in set} \cup {Len(t) + 1}) - i = Run(t, i, NotIn(set))
<1>1. \A j \in i .. Len(t) : t[j] \in STRING
  <2>1. Len(t) \in Nat /\ \A j \in 1 .. Len(t) : t[j] \in STRING
    BY TextLen DEF Text
  <2> QED
    BY <2>1
<1>2. {j \in i .. Len(t) : t[j] \in set} = {j \in i .. Len(t) : t[j] \notin NotIn(set)}
  BY <1>1 DEF NotIn
<1> QED
  BY <1>2 DEF Run

LEMMA LinesRun ==
  ASSUME NEW t \in Text
  PROVE  /\ NotNewline(t, 1) = Run(t, 1, NotIn({"\n"}))
         /\ FileNameLen(t) = Run(t, 1, NotIn(Space \cup {"\n"}))
<1>1. 1 \in 1 .. Len(t) + 1
  BY TextLen
<1>2. Min({j \in 1 .. Len(t) : t[j] \in {"\n"}} \cup {Len(t) + 1}) - 1 = Run(t, 1, NotIn({"\n"}))
  BY <1>1, Complement, Zenon
<1>3. {j \in 1 .. Len(t) : t[j] \in {"\n"}} = {j \in 1 .. Len(t) : t[j] = "\n"}
  OBVIOUS
<1>4. Min({j \in 1 .. Len(t) : t[j] \in Space \cup {"\n"}} \cup {Len(t) + 1}) - 1
        = Run(t, 1, NotIn(Space \cup {"\n"}))
  BY <1>1, Complement, Zenon
<1> QED
  BY <1>2, <1>3, <1>4, Zenon DEF NotNewline, FileNameLen

LEMMA OneIs ==
  ASSUME NEW t \in Text, t # << >>, NEW set
  PROVE  One(t, set) = IF t[1] \in set THEN 1 ELSE 0
<1>1. Len(t) \in Nat \ {0}
  BY TextLen DEF Text
<1>2. 1 \in 1 .. Len(t) + 1 /\ 2 \in 1 .. Len(t) + 1 /\ 1 <= Len(t)
  BY <1>1
<1>3. Run(t, 1, set) = IF t[1] \in set THEN 1 + Run(t, 1 + 1, set) ELSE 0
  BY <1>2, RunStep
<1>4. Run(t, 2, set) \in Nat
  BY <1>2, RunBound
<1> QED
  BY <1>3, <1>4 DEF One

(* Induction from the end of a text to its beginning.                      *)
LEMMA Downward ==
  ASSUME NEW E, NEW n \in Nat, n \in E, \A i \in 0 .. n - 1 : i + 1 \in E => i \in E
  PROVE  \A i \in 0 .. n : i \in E
<1> DEFINE D == {k \in Nat : k <= n => n - k \in E}
<1>1. 0 \in D
  BY n - 0 = n
<1>2. ASSUME NEW k \in Nat, k \in D
      PROVE  k + 1 \in D
  <2> SUFFICES ASSUME k + 1 <= n
               PROVE  n - (k + 1) \in E
    OBVIOUS
  <2>1. n - (k + 1) \in 0 .. n - 1 /\ (n - (k + 1)) + 1 = n - k /\ k <= n
    OBVIOUS
  <2> QED
    BY <1>2, <2>1
<1> HIDE DEF D
<1>3. \A k \in Nat : k \in D
  BY <1>1, <1>2, AllNumbers
<1>4. ASSUME NEW i \in 0 .. n
      PROVE  i \in E
  <2>1. n - i \in Nat /\ n - i <= n /\ n - (n - i) = i
    OBVIOUS
  <2> QED
    BY <1>3, <2>1 DEF D
<1> QED
  BY <1>4

-----------------------------------------------------------------------------
(***************************************************************************)
(* The matches from all places of a text, when it ends the input, of the   *)
(* states that go on over a run of characters.                             *)
(***************************************************************************)
Walk(t, f) == t \in Text /\ Matching(t, Len(t), 0, f)

(* Rule r at the end l of a match.                                         *)
Match1(r, l) == [rule |-> r, len |-> l]

States   == 1 .. 63
JamState == 63

LEMMA WalkIs ==
  ASSUME NEW t, NEW f, Walk(t, f), NEW i \in 0 .. Len(t), NEW s \in States
  PROVE  f[i][s] = BestAt(t, Len(t), f, i, s)
<1>1. f[i] = BestFrom(t, Len(t), f, i)
  BY MatchingIs DEF Walk
<1> QED
  BY <1>1 DEF BestFrom, States

LEMMA WalkEnds ==
  ASSUME NEW t, NEW f, Walk(t, f), NEW i \in 0 .. Len(t), NEW s \in States,
         i = Len(t) \/ Entry(yy_base, s) = JamBase
  PROVE  f[i][s] = Match1(Entry(yy_accept, s), i)
<1>1. f[i][s] = BestAt(t, Len(t), f, i, s)
  BY WalkIs, Zenon
<1>2. Beyond(t, Len(t), f, i, s) = NoMatch
  BY DEF Beyond
<1>3. NoMatch.rule = 0
  BY DEF NoMatch
<1> QED
  BY <1>1, <1>2, <1>3 DEF BestAt, Match1

LEMMA WalkGoes ==
  ASSUME NEW t, NEW f, Walk(t, f), NEW i \in 0 .. Len(t), NEW s \in States,
         i < Len(t), Entry(yy_base, s) # JamBase
  PROVE  f[i][s] = IF f[i + 1][To(s, t[i + 1])].rule # 0 THEN f[i + 1][To(s, t[i + 1])]
                   ELSE Match1(Entry(yy_accept, s), i)
<1>0. Len(t) \in Nat
  BY TextLen DEF Walk
<1>1. f[i][s] = BestAt(t, Len(t), f, i, s)
  BY WalkIs, Zenon
<1>2. ClassAt(t, i + 1) = Class(t[i + 1])
  BY <1>0 DEF ClassAt
<1>3. Beyond(t, Len(t), f, i, s) = f[i + 1][To(s, t[i + 1])]
  BY <1>0, <1>2 DEF Beyond, To
<1> QED
  BY <1>1, <1>3 DEF BestAt, Match1

LEMMA AcceptsAre ==
  /\ Entry(yy_accept, JamState) = 0 /\ Entry(yy_base, JamState) = JamBase
  /\ JamState \in States
  /\ \A s \in {13, 42} : Entry(yy_accept, s) = 10
  /\ \A s \in {32, 48} : Entry(yy_accept, s) = 22
  /\ \A s \in {41, 55} : Entry(yy_accept, s) = 17
  /\ \A s \in {24, 46} : Entry(yy_accept, s) = 3
  /\ \A s \in {38, 52, 39, 53, 58, 59, 60, 61} : Entry(yy_accept, s) = 21
  /\ \A s \in {30, 47} : Entry(yy_accept, s) = 27
  /\ \A s \in {40, 54} : Entry(yy_accept, s) = 18
  /\ \A s \in {20, 56, 21, 43, 44} : Entry(yy_accept, s) = 9
  /\ \A s \in {36, 57, 37, 49, 50} : Entry(yy_accept, s) = 23
  /\ \A s \in {45, 51, 1, 3, 7} : Entry(yy_accept, s) = 0
  /\ Entry(yy_accept, 62) = 19
BY DEF yy_accept, yy_base, Entry, JamBase, JamState, States

(* States that can take one more character; JamState ends every match.     *)
GoingOn == {13, 42, 32, 48, 41, 55, 24, 46, 38, 52, 62, 39, 53, 58, 59, 60, 61, 30, 47, 40, 54,
            20, 56, 21, 43, 44, 45, 36, 57, 37, 49, 50, 51, 1, 3, 5, 7, 9}

LEMMA GoingOnBases == \A s \in GoingOn : s \in States /\ Entry(yy_base, s) # JamBase
BY DEF GoingOn, yy_base, Entry, JamBase, States

LEMMA Jams ==
  ASSUME NEW t, NEW f, Walk(t, f), NEW i \in 0 .. Len(t), i < Len(t), NEW s \in GoingOn,
         To(s, t[i + 1]) = JamState
  PROVE  f[i][s] = Match1(Entry(yy_accept, s), i)
<1>0. Len(t) \in Nat
  BY TextLen DEF Walk
<1>1. s \in States /\ Entry(yy_base, s) # JamBase
  BY GoingOnBases
<1>2. i + 1 \in 0 .. Len(t)
  BY <1>0
<1>8. JamState \in States
  BY AcceptsAre, Zenon
<1>3. i + 1 = Len(t) \/ Entry(yy_base, JamState) = JamBase
  BY AcceptsAre, Zenon
<1>4. f[i + 1][JamState] = Match1(Entry(yy_accept, JamState), i + 1)
  BY <1>2, <1>3, <1>8, WalkEnds, ZenonT(60)
<1>5. f[i + 1][JamState] = Match1(0, i + 1)
  BY <1>4, AcceptsAre
<1>6. f[i][s] = IF f[i + 1][To(s, t[i + 1])].rule # 0 THEN f[i + 1][To(s, t[i + 1])]
                ELSE Match1(Entry(yy_accept, s), i)
  BY <1>1, WalkGoes, ZenonT(60)
<1>7. Match1(0, i + 1).rule = 0
  BY DEF Match1
<1> QED
  BY <1>5, <1>6, <1>7

LEMMA Stops ==
  ASSUME NEW t, NEW f, Walk(t, f), NEW i \in 0 .. Len(t), NEW s \in GoingOn,
         i = Len(t) \/ To(s, t[i + 1]) = JamState
  PROVE  f[i][s] = Match1(Entry(yy_accept, s), i)
<1>1. CASE i = Len(t)
  <2>1. s \in States
    BY GoingOnBases
  <2>2. i = Len(t) \/ Entry(yy_base, s) = JamBase
    BY <1>1
  <2> QED
    BY <2>1, <2>2, WalkEnds, Zenon
<1>2. CASE i # Len(t)
  <2>1. i < Len(t) /\ To(s, t[i + 1]) = JamState
    BY <1>2, TextLen DEF Walk
  <2> QED
    BY <2>1, Jams, Zenon
<1> QED
  BY <1>1, <1>2

LEMMA Moves ==
  ASSUME NEW t, NEW f, Walk(t, f), NEW i \in 0 .. Len(t), i < Len(t), NEW s \in GoingOn,
         f[i + 1][To(s, t[i + 1])].rule # 0
  PROVE  f[i][s] = f[i + 1][To(s, t[i + 1])]
<1>1. s \in States /\ Entry(yy_base, s) # JamBase
  BY GoingOnBases
<1>2. f[i][s] = IF f[i + 1][To(s, t[i + 1])].rule # 0 THEN f[i + 1][To(s, t[i + 1])]
                ELSE Match1(Entry(yy_accept, s), i)
  BY <1>1, WalkGoes, Zenon
<1> QED
  BY <1>2

LEMMA Falls ==
  ASSUME NEW t, NEW f, Walk(t, f), NEW i \in 0 .. Len(t), i < Len(t), NEW s \in GoingOn,
         f[i + 1][To(s, t[i + 1])].rule = 0
  PROVE  f[i][s] = Match1(Entry(yy_accept, s), i)
<1>1. s \in States /\ Entry(yy_base, s) # JamBase
  BY GoingOnBases
<1>2. f[i][s] = IF f[i + 1][To(s, t[i + 1])].rule # 0 THEN f[i + 1][To(s, t[i + 1])]
                ELSE Match1(Entry(yy_accept, s), i)
  BY <1>1, WalkGoes, ZenonT(60)
<1> QED
  BY <1>2

LEMMA Character ==
  ASSUME NEW t \in Text, NEW i \in 0 .. Len(t), i < Len(t)
  PROVE  t[i + 1] \in STRING
<1>1. Len(t) \in Nat
  BY TextLen
<1>2. i + 1 \in 1 .. Len(t)
  BY <1>1
<1> QED
  BY <1>2 DEF Text

(* A state that goes on to another over the characters of a set, and then  *)
(* one that keeps to itself.                                               *)
Upon(s, q, set) == \A c \in STRING : To(s, c) = IF c \in set THEN q ELSE JamState

Span(r, t, i, set) == Match1(r, i + Run(t, i + 1, set))

LEMMA SpanStep ==
  ASSUME NEW t, NEW f, Walk(t, f), NEW i \in 0 .. Len(t), NEW s \in GoingOn, NEW q, NEW set,
         Entry(yy_accept, s) # 0, Upon(s, q, set),
         i < Len(t) => f[i + 1][q] = Span(Entry(yy_accept, s), t, i + 1, set)
  PROVE  f[i][s] = Span(Entry(yy_accept, s), t, i, set)
<1> DEFINE r == Entry(yy_accept, s)
<1>0. Len(t) \in Nat /\ t \in Text
  BY TextLen DEF Walk
<1>1. Run(t, i + 1, set) = IF i + 1 <= Len(t) /\ t[i + 1] \in set
                           THEN 1 + Run(t, i + 1 + 1, set) ELSE 0
  <2>1. i + 1 \in 1 .. Len(t) + 1
    BY <1>0
  <2> QED
    BY <1>0, <2>1, RunStep, Zenon
<1>2. i < Len(t) => t[i + 1] \in STRING
  BY <1>0, Character
<1> HIDE DEF r
<1>3. CASE i < Len(t) /\ t[i + 1] \in set
  <2>1. To(s, t[i + 1]) = q
    BY <1>2, <1>3 DEF Upon
  <2>2. f[i + 1][q] = Match1(r, i + 1 + Run(t, i + 1 + 1, set))
    BY <1>3 DEF Span, r
  <2>3. Match1(r, i + 1 + Run(t, i + 1 + 1, set)).rule = r
    BY DEF Match1
  <2>4. r # 0
    BY DEF r
  <2>5. f[i][s] = f[i + 1][q]
    BY <1>3, <2>1, <2>2, <2>3, <2>4, Moves
  <2>6. i + 1 + 1 \in 1 .. Len(t) + 1
    BY <1>0, <1>3
  <2>7. Run(t, i + 1 + 1, set) \in Nat
    BY <1>0, <2>6, RunBound, Zenon
  <2>8. i + 1 + Run(t, i + 1 + 1, set) = i + Run(t, i + 1, set)
    BY <1>0, <1>1, <1>3, <2>7
  <2> QED
    BY <2>2, <2>5, <2>8 DEF Span, r
<1>4. CASE ~(i < Len(t) /\ t[i + 1] \in set)
  <2>1. i = Len(t) \/ To(s, t[i + 1]) = JamState
    <3>1. CASE i < Len(t)
      <4>1. t[i + 1] \in STRING /\ t[i + 1] \notin set
        BY <1>2, <1>4, <3>1
      <4> QED
        BY <4>1, Zenon DEF Upon
    <3>2. CASE ~(i < Len(t))
      BY <1>0, <3>2
    <3> QED
      BY <3>1, <3>2
  <2>2. f[i][s] = Match1(r, i)
    BY <2>1, Stops DEF r
  <2>3. Run(t, i + 1, set) = 0 /\ i + 0 = i
    BY <1>0, <1>1, <1>4
  <2> QED
    BY <2>2, <2>3 DEF Span, r
<1> QED
  BY <1>3, <1>4

LEMMA Loops ==
  ASSUME NEW t, NEW f, Walk(t, f), NEW s \in GoingOn, NEW set,
         Entry(yy_accept, s) # 0, Upon(s, s, set)
  PROVE  \A i \in 0 .. Len(t) : f[i][s] = Span(Entry(yy_accept, s), t, i, set)
<1> DEFINE n == Len(t)
           E == {i \in 0 .. n : f[i][s] = Span(Entry(yy_accept, s), t, i, set)}
<1>0. n \in Nat
  BY TextLen DEF Walk
<1>1. ASSUME NEW i \in 0 .. n, i < n => i + 1 \in E
      PROVE  i \in E
  <2>1. i < Len(t) => f[i + 1][s] = Span(Entry(yy_accept, s), t, i + 1, set)
    BY <1>1
  <2> QED
    BY <2>1, SpanStep
<1>2. n \in E
  <2> HIDE DEF E
  <2> QED
    BY <1>0, <1>1
<1>3. \A i \in 0 .. n - 1 : i + 1 \in E => i \in E
  <2> HIDE DEF E
  <2> QED
    BY <1>0, <1>1
<1>4. \A i \in 0 .. n : i \in E
  <2> HIDE DEF E, n
  <2> QED
    BY <1>0, <1>2, <1>3, Downward
<1> QED
  BY <1>4

LEMMA Enters ==
  ASSUME NEW t, NEW f, Walk(t, f), NEW s \in GoingOn, NEW q \in GoingOn, NEW set,
         Entry(yy_accept, s) = Entry(yy_accept, q), Entry(yy_accept, q) # 0,
         Upon(s, q, set), Upon(q, q, set)
  PROVE  \A i \in 0 .. Len(t) : f[i][s] = Span(Entry(yy_accept, s), t, i, set)
<1>0. Len(t) \in Nat
  BY TextLen DEF Walk
<1>1. \A i \in 0 .. Len(t) : f[i][q] = Span(Entry(yy_accept, q), t, i, set)
  BY Loops
<1>2. ASSUME NEW i \in 0 .. Len(t)
      PROVE  f[i][s] = Span(Entry(yy_accept, s), t, i, set)
  <2>1. i < Len(t) => f[i + 1][q] = Span(Entry(yy_accept, s), t, i + 1, set)
    BY <1>0, <1>1
  <2> QED
    BY <2>1, SpanStep
<1> QED
  BY <1>2

(* Spaces, words, comments and file names.                                 *)
LEMMA InitialSpaces ==
  ASSUME NEW t, NEW f, Walk(t, f), NEW s \in {13, 42}
  PROVE  \A i \in 0 .. Len(t) : f[i][s] = Span(10, t, i, Space)
<1> DEFINE q == 42
<1>1. s \in GoingOn /\ q \in GoingOn
  BY DEF GoingOn
<1>2. Entry(yy_accept, s) = 10 /\ Entry(yy_accept, q) = 10 /\ 10 # 0
  BY AcceptsAre
<1>3. Upon(s, q, Space) /\ Upon(q, q, Space)
  BY SpaceTo DEF Upon, JamState
<1> DEFINE M == Space
<1> HIDE DEF q, M
<1>4. \A i \in 0 .. Len(t) : f[i][s] = Span(Entry(yy_accept, s), t, i, M)
  <2>1. Upon(s, q, M) /\ Upon(q, q, M)
    BY <1>3, Zenon DEF M
  <2> QED
    BY <1>1, <1>2, <2>1, Enters
<1> QED
  BY <1>2, <1>4 DEF M

LEMMA MacroSpaces ==
  ASSUME NEW t, NEW f, Walk(t, f), NEW s \in {32, 48}
  PROVE  \A i \in 0 .. Len(t) : f[i][s] = Span(22, t, i, Space)
<1> DEFINE q == 48
<1>1. s \in GoingOn /\ q \in GoingOn
  BY DEF GoingOn
<1>2. Entry(yy_accept, s) = 22 /\ Entry(yy_accept, q) = 22 /\ 22 # 0
  BY AcceptsAre
<1>3. Upon(s, q, Space) /\ Upon(q, q, Space)
  BY SpaceTo DEF Upon, JamState
<1> DEFINE M == Space
<1> HIDE DEF q, M
<1>4. \A i \in 0 .. Len(t) : f[i][s] = Span(Entry(yy_accept, s), t, i, M)
  <2>1. Upon(s, q, M) /\ Upon(q, q, M)
    BY <1>3, Zenon DEF M
  <2> QED
    BY <1>1, <1>2, <2>1, Enters
<1> QED
  BY <1>2, <1>4 DEF M

LEMMA IncludeSpaces ==
  ASSUME NEW t, NEW f, Walk(t, f), NEW s \in {41, 55}
  PROVE  \A i \in 0 .. Len(t) : f[i][s] = Span(17, t, i, Space)
<1> DEFINE q == 55
<1>1. s \in GoingOn /\ q \in GoingOn
  BY DEF GoingOn
<1>2. Entry(yy_accept, s) = 17 /\ Entry(yy_accept, q) = 17 /\ 17 # 0
  BY AcceptsAre
<1>3. Upon(s, q, Space) /\ Upon(q, q, Space)
  BY SpaceTo DEF Upon, JamState
<1> DEFINE M == Space
<1> HIDE DEF q, M
<1>4. \A i \in 0 .. Len(t) : f[i][s] = Span(Entry(yy_accept, s), t, i, M)
  <2>1. Upon(s, q, M) /\ Upon(q, q, M)
    BY <1>3, Zenon DEF M
  <2> QED
    BY <1>1, <1>2, <2>1, Enters
<1> QED
  BY <1>2, <1>4 DEF M

LEMMA InitialWords ==
  ASSUME NEW t, NEW f, Walk(t, f), NEW s \in {24, 46}
  PROVE  \A i \in 0 .. Len(t) : f[i][s] = Span(3, t, i, AlphaNum)
<1> DEFINE q == 46
<1>1. s \in GoingOn /\ q \in GoingOn
  BY DEF GoingOn
<1>2. Entry(yy_accept, s) = 3 /\ Entry(yy_accept, q) = 3 /\ 3 # 0
  BY AcceptsAre
<1>3. Upon(s, q, AlphaNum) /\ Upon(q, q, AlphaNum)
  BY WordTo DEF Upon, JamState
<1> DEFINE M == AlphaNum
<1> HIDE DEF q, M
<1>4. \A i \in 0 .. Len(t) : f[i][s] = Span(Entry(yy_accept, s), t, i, M)
  <2>1. Upon(s, q, M) /\ Upon(q, q, M)
    BY <1>3, Zenon DEF M
  <2> QED
    BY <1>1, <1>2, <2>1, Enters
<1> QED
  BY <1>2, <1>4 DEF M

LEMMA MacroWords ==
  ASSUME NEW t, NEW f, Walk(t, f), NEW s \in {38, 52}
  PROVE  \A i \in 0 .. Len(t) : f[i][s] = Span(21, t, i, AlphaNum)
<1> DEFINE q == 52
<1>1. s \in GoingOn /\ q \in GoingOn
  BY DEF GoingOn
<1>2. Entry(yy_accept, s) = 21 /\ Entry(yy_accept, q) = 21 /\ 21 # 0
  BY AcceptsAre
<1>3. Upon(s, q, AlphaNum) /\ Upon(q, q, AlphaNum)
  BY WordTo DEF Upon, JamState
<1> DEFINE M == AlphaNum
<1> HIDE DEF q, M
<1>4. \A i \in 0 .. Len(t) : f[i][s] = Span(Entry(yy_accept, s), t, i, M)
  <2>1. Upon(s, q, M) /\ Upon(q, q, M)
    BY <1>3, Zenon DEF M
  <2> QED
    BY <1>1, <1>2, <2>1, Enters
<1> QED
  BY <1>2, <1>4 DEF M

LEMMA Comments ==
  ASSUME NEW t, NEW f, Walk(t, f), NEW s \in {30, 47}
  PROVE  \A i \in 0 .. Len(t) : f[i][s] = Span(27, t, i, NotIn({"\n"}))
<1> DEFINE q == 47
<1>1. s \in GoingOn /\ q \in GoingOn
  BY DEF GoingOn
<1>2. Entry(yy_accept, s) = 27 /\ Entry(yy_accept, q) = 27 /\ 27 # 0
  BY AcceptsAre
<1>3. Upon(s, q, NotIn({"\n"})) /\ Upon(q, q, NotIn({"\n"}))
  BY WordTo DEF Upon, JamState, NotIn
<1> DEFINE M == NotIn({"\n"})
<1> HIDE DEF q, M
<1>4. \A i \in 0 .. Len(t) : f[i][s] = Span(Entry(yy_accept, s), t, i, M)
  <2>1. Upon(s, q, M) /\ Upon(q, q, M)
    BY <1>3, Zenon DEF M
  <2> QED
    BY <1>1, <1>2, <2>1, Enters
<1> QED
  BY <1>2, <1>4 DEF M

LEMMA FileNames ==
  ASSUME NEW t, NEW f, Walk(t, f), NEW s \in {40, 54}
  PROVE  \A i \in 0 .. Len(t) : f[i][s] = Span(18, t, i, NotIn(Space \cup {"\n"}))
<1> DEFINE q == 54
<1>1. s \in GoingOn /\ q \in GoingOn
  BY DEF GoingOn
<1>2. Entry(yy_accept, s) = 18 /\ Entry(yy_accept, q) = 18 /\ 18 # 0
  BY AcceptsAre
<1>3. Upon(s, q, NotIn(Space \cup {"\n"})) /\ Upon(q, q, NotIn(Space \cup {"\n"}))
  <2> DEFINE S == NotIn(Space \cup {"\n"})
  <2>1. \A c \in STRING : c \in S <=> c \notin Space \cup {"\n"}
    BY DEF NotIn
  <2>2. q \in {40, 54}
    OBVIOUS
  <2>3. \A c \in STRING : \A p \in {40, 54} :
          To(p, c) = IF c \notin Space \cup {"\n"} THEN q ELSE JamState
    BY WordTo DEF JamState
  <2> HIDE DEF S
  <2>4. \A p \in {40, 54} : Upon(p, q, S)
    BY <2>1, <2>3 DEF Upon
  <2> QED
    BY <2>2, <2>4 DEF S
<1> DEFINE M == NotIn(Space \cup {"\n"})
<1> HIDE DEF q, M
<1>4. \A i \in 0 .. Len(t) : f[i][s] = Span(Entry(yy_accept, s), t, i, M)
  <2>1. Upon(s, q, M) /\ Upon(q, q, M)
    BY <1>3, Zenon DEF M
  <2> QED
    BY <1>1, <1>2, <2>1, Enters
<1>5. \A i \in 0 .. Len(t) : f[i][s] = Span(18, t, i, M)
  BY <1>2, <1>4
<1> QED
  BY <1>5, Zenon DEF M

(* Numbers.                                                                *)
NumberStates(z) == Zeros(z) \cup Digital(z)

LEMMA NumberAccepts ==
  ASSUME NEW z \in {9, 23}
  PROVE  /\ \A s \in NumberStates(z) : s \in GoingOn /\ Entry(yy_accept, s) = z
         /\ SuffixState(z) \in GoingOn /\ Entry(yy_accept, SuffixState(z)) = z
         /\ PairState(z) \in GoingOn /\ Entry(yy_accept, PairState(z)) = 0
         /\ DigitState(z) \in Digital(z) /\ ZeroState(z) \in Zeros(z)
         /\ z # 0
<1>1. \A s \in NumberStates(z) : s \in GoingOn
  BY DEF NumberStates, Zeros, Digital, GoingOn
<1>2. \A s \in NumberStates(z) : Entry(yy_accept, s) = z
  BY AcceptsAre DEF NumberStates, Zeros, Digital
<1>3. SuffixState(z) \in GoingOn /\ PairState(z) \in GoingOn
  BY DEF SuffixState, PairState, GoingOn
<1>4. Entry(yy_accept, SuffixState(z)) = z /\ Entry(yy_accept, PairState(z)) = 0
  BY AcceptsAre DEF SuffixState, PairState
<1>5. DigitState(z) \in Digital(z) /\ ZeroState(z) \in Zeros(z) /\ z # 0
  BY DEF DigitState, ZeroState, Digital, Zeros
<1> QED
  BY <1>1, <1>2, <1>3, <1>4, <1>5

LEMMA NumberGoes ==
  ASSUME NEW c, NEW z \in {9, 23}
  PROVE  /\ \A s \in NumberStates(z) :
              (s \in Digital(z) \/ c # "x") =>
                To(s, c) = IF c \in Digit THEN DigitState(z)
                           ELSE IF c \in Suffix THEN SuffixState(z) ELSE JamState
         /\ \A s \in Zeros(z) : c = "x" => To(s, c) = PairState(z)
         /\ To(SuffixState(z), c) = IF c \in Suffix THEN SuffixState(z) ELSE JamState
         /\ To(PairState(z), c) = IF c = "0" THEN ZeroState(z)
                                  ELSE IF c \in Digit THEN DigitState(z) ELSE JamState
<1>1. /\ \A s \in Zeros(z) : To(s, c) = IF c \in Digit THEN DigitState(z)
                                  ELSE IF c \in Suffix THEN SuffixState(z)
                                  ELSE IF c = "x" THEN PairState(z) ELSE JamState
      /\ \A s \in Digital(z) : To(s, c) = IF c \in Digit THEN DigitState(z)
                                    ELSE IF c \in Suffix THEN SuffixState(z) ELSE JamState
      /\ To(SuffixState(z), c) = IF c \in Suffix THEN SuffixState(z) ELSE JamState
      /\ To(PairState(z), c) = IF c = "0" THEN ZeroState(z)
                               ELSE IF c \in Digit THEN DigitState(z) ELSE JamState
  BY NumberTo DEF JamState
<1>2. "x" \notin Digit /\ "x" \notin Suffix
  BY DigitIs DEF Suffix
<1> QED
  BY <1>1, <1>2 DEF NumberStates

LEMMA SuffixApart == \A c \in Suffix : c \notin Digit
BY DigitIs DEF Suffix

LEMMA Suffixes ==
  ASSUME NEW t, NEW f, Walk(t, f), NEW z \in {9, 23}
  PROVE  \A i \in 0 .. Len(t) : f[i][SuffixState(z)] = Span(z, t, i, Suffix)
<1> DEFINE s == SuffixState(z)
<1>1. s \in GoingOn /\ Entry(yy_accept, s) = z /\ z # 0
  BY NumberAccepts
<1>2. Upon(s, s, Suffix)
  BY NumberGoes DEF Upon
<1> HIDE DEF s
<1>3. \A i \in 0 .. Len(t) : f[i][s] = Span(Entry(yy_accept, s), t, i, Suffix)
  BY <1>1, <1>2, Loops
<1> QED
  BY <1>1, <1>3 DEF s

(* Where the digits behind a place end, with their suffixes.               *)
NumberEnd(t, i) ==
  i + Run(t, i + 1, Digit) + Run(t, i + 1 + Run(t, i + 1, Digit), Suffix)

LEMMA NumberEndIs ==
  ASSUME NEW t \in Text, NEW i \in 0 .. Len(t)
  PROVE  /\ (i < Len(t) /\ t[i + 1] \in Digit) => NumberEnd(t, i) = NumberEnd(t, i + 1)
         /\ ~(i < Len(t) /\ t[i + 1] \in Digit) => NumberEnd(t, i) = i + Run(t, i + 1, Suffix)
<1> DEFINE x == Run(t, i + 1, Digit)
           y == Run(t, i + 1 + 1, Digit)
<1>0. Len(t) \in Nat /\ i + 1 \in 1 .. Len(t) + 1
  BY TextLen
<1>1. x = IF i + 1 <= Len(t) /\ t[i + 1] \in Digit THEN 1 + y ELSE 0
  BY <1>0, RunStep, Zenon
<1>2. CASE i < Len(t) /\ t[i + 1] \in Digit
  <2>1. i + 1 + 1 \in 1 .. Len(t) + 1
    BY <1>0, <1>2
  <2>2. y \in Nat
    BY <2>1, RunBound, Zenon
  <2>3. x = 1 + y
    BY <1>0, <1>1, <1>2
  <2> HIDE DEF x, y
  <2>4. i + x = i + 1 + y /\ i + 1 + x = i + 1 + 1 + y
    BY <1>0, <2>2, <2>3
  <2> QED
    BY <1>2, <2>4 DEF NumberEnd, x, y
<1>3. CASE ~(i < Len(t) /\ t[i + 1] \in Digit)
  <2>1. x = 0
    BY <1>0, <1>1, <1>3
  <2> HIDE DEF x, y
  <2>2. i + x = i /\ i + 1 + x = i + 1
    BY <1>0, <2>1
  <2> QED
    BY <1>3, <2>2 DEF NumberEnd, x
<1> QED
  BY <1>2, <1>3

LEMMA DigitStep ==
  ASSUME NEW t, NEW f, Walk(t, f), NEW z \in {9, 23}, NEW i \in 0 .. Len(t),
         NEW s \in NumberStates(z),
         i = Len(t) \/ s \in Digital(z) \/ t[i + 1] # "x",
         i < Len(t) => f[i + 1][DigitState(z)] = Match1(z, NumberEnd(t, i + 1))
  PROVE  f[i][s] = Match1(z, NumberEnd(t, i))
<1> DEFINE c == t[i + 1]
<1>0. Len(t) \in Nat /\ t \in Text
  BY TextLen DEF Walk
<1>1. s \in GoingOn /\ Entry(yy_accept, s) = z /\ z # 0
  BY NumberAccepts
<1>2. (s \in Digital(z) \/ c # "x") =>
        To(s, c) = IF c \in Digit THEN DigitState(z)
                   ELSE IF c \in Suffix THEN SuffixState(z) ELSE JamState
  BY NumberGoes, Zenon
<1>3. /\ (i < Len(t) /\ c \in Digit) => NumberEnd(t, i) = NumberEnd(t, i + 1)
      /\ ~(i < Len(t) /\ c \in Digit) => NumberEnd(t, i) = i + Run(t, i + 1, Suffix)
  BY <1>0, NumberEndIs
<1>4. \A l : Match1(z, l).rule = z
  BY DEF Match1
<1>5. Run(t, i + 1, Suffix) = IF i + 1 <= Len(t) /\ c \in Suffix
                              THEN 1 + Run(t, i + 1 + 1, Suffix) ELSE 0
  <2>1. i + 1 \in 1 .. Len(t) + 1
    BY <1>0
  <2> QED
    BY <1>0, <2>1, RunStep, Zenon
<1>6. CASE i < Len(t) /\ c \in Digit
  <2>1. To(s, c) = DigitState(z)
    BY <1>2, <1>6
  <2>2. f[i + 1][DigitState(z)] = Match1(z, NumberEnd(t, i + 1))
    BY <1>6
  <2>3. f[i][s] = f[i + 1][DigitState(z)]
    BY <1>1, <1>4, <1>6, <2>1, <2>2, Moves
  <2> QED
    BY <1>3, <1>6, <2>2, <2>3
<1>7. CASE i < Len(t) /\ c \in Suffix
  <2>0. c \notin Digit
    BY <1>7, SuffixApart
  <2>1. To(s, c) = SuffixState(z)
    BY <1>2, <1>7, <2>0
  <2>2. f[i + 1][SuffixState(z)] = Match1(z, i + 1 + Run(t, i + 1 + 1, Suffix))
    <3>1. i + 1 \in 0 .. Len(t)
      BY <1>0, <1>7
    <3> QED
      BY <3>1, Suffixes DEF Span
  <2>3. f[i][s] = f[i + 1][SuffixState(z)]
    BY <1>1, <1>4, <1>7, <2>1, <2>2, Moves
  <2>4. i + 1 + 1 \in 1 .. Len(t) + 1
    BY <1>0, <1>7
  <2>5. Run(t, i + 1 + 1, Suffix) \in Nat
    BY <1>0, <2>4, RunBound, Zenon
  <2>6. i + 1 + Run(t, i + 1 + 1, Suffix) = i + Run(t, i + 1, Suffix)
    BY <1>0, <1>5, <1>7, <2>5
  <2> QED
    BY <1>3, <2>0, <2>2, <2>3, <2>6
<1>8. CASE i = Len(t) \/ (c \notin Digit /\ c \notin Suffix)
  <2>1. i = Len(t) \/ To(s, c) = JamState
    BY <1>2, <1>8
  <2>2. f[i][s] = Match1(z, i)
    BY <1>1, <2>1, Stops
  <2>3. Run(t, i + 1, Suffix) = 0
    BY <1>0, <1>5, <1>8
  <2>4. NumberEnd(t, i) = i
    BY <1>0, <1>3, <1>8, <2>3
  <2> QED
    BY <2>2, <2>4
<1> QED
  BY <1>0, <1>6, <1>7, <1>8

LEMMA DigitsAre ==
  ASSUME NEW t, NEW f, Walk(t, f), NEW z \in {9, 23}
  PROVE  \A i \in 0 .. Len(t) : \A s \in Digital(z) : f[i][s] = Match1(z, NumberEnd(t, i))
<1> DEFINE n == Len(t)
           d == DigitState(z)
           E == {i \in 0 .. n : f[i][d] = Match1(z, NumberEnd(t, i))}
<1>0. n \in Nat
  BY TextLen DEF Walk
<1>1. d \in Digital(z) /\ Digital(z) \subseteq NumberStates(z)
  BY NumberAccepts DEF NumberStates
<1>2. ASSUME NEW i \in 0 .. n, i < n => i + 1 \in E, NEW s \in Digital(z)
      PROVE  f[i][s] = Match1(z, NumberEnd(t, i))
  <2>1. i < Len(t) => f[i + 1][DigitState(z)] = Match1(z, NumberEnd(t, i + 1))
    BY <1>2
  <2>2. s \in NumberStates(z)
    BY <1>1
  <2>3. i = Len(t) \/ s \in Digital(z) \/ t[i + 1] # "x"
    OBVIOUS
  <2> QED
    BY <2>1, <2>2, <2>3, DigitStep
<1>3. \A i \in 0 .. n : (i < n => i + 1 \in E) => i \in E
  BY <1>1, <1>2
<1>4. n \in E /\ \A i \in 0 .. n - 1 : i + 1 \in E => i \in E
  <2> HIDE DEF E
  <2> QED
    BY <1>0, <1>3
<1>5. \A i \in 0 .. n : i \in E
  <2> HIDE DEF E, n
  <2> QED
    BY <1>0, <1>4, Downward
<1>6. ASSUME NEW i \in 0 .. n, NEW s \in Digital(z)
      PROVE  f[i][s] = Match1(z, NumberEnd(t, i))
  <2>1. i < n => i + 1 \in E
    <3> HIDE DEF E
    <3> QED
      BY <1>0, <1>5
  <2> HIDE DEF E
  <2> QED
    BY <1>2, <2>1
<1> QED
  BY <1>6

-----------------------------------------------------------------------------
(***************************************************************************)
(* Numbers: as many 0x as there are, the digits and their suffixes, and    *)
(* what is left of the prefixes when no digit follows.                     *)
(***************************************************************************)
LEMMA MaxIs ==
  ASSUME NEW S \in SUBSET Nat, NEW x \in S, \A y \in S : y <= x
  PROVE  Max(S) = x
<1>1. Max(S) \in S /\ \A y \in S : Max(S) >= y
  BY DEF Max
<1>2. Max(S) \in Nat /\ x \in Nat /\ Max(S) >= x /\ Max(S) <= x
  BY <1>1
<1> QED
  BY <1>2

PairsUpTo(t, k) == \A j \in 1 .. k : t[2*j - 1] = "0" /\ t[2*j] = "x"
PairBehind(t, k) == 2*k + 2 <= Len(t) /\ t[2*k + 1] = "0" /\ t[2*k + 2] = "x"

LEMMA PairsAre ==
  ASSUME NEW t \in Text, NEW k \in Nat, 2*k <= Len(t), PairsUpTo(t, k), ~PairBehind(t, k)
  PROVE  Max({m \in 0 .. Len(t) \div 2 : \A i \in 1 .. m : t[2*i - 1] = "0" /\ t[2*i] = "x"}) = k
<1> DEFINE S == {m \in 0 .. Len(t) \div 2 : \A i \in 1 .. m : t[2*i - 1] = "0" /\ t[2*i] = "x"}
<1>0. Len(t) \in Nat
  BY TextLen
<1>1. k \in 0 .. Len(t) \div 2
  BY <1>0
<1>2. k \in S
  BY <1>1 DEF PairsUpTo
<1>3. S \in SUBSET Nat
  OBVIOUS
<1>4. ASSUME NEW y \in S
      PROVE  y <= k
  <2>1. SUFFICES ASSUME y > k
                 PROVE  FALSE
    BY <1>3
  <2>2. y \in 0 .. Len(t) \div 2 /\ k + 1 \in 1 .. y
    BY <2>1
  <2>3. t[2*(k + 1) - 1] = "0" /\ t[2*(k + 1)] = "x"
    BY <2>2
  <2>4. 2*(k + 1) - 1 = 2*k + 1 /\ 2*(k + 1) = 2*k + 2
    OBVIOUS
  <2>5. 2*k + 2 <= Len(t)
    BY <1>0, <2>2
  <2> QED
    BY <2>3, <2>4, <2>5 DEF PairBehind
<1> HIDE DEF S
<1> QED
  BY <1>2, <1>3, <1>4, MaxIs DEF S

LEMMA NumberLenIs ==
  ASSUME NEW t \in Text, NEW k \in Nat, 2*k <= Len(t), PairsUpTo(t, k), ~PairBehind(t, k)
  PROVE  NumberLen(t) = IF Run(t, 2*k + 1, Digit) > 0 THEN NumberEnd(t, 2*k)
                        ELSE IF k > 0 THEN 2*k - 1 ELSE 0
<1> DEFINE d == Run(t, 2*k + 1, Digit)
<1>1. NumberLen(t) = IF d > 0 THEN 2*k + d + Run(t, 2*k + d + 1, Suffix)
                     ELSE IF k > 0 THEN 2*k - 1 ELSE 0
  BY PairsAre DEF NumberLen, Suffix
<1>2. d \in Nat
  <2>1. 2*k + 1 \in 1 .. Len(t) + 1
    BY TextLen
  <2> QED
    BY <2>1, RunBound, Zenon
<1>3. 2*k + d + 1 = 2*k + 1 + d
  <2> HIDE DEF d
  <2> QED
    BY <1>2
<1> QED
  BY <1>1, <1>3 DEF NumberEnd

LEMMA NumberEndMin ==
  ASSUME NEW t \in Text, NEW i \in 0 .. Len(t)
  PROVE  NumberEnd(t, i) \in Nat /\ NumberEnd(t, i) >= i
<1> DEFINE d == Run(t, i + 1, Digit)
           u == Run(t, i + 1 + d, Suffix)
<1>0. Len(t) \in Nat /\ i + 1 \in 1 .. Len(t) + 1
  BY TextLen
<1>1. d \in Nat /\ i + 1 + d <= Len(t) + 1
  BY <1>0, RunBound, Zenon
<1>2. u \in Nat
  <2> HIDE DEF d
  <2>1. i + 1 + d \in 1 .. Len(t) + 1
    BY <1>0, <1>1
  <2> QED
    BY <2>1, RunBound, Zenon
<1>3. NumberEnd(t, i) = i + d + u
  BY DEF NumberEnd
<1> HIDE DEF d, u
<1> QED
  BY <1>0, <1>1, <1>2, <1>3

(* Behind the 0 of a number that begins with k times 0x.                   *)
ZeroAt(t, k) == k \in Nat /\ 2*k + 1 <= Len(t) /\ PairsUpTo(t, k) /\ t[2*k + 1] = "0"

ZeroFound(t, f, z, k) ==
  \A s \in Zeros(z) : f[2*k + 1][s] = Match1(z, NumberLen(t)) /\ NumberLen(t) \in Nat \ {0}

LEMMA DigitBehind ==
  ASSUME NEW t \in Text, NEW i \in 0 .. Len(t), i < Len(t), t[i + 1] \in Digit
  PROVE  Run(t, i + 1, Digit) > 0 /\ NumberEnd(t, i) = NumberEnd(t, i + 1)
<1>0. Len(t) \in Nat /\ i + 1 \in 1 .. Len(t) + 1 /\ i + 1 + 1 \in 1 .. Len(t) + 1
  BY TextLen
<1>1. Run(t, i + 1, Digit) = IF i + 1 <= Len(t) /\ t[i + 1] \in Digit
                             THEN 1 + Run(t, i + 1 + 1, Digit) ELSE 0
  BY <1>0, RunStep, Zenon
<1>2. Run(t, i + 1 + 1, Digit) \in Nat
  BY <1>0, RunBound, Zenon
<1>3. NumberEnd(t, i) = NumberEnd(t, i + 1)
  BY NumberEndIs
<1> QED
  BY <1>0, <1>1, <1>2, <1>3

LEMMA ZeroStep ==
  ASSUME NEW t, NEW f, Walk(t, f), NEW z \in {9, 23}, NEW k, ZeroAt(t, k),
         ZeroAt(t, k + 1) => ZeroFound(t, f, z, k + 1)
  PROVE  ZeroFound(t, f, z, k)
<1> DEFINE i == 2*k + 1
<1>0. /\ Len(t) \in Nat /\ t \in Text /\ k \in Nat /\ i \in 1 .. Len(t) /\ t[i] = "0"
      /\ PairsUpTo(t, k) /\ 2*k \in 0 .. Len(t) /\ 2*k < Len(t) /\ i \in 0 .. Len(t)
  BY TextLen DEF Walk, ZeroAt
<1>1. SUFFICES ASSUME NEW s \in Zeros(z)
               PROVE  f[i][s] = Match1(z, NumberLen(t)) /\ NumberLen(t) \in Nat \ {0}
  BY DEF ZeroFound
<1>2. /\ s \in NumberStates(z) /\ s \in GoingOn /\ Entry(yy_accept, s) = z /\ z # 0
      /\ PairState(z) \in GoingOn /\ Entry(yy_accept, PairState(z)) = 0
      /\ DigitState(z) \in Digital(z) /\ ZeroState(z) \in Zeros(z)
  BY NumberAccepts DEF NumberStates
<1>3. "0" \in Digit /\ "x" \notin Digit
  BY DigitIs
<1>4. CASE i = Len(t) \/ t[i + 1] # "x"
  <2>1. ~PairBehind(t, k)
    BY <1>0, <1>4 DEF PairBehind
  <2>2. NumberLen(t) = IF Run(t, 2*k + 1, Digit) > 0 THEN NumberEnd(t, 2*k)
                       ELSE IF k > 0 THEN 2*k - 1 ELSE 0
    BY <1>0, <2>1, NumberLenIs
  <2>3. Run(t, 2*k + 1, Digit) > 0 /\ NumberEnd(t, 2*k) = NumberEnd(t, 2*k + 1)
    BY <1>0, <1>3, DigitBehind
  <2>4. NumberLen(t) = NumberEnd(t, i)
    BY <2>2, <2>3
  <2>5. NumberEnd(t, i) \in Nat /\ NumberEnd(t, i) >= i
    BY <1>0, NumberEndMin
  <2>6. i = Len(t) \/ s \in Digital(z) \/ t[i + 1] # "x"
    BY <1>4
  <2>7. i < Len(t) => f[i + 1][DigitState(z)] = Match1(z, NumberEnd(t, i + 1))
    <3>1. i < Len(t) => i + 1 \in 0 .. Len(t)
      BY <1>0
    <3> HIDE DEF i
    <3> QED
      BY <1>2, <3>1, DigitsAre
  <2>8. f[i][s] = Match1(z, NumberEnd(t, i))
    <3> HIDE DEF i
    <3> QED
      BY <1>0, <1>2, <2>6, <2>7, DigitStep
  <2> QED
    BY <1>0, <2>4, <2>5, <2>8
<1>5. CASE i < Len(t) /\ t[i + 1] = "x"
  <2> DEFINE p == PairState(z)
  <2>1. /\ i + 1 \in 0 .. Len(t) /\ 2*(k + 1) = i + 1 /\ 2*(k + 1) + 1 = i + 1 + 1
        /\ 2*(k + 1) <= Len(t) /\ k + 1 \in Nat
    BY <1>0, <1>5
  <2>2. PairsUpTo(t, k + 1)
    <3>1. SUFFICES ASSUME NEW j \in 1 .. k + 1
                   PROVE  t[2*j - 1] = "0" /\ t[2*j] = "x"
      BY DEF PairsUpTo
    <3>2. CASE j \in 1 .. k
      BY <1>0, <3>2 DEF PairsUpTo
    <3>3. CASE j = k + 1
      <4>1. 2*j - 1 = i /\ 2*j = i + 1
        BY <1>0, <3>3
      <4> QED
        BY <1>0, <1>5, <4>1
    <3> QED
      BY <1>0, <3>2, <3>3
  <2>3. To(s, t[i + 1]) = p
    BY <1>5, NumberGoes
  <2>4. To(p, t[i + 1 + 1]) = IF t[i + 1 + 1] = "0" THEN ZeroState(z)
                              ELSE IF t[i + 1 + 1] \in Digit THEN DigitState(z) ELSE JamState
    BY NumberGoes, Zenon
  <2>5. \A l : Match1(z, l).rule = z
    BY DEF Match1
  <2>6. CASE i + 1 < Len(t) /\ t[i + 1 + 1] = "0"
    <3>1. ZeroAt(t, k + 1)
      BY <1>0, <2>1, <2>2, <2>6 DEF ZeroAt
    <3>2. f[i + 1 + 1][ZeroState(z)] = Match1(z, NumberLen(t)) /\ NumberLen(t) \in Nat \ {0}
      BY <1>2, <2>1, <3>1 DEF ZeroFound
    <3> HIDE DEF i, p
    <3>3. p \in GoingOn /\ f[i + 1][p] = f[i + 1 + 1][ZeroState(z)]
      <4>1. p \in GoingOn
        BY <1>2 DEF p
      <4>2. To(p, t[i + 1 + 1]) = ZeroState(z)
        BY <2>4, <2>6
      <4> QED
        BY <1>2, <2>1, <2>5, <2>6, <3>2, <4>1, <4>2, Moves, SMTT(40)
    <3>4. f[i][s] = f[i + 1][p]
      BY <1>0, <1>2, <1>5, <2>3, <2>5, <3>2, <3>3, Moves, SMTT(40)
    <3> QED
      BY <3>2, <3>3, <3>4
  <2>7. CASE ~(i + 1 < Len(t) /\ t[i + 1 + 1] = "0")
    <3>1. ~PairBehind(t, k + 1)
      BY <1>0, <2>1, <2>7 DEF PairBehind
    <3>2. NumberLen(t) = IF Run(t, 2*(k + 1) + 1, Digit) > 0 THEN NumberEnd(t, 2*(k + 1))
                         ELSE IF k + 1 > 0 THEN 2*(k + 1) - 1 ELSE 0
      BY <1>0, <2>1, <2>2, <3>1, NumberLenIs
    <3>3. NumberLen(t) = IF Run(t, i + 1 + 1, Digit) > 0 THEN NumberEnd(t, i + 1) ELSE i
      BY <1>0, <2>1, <3>2
    <3> HIDE DEF i, p
    <3>4. CASE i + 1 < Len(t) /\ t[i + 1 + 1] \in Digit
      <4>1. Run(t, i + 1 + 1, Digit) > 0 /\ NumberEnd(t, i + 1) = NumberEnd(t, i + 1 + 1)
        BY <1>0, <2>1, <3>4, DigitBehind
      <4>2. i + 1 + 1 \in 0 .. Len(t)
        BY <1>0, <3>4
      <4>3. f[i + 1 + 1][DigitState(z)] = Match1(z, NumberEnd(t, i + 1 + 1))
        BY <1>2, <4>2, DigitsAre
      <4>4. NumberEnd(t, i + 1 + 1) >= i + 1 + 1
        BY <1>0, <4>2, NumberEndMin
      <4>5. f[i + 1][p] = f[i + 1 + 1][DigitState(z)]
        <5>1. p \in GoingOn /\ To(p, t[i + 1 + 1]) = DigitState(z)
          BY <1>2, <2>4, <2>7, <3>4 DEF p
        <5> QED
          BY <1>2, <2>1, <2>5, <3>4, <4>3, <5>1, Moves
      <4>6. f[i][s] = f[i + 1][p]
        BY <1>0, <1>2, <1>5, <2>3, <2>5, <4>3, <4>5, Moves
      <4>7. NumberLen(t) = NumberEnd(t, i + 1 + 1)
        BY <3>3, <4>1
      <4>8. NumberEnd(t, i + 1 + 1) \in Nat /\ i \in 1 .. Len(t)
        BY <1>0, <4>2, NumberEndMin
      <4>9. NumberLen(t) \in Nat \ {0}
        BY <1>0, <4>4, <4>7, <4>8
      <4> QED
        BY <4>3, <4>5, <4>6, <4>7, <4>9
    <3>5. CASE ~(i + 1 < Len(t) /\ t[i + 1 + 1] \in Digit)
      <4>1. Run(t, i + 1 + 1, Digit) = 0
        <5>1. i + 1 + 1 \in 1 .. Len(t) + 1
          BY <1>0, <1>5
        <5>2. Run(t, i + 1 + 1, Digit) = IF i + 1 + 1 <= Len(t) /\ t[i + 1 + 1] \in Digit
                                         THEN 1 + Run(t, i + 1 + 1 + 1, Digit) ELSE 0
          BY <1>0, <5>1, RunStep, Zenon
        <5> QED
          BY <1>0, <3>5, <5>2
      <4>2. NumberLen(t) = i
        BY <3>3, <4>1
      <4>3. i + 1 = Len(t) \/ To(p, t[i + 1 + 1]) = JamState
        BY <1>0, <2>1, <2>4, <2>7, <3>5
      <4>4. f[i + 1][p] = Match1(0, i + 1)
        <5>1. p \in GoingOn /\ Entry(yy_accept, p) = 0
          BY <1>2 DEF p
        <5> QED
          BY <2>1, <4>3, <5>1, Stops
      <4>5. f[i][s] = Match1(z, i)
        <5>1. Match1(0, i + 1).rule = 0
          BY DEF Match1
        <5>2. f[i + 1][To(s, t[i + 1])].rule = 0
          BY <2>3, <4>4, <5>1, Zenon
        <5>3. i \in 0 .. Len(t) /\ i < Len(t)
          BY <1>0, <1>5
        <5>4. f[i][s] = Match1(Entry(yy_accept, s), i)
          <6>1. Walk(t, f) /\ s \in GoingOn
            BY <1>2
          <6> QED
            BY <5>2, <5>3, <6>1, Falls
        <5> QED
          BY <1>2, <5>4
      <4> QED
        BY <1>0, <4>2, <4>5
    <3> QED
      BY <3>4, <3>5
  <2> QED
    BY <2>6, <2>7
<1> QED
  BY <1>0, <1>4, <1>5

LEMMA ZerosAre ==
  ASSUME NEW t, NEW f, Walk(t, f), NEW z \in {9, 23}
  PROVE  \A k : ZeroAt(t, k) => ZeroFound(t, f, z, k)
<1> DEFINE P(i) == \A k : ZeroAt(t, k) /\ 2*k + 1 >= i => ZeroFound(t, f, z, k)
           n == Len(t)
           E == {i \in 0 .. n : P(i)}
<1>0. n \in Nat
  BY TextLen DEF Walk
<1>1. P(n)
  <2>1. SUFFICES ASSUME NEW k, ZeroAt(t, k), 2*k + 1 >= n
                 PROVE  ZeroFound(t, f, z, k)
    OBVIOUS
  <2>2. ~ZeroAt(t, k + 1)
    BY <1>0, <2>1 DEF ZeroAt
  <2> QED
    BY <2>1, <2>2, ZeroStep
<1>2. ASSUME NEW i \in 0 .. n - 1, P(i + 1)
      PROVE  P(i)
  <2>1. SUFFICES ASSUME NEW k, ZeroAt(t, k), 2*k + 1 >= i
                 PROVE  ZeroFound(t, f, z, k)
    OBVIOUS
  <2>2. k + 1 \in Nat /\ 2*(k + 1) + 1 >= i + 1
    BY <1>0, <2>1 DEF ZeroAt
  <2>3. ZeroAt(t, k + 1) => ZeroFound(t, f, z, k + 1)
    BY <1>2, <2>2
  <2> QED
    BY <2>1, <2>3, ZeroStep
<1>3. n \in E /\ \A i \in 0 .. n - 1 : i + 1 \in E => i \in E
  <2> HIDE DEF P
  <2> QED
    BY <1>0, <1>1, <1>2
<1>4. \A i \in 0 .. n : i \in E
  <2> HIDE DEF E, n
  <2> QED
    BY <1>0, <1>3, Downward
<1>5. 0 \in 0 .. n
  BY <1>0
<1>6. P(0)
  <2> HIDE DEF P
  <2> QED
    BY <1>4, <1>5
<1> QED
  <2>1. \A k : ZeroAt(t, k) => 2*k + 1 >= 0
    BY DEF ZeroAt
  <2> QED
    BY <1>6, <2>1

LEMMA NumbersAre ==
  ASSUME NEW t, NEW f, Walk(t, f), NEW z \in {9, 23}, t # << >>
  PROVE  /\ t[1] = "0" =>
              \A s \in Zeros(z) : f[1][s] = Match1(z, NumberLen(t)) /\ NumberLen(t) \in Nat \ {0}
         /\ t[1] \in Digit \ {"0"} =>
              \A s \in Digital(z) : f[1][s] = Match1(z, NumberLen(t)) /\ NumberLen(t) \in Nat \ {0}
         /\ t[1] \notin Digit => NumberLen(t) = 0
<1>0. t \in Text /\ Len(t) \in Nat \ {0} /\ 0 \in 0 .. Len(t) /\ 1 \in 0 .. Len(t)
  BY TextLen DEF Walk, Text
<1>1. PairsUpTo(t, 0)
  BY DEF PairsUpTo
<1>2. CASE t[1] = "0"
  <2>1. ZeroAt(t, 0)
    BY <1>0, <1>1, <1>2 DEF ZeroAt
  <2>2. ZeroFound(t, f, z, 0)
    BY <2>1, ZerosAre
  <2>3. "0" \in Digit
    BY DigitIs
  <2> QED
    BY <1>2, <2>2, <2>3 DEF ZeroFound
<1>3. CASE t[1] # "0"
  <2>1. ~PairBehind(t, 0) /\ 0 \in Nat /\ 2*0 <= Len(t)
    BY <1>0, <1>3 DEF PairBehind
  <2>2. NumberLen(t) = IF Run(t, 2*0 + 1, Digit) > 0 THEN NumberEnd(t, 2*0)
                       ELSE IF 0 > 0 THEN 2*0 - 1 ELSE 0
    BY <1>0, <1>1, <2>1, NumberLenIs
  <2>3. NumberLen(t) = IF Run(t, 1, Digit) > 0 THEN NumberEnd(t, 0) ELSE 0
    BY <2>2
  <2>4. CASE t[1] \in Digit
    <3>1. Run(t, 0 + 1, Digit) > 0 /\ NumberEnd(t, 0) = NumberEnd(t, 0 + 1)
      BY <1>0, <2>4, DigitBehind
    <3>2. \A s \in Digital(z) : f[1][s] = Match1(z, NumberEnd(t, 1))
      BY <1>0, DigitsAre
    <3>3. NumberEnd(t, 1) \in Nat \ {0}
      BY <1>0, NumberEndMin
    <3>4. NumberLen(t) = NumberEnd(t, 1)
      BY <2>3, <3>1
    <3> QED
      BY <1>3, <2>4, <3>2, <3>3, <3>4
  <2>5. CASE t[1] \notin Digit
    <3>1. Run(t, 1, Digit) = 0
      <4>1. 1 \in 1 .. Len(t) + 1
        BY <1>0
      <4>2. Run(t, 1, Digit) = IF 1 <= Len(t) /\ t[1] \in Digit
                               THEN 1 + Run(t, 1 + 1, Digit) ELSE 0
        BY <1>0, <4>1, RunStep, Zenon
      <4> QED
        BY <2>5, <4>2
    <3> QED
      BY <1>3, <2>3, <2>5, <3>1
  <2> QED
    BY <2>4, <2>5
<1> QED
  BY <1>2, <1>3

-----------------------------------------------------------------------------
(***************************************************************************)
(* The keyword of an include, and the words that are none.                 *)
(***************************************************************************)
WordEnd(t, i) == i + Run(t, i + 1, AlphaNum)
KeyRest(t, i) == Len(t) >= 7 /\ \A j \in i + 1 .. 7 : t[j] = Keyword[j]
KeyFound(t, i) ==
  IF KeyRest(t, i) /\ WordEnd(t, i) = 7 THEN Match1(19, 7) ELSE Match1(21, WordEnd(t, i))

(* The keyword's states, in the order of its letters.                      *)
KeyState  == << 39, 53, 58, 59, 60, 61, 62 >>
WordState == 52

LEMMA KeyLetters ==
  /\ Keyword[1] = "i" /\ Keyword[2] = "n" /\ Keyword[3] = "c" /\ Keyword[4] = "l"
  /\ Keyword[5] = "u" /\ Keyword[6] = "d" /\ Keyword[7] = "e"
  /\ \A j \in 1 .. 7 : Keyword[j] \in AlphaNum
BY DEF Keyword, AlphaNum, Alpha, Lower

LEMMA WordEndIs ==
  ASSUME NEW t \in Text, NEW i \in 0 .. Len(t)
  PROVE  /\ WordEnd(t, i) = IF i < Len(t) /\ t[i + 1] \in AlphaNum THEN WordEnd(t, i + 1) ELSE i
         /\ WordEnd(t, i) \in Nat /\ WordEnd(t, i) >= i
<1>0. Len(t) \in Nat /\ i + 1 \in 1 .. Len(t) + 1
  BY TextLen
<1>1. Run(t, i + 1, AlphaNum) = IF i + 1 <= Len(t) /\ t[i + 1] \in AlphaNum
                                THEN 1 + Run(t, i + 1 + 1, AlphaNum) ELSE 0
  BY <1>0, RunStep, Zenon
<1>2. Run(t, i + 1, AlphaNum) \in Nat
  BY <1>0, RunBound, Zenon
<1>3. CASE i < Len(t) /\ t[i + 1] \in AlphaNum
  <2>1. i + 1 + 1 \in 1 .. Len(t) + 1
    BY <1>0, <1>3
  <2>2. Run(t, i + 1 + 1, AlphaNum) \in Nat
    BY <2>1, RunBound, Zenon
  <2>3. Run(t, i + 1, AlphaNum) = 1 + Run(t, i + 1 + 1, AlphaNum)
    BY <1>0, <1>1, <1>3
  <2>4. i + Run(t, i + 1, AlphaNum) = i + 1 + Run(t, i + 1 + 1, AlphaNum)
    BY <1>0, <2>2, <2>3
  <2> QED
    BY <1>0, <1>2, <1>3, <2>4 DEF WordEnd
<1>4. CASE ~(i < Len(t) /\ t[i + 1] \in AlphaNum)
  <2>1. Run(t, i + 1, AlphaNum) = 0
    BY <1>0, <1>1, <1>4
  <2> QED
    BY <1>4, <2>1 DEF WordEnd
<1> QED
  BY <1>3, <1>4

LEMMA WordsAre ==
  ASSUME NEW t, NEW f, Walk(t, f), NEW i \in 0 .. Len(t)
  PROVE  f[i][WordState] = Match1(21, WordEnd(t, i))
<1>1. 52 \in {38, 52}
  OBVIOUS
<1>2. \A j \in 0 .. Len(t) : f[j][52] = Span(21, t, j, AlphaNum)
  BY <1>1, MacroWords
<1> QED
  BY <1>2 DEF Span, WordEnd, WordState

KeyMove(s, i, q) ==
  \A c : To(s, c) = IF c = Keyword[i + 1] THEN q
                    ELSE IF c \in AlphaNum THEN WordState ELSE JamState

LEMMA KeyStep ==
  ASSUME NEW t, NEW f, Walk(t, f), NEW i \in 0 .. Len(t), NEW s \in GoingOn, NEW q, i < 7,
         Entry(yy_accept, s) = 21,
         KeyMove(s, i, q),
         i < Len(t) => f[i + 1][q] = KeyFound(t, i + 1)
  PROVE  f[i][s] = KeyFound(t, i)
<1> DEFINE c == t[i + 1]
           w == WordState
<1>0. Len(t) \in Nat /\ t \in Text
  BY TextLen DEF Walk
<1>1. To(s, c) = IF c = Keyword[i + 1] THEN q ELSE IF c \in AlphaNum THEN w ELSE JamState
  BY DEF KeyMove
<1>2. WordEnd(t, i) = IF i < Len(t) /\ c \in AlphaNum THEN WordEnd(t, i + 1) ELSE i
  BY <1>0, WordEndIs
<1>3. \A r, l : Match1(r, l).rule = r
  BY DEF Match1
<1>4. i + 1 \in 1 .. 7 /\ Keyword[i + 1] \in AlphaNum
  BY <1>0, KeyLetters
<1>5. i < Len(t) => f[i + 1][w] = Match1(21, WordEnd(t, i + 1))
  <2>1. i < Len(t) => i + 1 \in 0 .. Len(t)
    BY <1>0
  <2> QED
    BY <2>1, WordsAre
<1>6. KeyRest(t, i) <=> (i < Len(t) /\ c = Keyword[i + 1] /\ KeyRest(t, i + 1))
  <2>1. ASSUME KeyRest(t, i)
        PROVE  i < Len(t) /\ c = Keyword[i + 1] /\ KeyRest(t, i + 1)
    BY <1>0, <1>4, <2>1 DEF KeyRest
  <2>2. ASSUME i < Len(t), c = Keyword[i + 1], KeyRest(t, i + 1)
        PROVE  KeyRest(t, i)
    <3>1. ASSUME NEW j \in i + 1 .. 7
          PROVE  t[j] = Keyword[j]
      <4>1. j = i + 1 \/ j \in i + 1 + 1 .. 7
        BY <1>0
      <4> QED
        BY <2>2, <4>1 DEF KeyRest
    <3> QED
      BY <2>2, <3>1 DEF KeyRest
  <2> QED
    BY <2>1, <2>2
<1> HIDE DEF w
<1>7. CASE i < Len(t) /\ c = Keyword[i + 1]
  <2>1. KeyFound(t, i) = KeyFound(t, i + 1)
    BY <1>2, <1>4, <1>6, <1>7 DEF KeyFound
  <2>2. To(s, c) = q /\ f[i + 1][q] = KeyFound(t, i + 1)
    BY <1>1, <1>7
  <2>3. KeyFound(t, i + 1).rule # 0
    BY <1>3 DEF KeyFound
  <2>4. f[i][s] = f[i + 1][q]
    BY <1>7, <2>2, <2>3, Moves
  <2> QED
    BY <2>1, <2>2, <2>4
<1>8. CASE i < Len(t) /\ c # Keyword[i + 1] /\ c \in AlphaNum
  <2>1. KeyFound(t, i) = Match1(21, WordEnd(t, i + 1))
    BY <1>2, <1>6, <1>8 DEF KeyFound
  <2>2. To(s, c) = w /\ f[i + 1][w] = Match1(21, WordEnd(t, i + 1))
    BY <1>1, <1>5, <1>8
  <2>3. f[i + 1][w].rule # 0
    BY <1>3, <2>2
  <2>4. f[i][s] = f[i + 1][w]
    BY <1>8, <2>2, <2>3, Moves
  <2> QED
    BY <2>1, <2>2, <2>4
<1>9. CASE i = Len(t) \/ (c # Keyword[i + 1] /\ c \notin AlphaNum)
  <2>1. KeyFound(t, i) = Match1(21, i)
    BY <1>0, <1>2, <1>6, <1>9 DEF KeyFound
  <2>2. i = Len(t) \/ To(s, c) = JamState
    BY <1>1, <1>9
  <2>3. f[i][s] = Match1(Entry(yy_accept, s), i)
    BY <2>2, Stops
  <2> QED
    BY <2>1, <2>3
<1> QED
  BY <1>0, <1>7, <1>8, <1>9

LEMMA KeyEnds ==
  ASSUME NEW t, NEW f, Walk(t, f), Len(t) >= 7
  PROVE  f[7][62] = KeyFound(t, 7)
<1> DEFINE s == 62
           i == 7
           w == WordState
           c == t[i + 1]
<1>0. /\ Len(t) \in Nat /\ t \in Text /\ i \in 0 .. Len(t)
      /\ i < Len(t) => i + 1 \in 0 .. Len(t)
  BY TextLen DEF Walk
<1>1. s \in GoingOn /\ Entry(yy_accept, s) = 19
  BY AcceptsAre DEF GoingOn
<1>2. To(s, c) = IF c \in AlphaNum THEN w ELSE JamState
  BY WordTo DEF JamState, WordState
<1>3. KeyRest(t, i)
  BY DEF KeyRest
<1>4. i < Len(t) => f[i + 1][w] = Match1(21, WordEnd(t, i + 1))
  BY <1>0, WordsAre
<1>5. /\ WordEnd(t, i) = IF i < Len(t) /\ c \in AlphaNum THEN WordEnd(t, i + 1) ELSE i
      /\ i < Len(t) => WordEnd(t, i + 1) >= i + 1 /\ WordEnd(t, i + 1) \in Nat
  BY <1>0, WordEndIs
<1>6. \A r, l : Match1(r, l).rule = r
  BY DEF Match1
<1>7. KeyFound(t, i) = IF WordEnd(t, i) = i THEN Match1(19, i) ELSE Match1(21, WordEnd(t, i))
  BY <1>3 DEF KeyFound
<1> HIDE DEF s, w
<1>8. CASE i < Len(t) /\ c \in AlphaNum
  <2>1. KeyFound(t, i) = Match1(21, WordEnd(t, i + 1))
    BY <1>5, <1>7, <1>8
  <2>2. f[i + 1][w].rule # 0
    BY <1>4, <1>6, <1>8
  <2>3. f[i][s] = f[i + 1][w]
    BY <1>0, <1>1, <1>2, <1>8, <2>2, Moves
  <2> QED
    BY <1>4, <1>8, <2>1, <2>3 DEF s
<1>9. CASE i = Len(t)
  <2>1. f[i][s] = Match1(Entry(yy_accept, s), i)
    <3>1. i = Len(t) \/ To(s, t[i + 1]) = JamState
      BY <1>9
    <3>2. i \in 0 .. Len(t)
      BY <1>0
    <3> HIDE DEF i
    <3>3. s \in GoingOn
      BY <1>1
    <3> QED
      BY <3>1, <3>2, <3>3, Stops, Zenon
  <2>2. WordEnd(t, i) = i
    <3>1. i \in Nat
      OBVIOUS
    <3> HIDE DEF i
    <3>2. ~(i < i)
      BY <3>1
    <3> QED
      BY <1>5, <1>9, <3>2, Zenon
  <2> QED
    BY <1>1, <1>7, <2>1, <2>2 DEF s
<1>10. CASE i < Len(t) /\ c \notin AlphaNum
  <2>1. To(s, c) = JamState
    BY <1>2, <1>10
  <2>2. f[i][s] = Match1(Entry(yy_accept, s), i)
    BY <1>0, <1>1, <1>10, <2>1, Jams
  <2> QED
    BY <1>1, <1>5, <1>7, <1>10, <2>2 DEF s
<1>11. i = Len(t) \/ i < Len(t)
  <2> DEFINE n == Len(t)
  <2>1. n \in Nat
    BY <1>0
  <2>2. n >= 7
    OBVIOUS
  <2> HIDE DEF n
  <2>3. n = 7 \/ 7 < n
    BY <2>1, <2>2
  <2> QED
    BY <2>3 DEF n
<1> QED
  BY <1>8, <1>9, <1>10, <1>11

LEMMA KeyStates ==
  ASSUME NEW i \in 1 .. 6
  PROVE  /\ KeyState[i] \in GoingOn /\ Entry(yy_accept, KeyState[i]) = 21
         /\ KeyMove(KeyState[i], i, KeyState[i + 1])
<1>1. KeyState[i] \in {39, 53, 58, 59, 60, 61}
  BY DEF KeyState
<1>2. KeyState[i] \in GoingOn
  BY <1>1 DEF GoingOn
<1>3. Entry(yy_accept, KeyState[i]) = 21
  BY <1>1, AcceptsAre
<1>4. ASSUME NEW c
      PROVE  To(KeyState[i], c) = IF c = Keyword[i + 1] THEN KeyState[i + 1]
                                  ELSE IF c \in AlphaNum THEN WordState ELSE JamState
  <2>1. /\ To(39, c) = IF c = "n" THEN 53 ELSE IF c \in AlphaNum THEN 52 ELSE 63
        /\ To(53, c) = IF c = "c" THEN 58 ELSE IF c \in AlphaNum THEN 52 ELSE 63
        /\ To(58, c) = IF c = "l" THEN 59 ELSE IF c \in AlphaNum THEN 52 ELSE 63
        /\ To(59, c) = IF c = "u" THEN 60 ELSE IF c \in AlphaNum THEN 52 ELSE 63
        /\ To(60, c) = IF c = "d" THEN 61 ELSE IF c \in AlphaNum THEN 52 ELSE 63
        /\ To(61, c) = IF c = "e" THEN 62 ELSE IF c \in AlphaNum THEN 52 ELSE 63
    BY KeyTo
  <2>2. /\ Keyword[2] = "n" /\ Keyword[3] = "c" /\ Keyword[4] = "l"
        /\ Keyword[5] = "u" /\ Keyword[6] = "d" /\ Keyword[7] = "e"
    BY KeyLetters
  <2>3. /\ KeyState[1] = 39 /\ KeyState[2] = 53 /\ KeyState[3] = 58 /\ KeyState[4] = 59
        /\ KeyState[5] = 60 /\ KeyState[6] = 61 /\ KeyState[7] = 62
    BY DEF KeyState
  <2>4. CASE i = 1
    BY <2>1, <2>2, <2>3, <2>4 DEF WordState, JamState
  <2>5. CASE i = 2
    BY <2>1, <2>2, <2>3, <2>5 DEF WordState, JamState
  <2>6. CASE i = 3
    BY <2>1, <2>2, <2>3, <2>6 DEF WordState, JamState
  <2>7. CASE i = 4
    BY <2>1, <2>2, <2>3, <2>7 DEF WordState, JamState
  <2>8. CASE i = 5
    BY <2>1, <2>2, <2>3, <2>8 DEF WordState, JamState
  <2>9. CASE i = 6
    BY <2>1, <2>2, <2>3, <2>9 DEF WordState, JamState
  <2> QED
    BY <2>4, <2>5, <2>6, <2>7, <2>8, <2>9
<1> QED
  BY <1>2, <1>3, <1>4 DEF KeyMove

LEMMA KeyChain ==
  ASSUME NEW t, NEW f, Walk(t, f)
  PROVE  1 <= Len(t) => f[1][39] = KeyFound(t, 1)
<1> DEFINE n == Len(t)
           F(i) == i <= n => f[i][KeyState[i]] = KeyFound(t, i)
           E == {i \in 0 .. 7 : i >= 1 => F(i)}
<1>0. n \in Nat
  BY TextLen DEF Walk
<1>1. F(7)
  <2>1. KeyState[7] = 62
    BY DEF KeyState
  <2> QED
    BY <2>1, KeyEnds
<1>2. ASSUME NEW i \in 1 .. 6, F(i + 1)
      PROVE  F(i)
  <2>1. SUFFICES ASSUME i <= n
                 PROVE  f[i][KeyState[i]] = KeyFound(t, i)
    OBVIOUS
  <2>2. i \in 0 .. Len(t) /\ i < 7
    BY <1>0, <2>1
  <2>3. i < Len(t) => f[i + 1][KeyState[i + 1]] = KeyFound(t, i + 1)
    BY <1>0, <1>2
  <2>4. KeyState[i] \in GoingOn
    BY KeyStates
  <2>5. Entry(yy_accept, KeyState[i]) = 21
    BY KeyStates
  <2>6. KeyMove(KeyState[i], i, KeyState[i + 1])
    BY KeyStates
  <2> QED
    BY <2>2, <2>3, <2>4, <2>5, <2>6, KeyStep, Zenon
<1>3. 7 \in E /\ \A i \in 0 .. 7 - 1 : i + 1 \in E => i \in E
  <2> HIDE DEF F
  <2> QED
    BY <1>1, <1>2
<1>4. \A i \in 0 .. 7 : i \in E
  <2> HIDE DEF E
  <2> QED
    BY <1>3, Downward
<1>5. F(1)
  <2> HIDE DEF F
  <2> QED
    BY <1>4
<1>6. KeyState[1] = 39
  BY DEF KeyState
<1> QED
  BY <1>5, <1>6

LEMMA KeywordIs ==
  ASSUME NEW t \in Text
  PROVE  /\ KeywordLen(t) = IF KeyRest(t, 0) THEN 7 ELSE 0
         /\ KeyRest(t, 0) => WordEnd(t, 0) >= 7
<1>0. Len(t) \in Nat
  BY TextLen
<1>1. Len(Keyword) = 7 /\ Keyword = [j \in 1 .. 7 |-> Keyword[j]]
  BY DEF Keyword
<1>2. ASSUME Len(t) >= 7
      PROVE  SubSeq(t, 1, 7) = Keyword <=> \A j \in 1 .. 7 : t[j] = Keyword[j]
  <2>1. SubSeq(t, 1, 7) = [j \in 1 .. 7 |-> t[j]]
    <3>1. SubSeq(t, 1, 7) \in Seq(STRING) /\ Len(SubSeq(t, 1, 7)) = 7
      BY <1>0, <1>2 DEF Text
    <3>2. \A j \in 1 .. 7 : SubSeq(t, 1, 7)[j] = t[j]
      BY <1>0, <1>2 DEF Text
    <3>3. SubSeq(t, 1, 7) = [j \in 1 .. 7 |-> SubSeq(t, 1, 7)[j]]
      <4> DEFINE u == SubSeq(t, 1, 7)
      <4> HIDE DEF u
      <4>1. u \in Seq(STRING) /\ Len(u) = 7
        BY <3>1 DEF u
      <4>2. u = [j \in 1 .. 7 |-> u[j]]
        BY <4>1
      <4> QED
        BY <4>2 DEF u
    <3> QED
      BY <3>2, <3>3
  <2> DEFINE g == [j \in 1 .. 7 |-> t[j]]
             k == [j \in 1 .. 7 |-> Keyword[j]]
  <2>2. \A j \in 1 .. 7 : g[j] = t[j] /\ k[j] = Keyword[j]
    OBVIOUS
  <2>3. g = k <=> \A j \in 1 .. 7 : t[j] = Keyword[j]
    <3>1. ASSUME g = k
          PROVE  \A j \in 1 .. 7 : t[j] = Keyword[j]
      <4> HIDE DEF g, k
      <4> QED
        BY <2>2, <3>1, Zenon
    <3>2. ASSUME \A j \in 1 .. 7 : t[j] = Keyword[j]
          PROVE  g = k
      BY <3>2, Zenon
    <3> QED
      BY <3>1, <3>2
  <2> QED
    BY <1>1, <2>1, <2>3, Zenon
<1>3. KeywordLen(t) = IF KeyRest(t, 0) THEN 7 ELSE 0
  <2>1. 0 + 1 = 1
    OBVIOUS
  <2> QED
    BY <1>2, <2>1 DEF KeywordLen, KeyRest
<1>4. ASSUME KeyRest(t, 0)
      PROVE  WordEnd(t, 0) >= 7
  <2> DEFINE x == Run(t, 1, AlphaNum)
  <2>1. 1 \in 1 .. Len(t) + 1
    BY <1>0
  <2>2. /\ x \in Nat
        /\ 1 + x <= Len(t) => t[1 + x] \notin AlphaNum
    BY <2>1, RunBound, Zenon
  <2>3. WordEnd(t, 0) = x
    <3>1. x \in Nat => 0 + x = x
      OBVIOUS
    <3> QED
      BY <2>2, <3>1 DEF WordEnd
  <2> HIDE DEF x
  <2>4. \A j \in 1 .. 7 : j <= Len(t) /\ t[j] \in AlphaNum
    BY <1>0, <1>4, KeyLetters DEF KeyRest
  <2>5. x < 7 => 1 + x \in 1 .. 7
    BY <2>2
  <2> QED
    BY <2>2, <2>3, <2>4, <2>5
<1> QED
  BY <1>3, <1>4

(***************************************************************************)
(* The lengths of the matches of the rules, by the class of the first      *)
(* character.                                                              *)
(***************************************************************************)
LEMMA RuleLens ==
  ASSUME NEW t
  PROVE  /\ \A r \in {1, 25} : MatchLen(r, t) = One(t, {"#"})
         /\ MatchLen(2, t) = One(t, {"!"})
         /\ \A r \in {3, 21} : MatchLen(r, t) = WordLen(t)
         /\ MatchLen(4, t) = One(t, {"@"})
         /\ MatchLen(5, t) = One(t, {"="})
         /\ MatchLen(6, t) = One(t, {"["})
         /\ MatchLen(7, t) = One(t, {"]"})
         /\ MatchLen(8, t) = One(t, {"+", "-"})
         /\ \A r \in {9, 23} : MatchLen(r, t) = NumberLen(t)
         /\ \A r \in {10, 17, 22} : MatchLen(r, t) = Run(t, 1, Space)
         /\ \A r \in {11, 20} : MatchLen(r, t) = One(t, {"$"})
         /\ MatchLen(12, t) = One(t, {Comma})
         /\ \A r \in {13, 24, 26} : MatchLen(r, t) = One(t, {"\n"})
         /\ \A r \in {14, 16} : MatchLen(r, t) = IF NotNewline(t, 1) > 0 THEN 1 ELSE 0
         /\ MatchLen(15, t) = One(t, RegChar)
         /\ MatchLen(18, t) = FileNameLen(t)
         /\ MatchLen(19, t) = KeywordLen(t)
         /\ MatchLen(27, t) = NotNewline(t, 1)
         /\ MatchLen(28, t) = IF t = << >> THEN 0 ELSE 1
<1> DEFINE V1 == One(t, {"#"})
           V2 == One(t, {"!"})
           V3 == WordLen(t)
           V4 == One(t, {"@"})
           V5 == One(t, {"="})
           V6 == One(t, {"["})
           V7 == One(t, {"]"})
           V8 == One(t, {"+", "-"})
           V9 == NumberLen(t)
           V10 == Run(t, 1, Space)
           V11 == One(t, {"$"})
           V12 == One(t, {Comma})
           V13 == One(t, {"\n"})
           V14 == IF NotNewline(t, 1) > 0 THEN 1 ELSE 0
           V15 == One(t, RegChar)
           V16 == FileNameLen(t)
           V17 == KeywordLen(t)
           V18 == NotNewline(t, 1)
           V19 == IF t = << >> THEN 0 ELSE 1
<1>0. \A r : MatchLen(r, t) =
       CASE r \in {1, 25} -> V1
         [] r = 2 -> V2
         [] r \in {3, 21} -> V3
         [] r = 4 -> V4
         [] r = 5 -> V5
         [] r = 6 -> V6
         [] r = 7 -> V7
         [] r = 8 -> V8
         [] r \in {9, 23} -> V9
         [] r \in {10, 17, 22} -> V10
         [] r \in {11, 20} -> V11
         [] r = 12 -> V12
         [] r \in {13, 24, 26} -> V13
         [] r \in {14, 16} -> V14
         [] r = 15 -> V15
         [] r = 18 -> V16
         [] r = 19 -> V17
         [] r = 27 -> V18
         [] r = 28 -> V19
  BY Zenon DEF MatchLen, Comma
<1> HIDE DEF V1, V2, V3, V4, V5, V6, V7, V8, V9, V10, V11, V12, V13, V14, V15, V16, V17, V18, V19
<1>1. \A r \in {1, 25} : MatchLen(r, t) = V1
  BY <1>0
<1>2. MatchLen(2, t) = V2
  BY <1>0
<1>3. \A r \in {3, 21} : MatchLen(r, t) = V3
  BY <1>0
<1>4. MatchLen(4, t) = V4
  BY <1>0
<1>5. MatchLen(5, t) = V5
  BY <1>0
<1>6. MatchLen(6, t) = V6
  BY <1>0
<1>7. MatchLen(7, t) = V7
  BY <1>0
<1>8. MatchLen(8, t) = V8
  BY <1>0
<1>9. \A r \in {9, 23} : MatchLen(r, t) = V9
  BY <1>0
<1>10. \A r \in {10, 17, 22} : MatchLen(r, t) = V10
  BY <1>0
<1>11. \A r \in {11, 20} : MatchLen(r, t) = V11
  BY <1>0
<1>12. MatchLen(12, t) = V12
  BY <1>0
<1>13. \A r \in {13, 24, 26} : MatchLen(r, t) = V13
  BY <1>0
<1>14. \A r \in {14, 16} : MatchLen(r, t) = V14
  BY <1>0
<1>15. MatchLen(15, t) = V15
  BY <1>0
<1>16. MatchLen(18, t) = V16
  BY <1>0
<1>17. MatchLen(19, t) = V17
  BY <1>0
<1>18. MatchLen(27, t) = V18
  BY <1>0
<1>19. MatchLen(28, t) = V19
  BY <1>0
<1> QED
  BY <1>1, <1>2, <1>3, <1>4, <1>5, <1>6, <1>7, <1>8, <1>9, <1>10, <1>11, <1>12, <1>13, <1>14, <1>15, <1>16, <1>17, <1>18, <1>19, Zenon
     DEF V1, V2, V3, V4, V5, V6, V7, V8, V9, V10, V11, V12, V13, V14, V15, V16, V17, V18, V19

(* The run at the head of a text, if there is one.                         *)
LEMMA RunAtHead ==
  ASSUME NEW t \in Text, t # << >>, NEW set
  PROVE  /\ Run(t, 1, set) \in Nat
         /\ t[1] \in set => Run(t, 1, set) >= 1
         /\ t[1] \notin set => Run(t, 1, set) = 0
         /\ Run(t, 1, set) = 0 + Run(t, 0 + 1, set)
         /\ t[1] \in set => Run(t, 1, set) = 1 + Run(t, 1 + 1, set)
<1>0. Len(t) \in Nat \ {0}
  BY TextLen DEF Text
<1>1. 1 \in 1 .. Len(t) + 1 /\ 2 \in 1 .. Len(t) + 1 /\ 1 <= Len(t)
  BY <1>0
<1>2. Run(t, 1, set) = IF 1 <= Len(t) /\ t[1] \in set THEN 1 + Run(t, 1 + 1, set) ELSE 0
  BY <1>1, RunStep, Zenon
<1>3. Run(t, 1, set) \in Nat /\ Run(t, 2, set) \in Nat
  BY <1>1, RunBound, Zenon
<1> QED
  BY <1>1, <1>2, <1>3

LEMMA LinesAtHead ==
  ASSUME NEW t \in Text, t # << >>
  PROVE  /\ NotNewline(t, 1) \in Nat /\ FileNameLen(t) \in Nat
         /\ IF t[1] = "\n" THEN NotNewline(t, 1) = 0 ELSE NotNewline(t, 1) >= 1
         /\ IF t[1] \in Space \cup {"\n"} THEN FileNameLen(t) = 0 ELSE FileNameLen(t) >= 1
<1> DEFINE N == NotIn({"\n"})
           S == NotIn(Space \cup {"\n"})
<1>0. t[1] \in STRING
  BY TextLen DEF Text
<1>1. (t[1] \in N <=> t[1] # "\n") /\ (t[1] \in S <=> t[1] \notin Space \cup {"\n"})
  BY <1>0 DEF NotIn
<1>2. NotNewline(t, 1) = Run(t, 1, N) /\ FileNameLen(t) = Run(t, 1, S)
  BY LinesRun
<1> HIDE DEF N, S
<1>3. /\ Run(t, 1, N) \in Nat
      /\ t[1] \in N => Run(t, 1, N) >= 1
      /\ t[1] \notin N => Run(t, 1, N) = 0
  BY RunAtHead, Zenon
<1>4. /\ Run(t, 1, S) \in Nat
      /\ t[1] \in S => Run(t, 1, S) >= 1
      /\ t[1] \notin S => Run(t, 1, S) = 0
  BY RunAtHead, Zenon
<1> QED
  BY <1>1, <1>2, <1>3, <1>4

LEMMA WordAtHead ==
  ASSUME WordMarks = {}, NEW t \in Text, t # << >>
  PROVE  WordLen(t) = IF t[1] \in Alpha THEN Run(t, 1, AlphaNum) ELSE 0
<1>1. Alpha \cup WordMarks = Alpha /\ Alpha \cup WordMarks \cup Digit = AlphaNum
  BY DEF AlphaNum
<1>2. One(t, Alpha) = IF t[1] \in Alpha THEN 1 ELSE 0
  BY OneIs
<1>3. WordLen(t) = IF One(t, Alpha) = 0 THEN 0 ELSE Run(t, 1, AlphaNum)
  BY <1>1, Zenon DEF WordLen
<1> QED
  BY <1>2, <1>3

(* The rules of one character match it.                                     *)
Ones(t, k) ==
  /\ One(t, {"#"}) = IF k = 5 THEN 1 ELSE 0
  /\ One(t, {"!"}) = IF k = 4 THEN 1 ELSE 0
  /\ One(t, {"@"}) = IF k = 13 THEN 1 ELSE 0
  /\ One(t, {"="}) = IF k = 12 THEN 1 ELSE 0
  /\ One(t, {"["}) = IF k = 18 THEN 1 ELSE 0
  /\ One(t, {"]"}) = IF k = 19 THEN 1 ELSE 0
  /\ One(t, {"+", "-"}) = IF k = 7 THEN 1 ELSE 0
  /\ One(t, {"$"}) = IF k = 6 THEN 1 ELSE 0
  /\ One(t, {Comma}) = IF k = 8 THEN 1 ELSE 0
  /\ One(t, {"\n"}) = IF k = 3 THEN 1 ELSE 0
  /\ One(t, RegChar) = IF k \in {9, 10, 14, 17, 20, 21} THEN 1 ELSE 0

LEMMA OnesAre ==
  ASSUME NEW t \in Text, t # << >>, NEW k, k = Class(t[1])
  PROVE  Ones(t, k)
<1> DEFINE c == t[1]
<1>1. /\ k = 3 <=> c \in {"\n"}
      /\ k = 4 <=> c \in {"!"}
      /\ k = 5 <=> c \in {"#"}
      /\ k = 6 <=> c \in {"$"}
      /\ k = 7 <=> c \in {"+", "-"}
      /\ k = 8 <=> c \in {Comma}
      /\ k = 12 <=> c \in {"="}
      /\ k = 13 <=> c \in {"@"}
      /\ k = 18 <=> c \in {"["}
      /\ k = 19 <=> c \in {"]"}
      /\ k \in {9, 10, 14, 17, 20, 21} <=> c \in RegChar
  <2>1. Kind(c, k)
    BY Kinds
  <2> QED
    BY <2>1 DEF Kind
<1>2. \A set : One(t, set) = IF c \in set THEN 1 ELSE 0
  BY OneIs
<1> HIDE DEF c
<1> QED
  BY <1>1, <1>2, SMTT(40) DEF Ones

WordClasses == 14 .. 17 \cup 20 .. 27

(* The rule and the length that win in a start condition.                  *)
Wins(all, t, r, l) ==
  /\ r \in all /\ MatchLen(r, t) = l
  /\ \A o \in all : MatchLen(o, t) \in Nat /\ MatchLen(o, t) <= l
  /\ \A o \in all : MatchLen(o, t) = l => r <= o

LEMMA WinnerIs ==
  ASSUME NEW all \in SUBSET Nat, all = Rules(start) \cup {28},
         NEW t, NEW r, NEW l, Wins(all, t, r, l)
  PROVE  Matched(start, t) = Match1(r, l)
<1> DEFINE M == {MatchLen(o, t) : o \in all}
           B == {o \in all : MatchLen(o, t) = l}
<1>1. Max(M) = l
  <2>1. M \in SUBSET Nat /\ l \in M /\ \A y \in M : y <= l
    BY DEF Wins
  <2> HIDE DEF M
  <2> QED
    BY <2>1, MaxIs
<1>2. Min(B) = r
  <2>1. B \in SUBSET Nat /\ r \in B /\ \A y \in B : r <= y
    BY DEF Wins
  <2> HIDE DEF B
  <2>2. Min(B) \in B /\ \A y \in B : Min(B) <= y
    BY <2>1, MinIs
  <2> DEFINE w == Min(B)
  <2>3. w \in Nat /\ r \in Nat /\ w <= r /\ r <= w
    BY <2>1, <2>2
  <2> HIDE DEF w
  <2>4. w = r
    BY <2>3
  <2> QED
    BY <2>4 DEF w
<1>3. Matched(start, t) = [rule |-> Min({o \in all : MatchLen(o, t) = Max(M)}), len |-> Max(M)]
  BY Zenon DEF Matched
<1> HIDE DEF M
<1> QED
  BY <1>1, <1>2, <1>3 DEF Match1

(* What is known of the first character, by its class k.                   *)
Head1(t, k) ==
  /\ k = Class(t[1]) /\ k \in 1 .. 27
  /\ IF k = 3 THEN NotNewline(t, 1) = 0 ELSE NotNewline(t, 1) \in Nat \ {0}
  /\ IF k \in {2, 3} THEN FileNameLen(t) = 0 ELSE FileNameLen(t) \in Nat \ {0}
  /\ WordLen(t) = IF k \in WordClasses THEN Run(t, 1, AlphaNum) ELSE 0
  /\ k \in WordClasses => Run(t, 1, AlphaNum) \in Nat \ {0}
  /\ IF k = 2 THEN Run(t, 1, Space) \in Nat \ {0} ELSE Run(t, 1, Space) = 0
  /\ IF k \in 9 .. 11 THEN NumberLen(t) \in Nat \ {0} ELSE NumberLen(t) = 0
  /\ t # << >>

LEMMA HeadIs ==
  ASSUME WordMarks = {}, NEW t, NEW f, Walk(t, f), t # << >>
  PROVE  Head1(t, Class(t[1]))
<1> DEFINE c == t[1]
           k == Class(c)
<1>0. t \in Text
  BY DEF Walk
<1>1. /\ k \in 1 .. 27
      /\ k = 2 <=> c \in Space
      /\ k = 3 <=> c = "\n"
      /\ k \in WordClasses <=> c \in Alpha
      /\ k \in 9 .. 11 <=> c \in Digit
  BY Kinds DEF Kind, WordClasses
<1>2. IF k = 3 THEN NotNewline(t, 1) = 0 ELSE NotNewline(t, 1) \in Nat \ {0}
  <2> HIDE DEF k
  <2> QED
    BY <1>0, <1>1, LinesAtHead
<1>3. IF k \in {2, 3} THEN FileNameLen(t) = 0 ELSE FileNameLen(t) \in Nat \ {0}
  <2> HIDE DEF k
  <2> QED
    BY <1>0, <1>1, LinesAtHead
<1>4. WordLen(t) = IF k \in WordClasses THEN Run(t, 1, AlphaNum) ELSE 0
  <2> HIDE DEF k
  <2> QED
    BY <1>0, <1>1, WordAtHead
<1>5. k \in WordClasses => Run(t, 1, AlphaNum) \in Nat \ {0}
  <2>1. c \in Alpha => c \in AlphaNum
    BY DEF AlphaNum
  <2>2. c \in AlphaNum => Run(t, 1, AlphaNum) >= 1 /\ Run(t, 1, AlphaNum) \in Nat
    BY <1>0, RunAtHead
  <2> HIDE DEF k, c
  <2> QED
    BY <1>1, <2>1, <2>2
<1>6. IF k = 2 THEN Run(t, 1, Space) \in Nat \ {0} ELSE Run(t, 1, Space) = 0
  <2>1. /\ Run(t, 1, Space) \in Nat
        /\ c \in Space => Run(t, 1, Space) >= 1
        /\ c \notin Space => Run(t, 1, Space) = 0
    BY <1>0, RunAtHead
  <2> HIDE DEF k, c
  <2> QED
    BY <1>1, <2>1
<1>7. IF k \in 9 .. 11 THEN NumberLen(t) \in Nat \ {0} ELSE NumberLen(t) = 0
  <2>1. /\ c = "0" => \A s \in Zeros(9) : NumberLen(t) \in Nat \ {0}
        /\ c \in Digit \ {"0"} => \A s \in Digital(9) : NumberLen(t) \in Nat \ {0}
        /\ c \notin Digit => NumberLen(t) = 0
    BY NumbersAre
  <2>2. 20 \in Zeros(9) /\ 21 \in Digital(9)
    BY DEF Zeros, Digital
  <2> HIDE DEF k, c
  <2> QED
    BY <1>1, <2>1, <2>2
<1> QED
  BY <1>1, <1>2, <1>3, <1>4, <1>5, <1>6, <1>7 DEF Head1

(* The lengths by the class of the first character.                        *)
LEMMA LensAre ==
  ASSUME NEW t \in Text, NEW k, Head1(t, k)
  PROVE  /\ MatchLen(1, t) = IF k = 5 THEN 1 ELSE 0
         /\ MatchLen(2, t) = IF k = 4 THEN 1 ELSE 0
         /\ MatchLen(3, t) = IF k \in WordClasses THEN Run(t, 1, AlphaNum) ELSE 0
         /\ MatchLen(4, t) = IF k = 13 THEN 1 ELSE 0
         /\ MatchLen(5, t) = IF k = 12 THEN 1 ELSE 0
         /\ MatchLen(6, t) = IF k = 18 THEN 1 ELSE 0
         /\ MatchLen(7, t) = IF k = 19 THEN 1 ELSE 0
         /\ MatchLen(8, t) = IF k = 7 THEN 1 ELSE 0
         /\ MatchLen(9, t) = IF k \in 9 .. 11 THEN NumberLen(t) ELSE 0
         /\ MatchLen(10, t) = IF k = 2 THEN Run(t, 1, Space) ELSE 0
         /\ MatchLen(11, t) = IF k = 6 THEN 1 ELSE 0
         /\ MatchLen(12, t) = IF k = 8 THEN 1 ELSE 0
         /\ MatchLen(13, t) = IF k = 3 THEN 1 ELSE 0
         /\ MatchLen(14, t) = IF k = 3 THEN 0 ELSE 1
         /\ MatchLen(15, t) = IF k \in {9, 10, 14, 17, 20, 21} THEN 1 ELSE 0
         /\ MatchLen(16, t) = IF k = 3 THEN 0 ELSE 1
         /\ MatchLen(17, t) = IF k = 2 THEN Run(t, 1, Space) ELSE 0
         /\ MatchLen(18, t) = FileNameLen(t)
         /\ MatchLen(19, t) = KeywordLen(t)
         /\ MatchLen(20, t) = IF k = 6 THEN 1 ELSE 0
         /\ MatchLen(21, t) = IF k \in WordClasses THEN Run(t, 1, AlphaNum) ELSE 0
         /\ MatchLen(22, t) = IF k = 2 THEN Run(t, 1, Space) ELSE 0
         /\ MatchLen(23, t) = IF k \in 9 .. 11 THEN NumberLen(t) ELSE 0
         /\ MatchLen(24, t) = IF k = 3 THEN 1 ELSE 0
         /\ MatchLen(25, t) = IF k = 5 THEN 1 ELSE 0
         /\ MatchLen(26, t) = IF k = 3 THEN 1 ELSE 0
         /\ MatchLen(27, t) = NotNewline(t, 1)
         /\ MatchLen(28, t) = 1
<1>1. k = Class(t[1]) /\ t # << >>
  BY DEF Head1
<1>o. Ones(t, k)
  BY <1>1, OnesAre
<1>2. MatchLen(1, t) = IF k = 5 THEN 1 ELSE 0
  <2>1. MatchLen(1, t) = One(t, {"#"})
    BY RuleLens, Zenon
  <2>2. One(t, {"#"}) = IF k = 5 THEN 1 ELSE 0
    BY <1>o, Zenon DEF Ones
  <2> QED
    BY <2>1, <2>2, Zenon
<1>3. MatchLen(2, t) = IF k = 4 THEN 1 ELSE 0
  <2>1. MatchLen(2, t) = One(t, {"!"})
    BY RuleLens, Zenon
  <2>2. One(t, {"!"}) = IF k = 4 THEN 1 ELSE 0
    BY <1>o, Zenon DEF Ones
  <2> QED
    BY <2>1, <2>2, Zenon
<1>4. MatchLen(3, t) = IF k \in WordClasses THEN Run(t, 1, AlphaNum) ELSE 0
  <2>1. MatchLen(3, t) = WordLen(t)
    BY RuleLens, Zenon
  <2> QED
    BY <2>1 DEF Head1
<1>5. MatchLen(4, t) = IF k = 13 THEN 1 ELSE 0
  <2>1. MatchLen(4, t) = One(t, {"@"})
    BY RuleLens, Zenon
  <2>2. One(t, {"@"}) = IF k = 13 THEN 1 ELSE 0
    BY <1>o, Zenon DEF Ones
  <2> QED
    BY <2>1, <2>2, Zenon
<1>6. MatchLen(5, t) = IF k = 12 THEN 1 ELSE 0
  <2>1. MatchLen(5, t) = One(t, {"="})
    BY RuleLens, Zenon
  <2>2. One(t, {"="}) = IF k = 12 THEN 1 ELSE 0
    BY <1>o, Zenon DEF Ones
  <2> QED
    BY <2>1, <2>2, Zenon
<1>7. MatchLen(6, t) = IF k = 18 THEN 1 ELSE 0
  <2>1. MatchLen(6, t) = One(t, {"["})
    BY RuleLens, Zenon
  <2>2. One(t, {"["}) = IF k = 18 THEN 1 ELSE 0
    BY <1>o, Zenon DEF Ones
  <2> QED
    BY <2>1, <2>2, Zenon
<1>8. MatchLen(7, t) = IF k = 19 THEN 1 ELSE 0
  <2>1. MatchLen(7, t) = One(t, {"]"})
    BY RuleLens, Zenon
  <2>2. One(t, {"]"}) = IF k = 19 THEN 1 ELSE 0
    BY <1>o, Zenon DEF Ones
  <2> QED
    BY <2>1, <2>2, Zenon
<1>9. MatchLen(8, t) = IF k = 7 THEN 1 ELSE 0
  <2>1. MatchLen(8, t) = One(t, {"+", "-"})
    BY RuleLens, Zenon
  <2>2. One(t, {"+", "-"}) = IF k = 7 THEN 1 ELSE 0
    BY <1>o, Zenon DEF Ones
  <2> QED
    BY <2>1, <2>2, Zenon
<1>10. MatchLen(9, t) = IF k \in 9 .. 11 THEN NumberLen(t) ELSE 0
  <2>1. MatchLen(9, t) = NumberLen(t)
    BY RuleLens, Zenon
  <2> QED
    BY <2>1 DEF Head1
<1>11. MatchLen(10, t) = IF k = 2 THEN Run(t, 1, Space) ELSE 0
  <2>1. MatchLen(10, t) = Run(t, 1, Space)
    BY RuleLens, Zenon
  <2> QED
    BY <2>1 DEF Head1
<1>12. MatchLen(11, t) = IF k = 6 THEN 1 ELSE 0
  <2>1. MatchLen(11, t) = One(t, {"$"})
    BY RuleLens, Zenon
  <2>2. One(t, {"$"}) = IF k = 6 THEN 1 ELSE 0
    BY <1>o, Zenon DEF Ones
  <2> QED
    BY <2>1, <2>2, Zenon
<1>13. MatchLen(12, t) = IF k = 8 THEN 1 ELSE 0
  <2>1. MatchLen(12, t) = One(t, {Comma})
    BY RuleLens, Zenon
  <2>2. One(t, {Comma}) = IF k = 8 THEN 1 ELSE 0
    BY <1>o, Zenon DEF Ones
  <2> QED
    BY <2>1, <2>2, Zenon
<1>14. MatchLen(13, t) = IF k = 3 THEN 1 ELSE 0
  <2>1. MatchLen(13, t) = One(t, {"\n"})
    BY RuleLens, Zenon
  <2>2. One(t, {"\n"}) = IF k = 3 THEN 1 ELSE 0
    BY <1>o, Zenon DEF Ones
  <2> QED
    BY <2>1, <2>2, Zenon
<1>15. MatchLen(14, t) = IF k = 3 THEN 0 ELSE 1
  <2>1. MatchLen(14, t) = IF NotNewline(t, 1) > 0 THEN 1 ELSE 0
    BY RuleLens, Zenon
  <2> QED
    BY <2>1 DEF Head1
<1>16. MatchLen(15, t) = IF k \in {9, 10, 14, 17, 20, 21} THEN 1 ELSE 0
  <2>1. MatchLen(15, t) = One(t, RegChar)
    BY RuleLens, Zenon
  <2>2. One(t, RegChar) = IF k \in {9, 10, 14, 17, 20, 21} THEN 1 ELSE 0
    BY <1>o, Zenon DEF Ones
  <2> QED
    BY <2>1, <2>2, Zenon
<1>17. MatchLen(16, t) = IF k = 3 THEN 0 ELSE 1
  <2>1. MatchLen(16, t) = IF NotNewline(t, 1) > 0 THEN 1 ELSE 0
    BY RuleLens, Zenon
  <2> QED
    BY <2>1 DEF Head1
<1>18. MatchLen(17, t) = IF k = 2 THEN Run(t, 1, Space) ELSE 0
  <2>1. MatchLen(17, t) = Run(t, 1, Space)
    BY RuleLens, Zenon
  <2> QED
    BY <2>1 DEF Head1
<1>19. MatchLen(18, t) = FileNameLen(t)
  BY RuleLens, Zenon
<1>20. MatchLen(19, t) = KeywordLen(t)
  BY RuleLens, Zenon
<1>21. MatchLen(20, t) = IF k = 6 THEN 1 ELSE 0
  <2>1. MatchLen(20, t) = One(t, {"$"})
    BY RuleLens, Zenon
  <2>2. One(t, {"$"}) = IF k = 6 THEN 1 ELSE 0
    BY <1>o, Zenon DEF Ones
  <2> QED
    BY <2>1, <2>2, Zenon
<1>22. MatchLen(21, t) = IF k \in WordClasses THEN Run(t, 1, AlphaNum) ELSE 0
  <2>1. MatchLen(21, t) = WordLen(t)
    BY RuleLens, Zenon
  <2> QED
    BY <2>1 DEF Head1
<1>23. MatchLen(22, t) = IF k = 2 THEN Run(t, 1, Space) ELSE 0
  <2>1. MatchLen(22, t) = Run(t, 1, Space)
    BY RuleLens, Zenon
  <2> QED
    BY <2>1 DEF Head1
<1>24. MatchLen(23, t) = IF k \in 9 .. 11 THEN NumberLen(t) ELSE 0
  <2>1. MatchLen(23, t) = NumberLen(t)
    BY RuleLens, Zenon
  <2> QED
    BY <2>1 DEF Head1
<1>25. MatchLen(24, t) = IF k = 3 THEN 1 ELSE 0
  <2>1. MatchLen(24, t) = One(t, {"\n"})
    BY RuleLens, Zenon
  <2>2. One(t, {"\n"}) = IF k = 3 THEN 1 ELSE 0
    BY <1>o, Zenon DEF Ones
  <2> QED
    BY <2>1, <2>2, Zenon
<1>26. MatchLen(25, t) = IF k = 5 THEN 1 ELSE 0
  <2>1. MatchLen(25, t) = One(t, {"#"})
    BY RuleLens, Zenon
  <2>2. One(t, {"#"}) = IF k = 5 THEN 1 ELSE 0
    BY <1>o, Zenon DEF Ones
  <2> QED
    BY <2>1, <2>2, Zenon
<1>27. MatchLen(26, t) = IF k = 3 THEN 1 ELSE 0
  <2>1. MatchLen(26, t) = One(t, {"\n"})
    BY RuleLens, Zenon
  <2>2. One(t, {"\n"}) = IF k = 3 THEN 1 ELSE 0
    BY <1>o, Zenon DEF Ones
  <2> QED
    BY <2>1, <2>2, Zenon
<1>28. MatchLen(27, t) = NotNewline(t, 1)
  BY RuleLens, Zenon
<1>29. MatchLen(28, t) = 1
  <2>1. MatchLen(28, t) = IF t = << >> THEN 0 ELSE 1
    BY RuleLens, Zenon
  <2> QED
    BY <1>1, <2>1, Zenon
<1> QED
  BY <1>2, <1>3, <1>4, <1>5, <1>6, <1>7, <1>8, <1>9, <1>10, <1>11, <1>12, <1>13, <1>14, <1>15,
     <1>16, <1>17, <1>18, <1>19, <1>20, <1>21, <1>22, <1>23, <1>24, <1>25, <1>26, <1>27, <1>28, <1>29, Zenon

(* A rule that does not win over rule r and its length l.                  *)
Beaten(o, t, r, l) ==
  MatchLen(o, t) \in Nat /\ MatchLen(o, t) <= l /\ (MatchLen(o, t) = l => r <= o)

(* The rule that wins and its length, in each start condition, by the class *)
(* k of the first character.                                               *)
InitialRule(k) ==
  CASE k = 1 -> 14
    [] k = 2 -> 10
    [] k = 3 -> 13
    [] k = 4 -> 2
    [] k = 5 -> 1
    [] k = 6 -> 11
    [] k = 7 -> 8
    [] k = 8 -> 12
    [] k \in 9 .. 11 -> 9
    [] k = 12 -> 5
    [] k = 13 -> 4
    [] k = 18 -> 6
    [] k = 19 -> 7
    [] OTHER -> 3

InitialLen(t, k) ==
  CASE k = 2 -> Run(t, 1, Space)
    [] k \in 9 .. 11 -> NumberLen(t)
    [] k \in WordClasses -> Run(t, 1, AlphaNum)
    [] OTHER -> 1

LEMMA InitialWins ==
  ASSUME NEW t \in Text, NEW k, Head1(t, k)
  PROVE  Wins(1 .. 14 \cup {28}, t, InitialRule(k), InitialLen(t, k))
<1> DEFINE r == InitialRule(k)
           l == InitialLen(t, k)
<1>0. k \in 1 .. 27
  BY DEF Head1
<1>1. MatchLen(1, t) = IF k = 5 THEN 1 ELSE 0
  BY LensAre
<1>2. MatchLen(2, t) = IF k = 4 THEN 1 ELSE 0
  BY LensAre
<1>3. MatchLen(3, t) = IF k \in WordClasses THEN Run(t, 1, AlphaNum) ELSE 0
  BY LensAre
<1>4. MatchLen(4, t) = IF k = 13 THEN 1 ELSE 0
  BY LensAre
<1>5. MatchLen(5, t) = IF k = 12 THEN 1 ELSE 0
  BY LensAre
<1>6. MatchLen(6, t) = IF k = 18 THEN 1 ELSE 0
  BY LensAre
<1>7. MatchLen(7, t) = IF k = 19 THEN 1 ELSE 0
  BY LensAre
<1>8. MatchLen(8, t) = IF k = 7 THEN 1 ELSE 0
  BY LensAre
<1>9. MatchLen(9, t) = IF k \in 9 .. 11 THEN NumberLen(t) ELSE 0
  BY LensAre
<1>10. MatchLen(10, t) = IF k = 2 THEN Run(t, 1, Space) ELSE 0
  BY LensAre
<1>11. MatchLen(11, t) = IF k = 6 THEN 1 ELSE 0
  BY LensAre
<1>12. MatchLen(12, t) = IF k = 8 THEN 1 ELSE 0
  BY LensAre
<1>13. MatchLen(13, t) = IF k = 3 THEN 1 ELSE 0
  BY LensAre
<1>14. MatchLen(14, t) = IF k = 3 THEN 0 ELSE 1
  BY LensAre
<1>15. MatchLen(28, t) = 1
  BY LensAre
<1>16. l \in Nat \ {0}
  BY DEF Head1, InitialLen
<1>17. Beaten(1, t, r, l)
  BY <1>0, <1>1, <1>16 DEF Beaten, InitialRule, InitialLen, WordClasses
<1>18. Beaten(2, t, r, l)
  BY <1>0, <1>2, <1>16 DEF Beaten, InitialRule, InitialLen, WordClasses
<1>19. Beaten(3, t, r, l)
  BY <1>0, <1>3, <1>16 DEF Beaten, InitialRule, InitialLen, WordClasses
<1>20. Beaten(4, t, r, l)
  BY <1>0, <1>4, <1>16 DEF Beaten, InitialRule, InitialLen, WordClasses
<1>21. Beaten(5, t, r, l)
  BY <1>0, <1>5, <1>16 DEF Beaten, InitialRule, InitialLen, WordClasses
<1>22. Beaten(6, t, r, l)
  BY <1>0, <1>6, <1>16 DEF Beaten, InitialRule, InitialLen, WordClasses
<1>23. Beaten(7, t, r, l)
  BY <1>0, <1>7, <1>16 DEF Beaten, InitialRule, InitialLen, WordClasses
<1>24. Beaten(8, t, r, l)
  BY <1>0, <1>8, <1>16 DEF Beaten, InitialRule, InitialLen, WordClasses
<1>25. Beaten(9, t, r, l)
  BY <1>0, <1>9, <1>16 DEF Beaten, InitialRule, InitialLen, WordClasses
<1>26. Beaten(10, t, r, l)
  BY <1>0, <1>10, <1>16 DEF Beaten, InitialRule, InitialLen, WordClasses
<1>27. Beaten(11, t, r, l)
  BY <1>0, <1>11, <1>16 DEF Beaten, InitialRule, InitialLen, WordClasses
<1>28. Beaten(12, t, r, l)
  BY <1>0, <1>12, <1>16 DEF Beaten, InitialRule, InitialLen, WordClasses
<1>29. Beaten(13, t, r, l)
  BY <1>0, <1>13, <1>16 DEF Beaten, InitialRule, InitialLen, WordClasses
<1>30. Beaten(14, t, r, l)
  BY <1>0, <1>14, <1>16 DEF Beaten, InitialRule, InitialLen, WordClasses
<1>31. Beaten(28, t, r, l)
  BY <1>0, <1>15, <1>16 DEF Beaten, InitialRule, InitialLen, WordClasses
<1>32. r \in 1 .. 14 \cup {28} /\ MatchLen(r, t) = l
  BY <1>0, <1>1, <1>2, <1>3, <1>4, <1>5, <1>6, <1>7, <1>8, <1>9, <1>10, <1>11, <1>12, <1>13, <1>14, <1>15 DEF InitialRule, InitialLen, WordClasses
<1>33. \A o \in 1 .. 14 \cup {28} : Beaten(o, t, r, l)
  <2> HIDE DEF r, l
  <2> QED
    BY <1>17, <1>18, <1>19, <1>20, <1>21, <1>22, <1>23, <1>24, <1>25, <1>26, <1>27, <1>28, <1>29, <1>30, <1>31
<1> QED
  BY <1>32, <1>33 DEF Wins, Beaten

RegisterRule(k) ==
  IF k = 3 THEN 28 ELSE IF k \in {9, 10, 14, 17, 20, 21} THEN 15 ELSE 16

RegisterLen(t, k) ==
  1

LEMMA RegisterWins ==
  ASSUME NEW t \in Text, NEW k, Head1(t, k)
  PROVE  Wins({15, 16} \cup {28}, t, RegisterRule(k), RegisterLen(t, k))
<1> DEFINE r == RegisterRule(k)
           l == RegisterLen(t, k)
<1>0. k \in 1 .. 27
  BY DEF Head1
<1>1. MatchLen(15, t) = IF k \in {9, 10, 14, 17, 20, 21} THEN 1 ELSE 0
  BY LensAre
<1>2. MatchLen(16, t) = IF k = 3 THEN 0 ELSE 1
  BY LensAre
<1>3. MatchLen(28, t) = 1
  BY LensAre
<1>4. l \in Nat \ {0}
  BY DEF Head1, RegisterLen
<1>5. Beaten(15, t, r, l)
  BY <1>0, <1>1, <1>4 DEF Beaten, RegisterRule, RegisterLen, WordClasses
<1>6. Beaten(16, t, r, l)
  BY <1>0, <1>2, <1>4 DEF Beaten, RegisterRule, RegisterLen, WordClasses
<1>7. Beaten(28, t, r, l)
  BY <1>0, <1>3, <1>4 DEF Beaten, RegisterRule, RegisterLen, WordClasses
<1>8. r \in {15, 16} \cup {28} /\ MatchLen(r, t) = l
  BY <1>0, <1>1, <1>2, <1>3 DEF RegisterRule, RegisterLen, WordClasses
<1>9. \A o \in {15, 16} \cup {28} : Beaten(o, t, r, l)
  <2> HIDE DEF r, l
  <2> QED
    BY <1>5, <1>6, <1>7
<1> QED
  BY <1>8, <1>9 DEF Wins, Beaten

CommentRule(k) ==
  IF k = 3 THEN 26 ELSE 27

CommentLen(t, k) ==
  IF k = 3 THEN 1 ELSE NotNewline(t, 1)

LEMMA CommentWins ==
  ASSUME NEW t \in Text, NEW k, Head1(t, k)
  PROVE  Wins({26, 27} \cup {28}, t, CommentRule(k), CommentLen(t, k))
<1> DEFINE r == CommentRule(k)
           l == CommentLen(t, k)
<1>0. k \in 1 .. 27
  BY DEF Head1
<1>1. MatchLen(26, t) = IF k = 3 THEN 1 ELSE 0
  BY LensAre
<1>2. MatchLen(27, t) = NotNewline(t, 1)
  BY LensAre
<1>3. MatchLen(28, t) = 1
  BY LensAre
<1>4. l \in Nat \ {0}
  BY DEF Head1, CommentLen
<1>5. Beaten(26, t, r, l)
  BY <1>0, <1>1, <1>4 DEF Beaten, CommentRule, CommentLen, WordClasses
<1>6. Beaten(27, t, r, l)
  BY <1>0, <1>2, <1>4 DEF Head1, Beaten, CommentRule, CommentLen, WordClasses
<1>7. Beaten(28, t, r, l)
  BY <1>0, <1>3, <1>4 DEF Beaten, CommentRule, CommentLen, WordClasses
<1>8. r \in {26, 27} \cup {28} /\ MatchLen(r, t) = l
  BY <1>0, <1>1, <1>2, <1>3 DEF CommentRule, CommentLen, WordClasses
<1>9. \A o \in {26, 27} \cup {28} : Beaten(o, t, r, l)
  <2> HIDE DEF r, l
  <2> QED
    BY <1>5, <1>6, <1>7
<1> QED
  BY <1>8, <1>9 DEF Wins, Beaten

IncludeRule(k) ==
  CASE k = 2 -> 17 [] k = 3 -> 28 [] OTHER -> 18

IncludeLen(t, k) ==
  CASE k = 2 -> Run(t, 1, Space) [] k = 3 -> 1 [] OTHER -> FileNameLen(t)

LEMMA IncludeWins ==
  ASSUME NEW t \in Text, NEW k, Head1(t, k)
  PROVE  Wins({17, 18} \cup {28}, t, IncludeRule(k), IncludeLen(t, k))
<1> DEFINE r == IncludeRule(k)
           l == IncludeLen(t, k)
<1>0. k \in 1 .. 27
  BY DEF Head1
<1>1. MatchLen(17, t) = IF k = 2 THEN Run(t, 1, Space) ELSE 0
  BY LensAre
<1>2. MatchLen(18, t) = FileNameLen(t)
  BY LensAre
<1>3. MatchLen(28, t) = 1
  BY LensAre
<1>4. l \in Nat \ {0}
  BY DEF Head1, IncludeLen
<1>5. Beaten(17, t, r, l)
  BY <1>0, <1>1, <1>4 DEF Beaten, IncludeRule, IncludeLen, WordClasses
<1>6. Beaten(18, t, r, l)
  BY <1>0, <1>2, <1>4 DEF Head1, Beaten, IncludeRule, IncludeLen, WordClasses
<1>7. Beaten(28, t, r, l)
  BY <1>0, <1>3, <1>4 DEF Beaten, IncludeRule, IncludeLen, WordClasses
<1>8. r \in {17, 18} \cup {28} /\ MatchLen(r, t) = l
  BY <1>0, <1>1, <1>2, <1>3 DEF IncludeRule, IncludeLen, WordClasses
<1>9. \A o \in {17, 18} \cup {28} : Beaten(o, t, r, l)
  <2> HIDE DEF r, l
  <2> QED
    BY <1>5, <1>6, <1>7
<1> QED
  BY <1>8, <1>9 DEF Wins, Beaten

(* A macro line: the keyword wins over the word of its own length.         *)
IsKeyword(t) == KeyRest(t, 0) /\ WordEnd(t, 0) = 7

MacroRule(t, k) ==
  CASE k = 2 -> 22
    [] k = 3 -> 24
    [] k = 5 -> 25
    [] k = 6 -> 20
    [] k \in 9 .. 11 -> 23
    [] k \in WordClasses -> IF IsKeyword(t) THEN 19 ELSE 21
    [] OTHER -> 28

MacroLen(t, k) ==
  CASE k = 2 -> Run(t, 1, Space)
    [] k \in 9 .. 11 -> NumberLen(t)
    [] k \in WordClasses -> WordEnd(t, 0)
    [] OTHER -> 1

LEMMA KeywordAtHead ==
  ASSUME NEW t \in Text, NEW k, Head1(t, k)
  PROVE  /\ WordEnd(t, 0) = Run(t, 1, AlphaNum)
         /\ KeywordLen(t) = IF KeyRest(t, 0) THEN 7 ELSE 0
         /\ KeyRest(t, 0) => k = 23 /\ WordEnd(t, 0) >= 7
<1>0. t # << >> /\ k = Class(t[1])
  BY DEF Head1
<1>1. WordEnd(t, 0) = Run(t, 1, AlphaNum)
  <2>1. Run(t, 1, AlphaNum) = 0 + Run(t, 0 + 1, AlphaNum)
    BY <1>0, RunAtHead, Zenon
  <2> QED
    BY <2>1 DEF WordEnd
<1>2. KeyRest(t, 0) => k = 23
  <2>1. KindLetter(t[1], k)
    BY <1>0, Kinds
  <2>2. KeyRest(t, 0) => t[1] = Keyword[1]
    <3>1. 1 \in 0 + 1 .. 7
      OBVIOUS
    <3> QED
      BY <3>1 DEF KeyRest
  <2>3. Keyword[1] = "i"
    BY KeyLetters
  <2> QED
    BY <2>1, <2>2, <2>3 DEF KindLetter
<1> QED
  BY <1>1, <1>2, KeywordIs

LEMMA MacroWins ==
  ASSUME NEW t \in Text, NEW k, Head1(t, k)
  PROVE  Wins(19 .. 25 \cup {28}, t, MacroRule(t, k), MacroLen(t, k))
<1> DEFINE r == MacroRule(t, k)
           l == MacroLen(t, k)
           w == WordEnd(t, 0)
           key == KeyRest(t, 0)
<1>0. k \in 1 .. 27
  BY DEF Head1
<1>1. /\ w = Run(t, 1, AlphaNum)
      /\ KeywordLen(t) = IF key THEN 7 ELSE 0
      /\ key => k = 23 /\ w >= 7
  BY KeywordAtHead, Zenon
<1>2. MatchLen(19, t) = IF key THEN 7 ELSE 0
  <2>1. MatchLen(19, t) = KeywordLen(t)
    BY LensAre
  <2> QED
    BY <1>1, <2>1
<1>3. MatchLen(20, t) = IF k = 6 THEN 1 ELSE 0
  BY LensAre
<1>4. MatchLen(21, t) = IF k \in WordClasses THEN w ELSE 0
  <2>1. MatchLen(21, t) = IF k \in WordClasses THEN Run(t, 1, AlphaNum) ELSE 0
    BY LensAre
  <2> QED
    BY <1>1, <2>1
<1>5. MatchLen(22, t) = IF k = 2 THEN Run(t, 1, Space) ELSE 0
  BY LensAre
<1>6. MatchLen(23, t) = IF k \in 9 .. 11 THEN NumberLen(t) ELSE 0
  BY LensAre
<1>7. MatchLen(24, t) = IF k = 3 THEN 1 ELSE 0
  BY LensAre
<1>8. MatchLen(25, t) = IF k = 5 THEN 1 ELSE 0
  BY LensAre
<1>9. MatchLen(28, t) = 1
  BY LensAre
<1>10. k \in WordClasses => w \in Nat \ {0}
  BY <1>1 DEF Head1
<1>11. r = CASE k = 2 -> 22
             [] k = 3 -> 24
             [] k = 5 -> 25
             [] k = 6 -> 20
             [] k \in 9 .. 11 -> 23
             [] k \in WordClasses -> IF key /\ w = 7 THEN 19 ELSE 21
             [] OTHER -> 28
  BY Zenon DEF MacroRule, IsKeyword
<1>12. l = CASE k = 2 -> Run(t, 1, Space)
             [] k \in 9 .. 11 -> NumberLen(t)
             [] k \in WordClasses -> w
             [] OTHER -> 1
  BY Zenon DEF MacroLen
<1>13. Run(t, 1, Space) \in Nat /\ (k = 2 => Run(t, 1, Space) # 0)
  BY DEF Head1
<1>14. NumberLen(t) \in Nat /\ (k \in 9 .. 11 => NumberLen(t) # 0)
  BY DEF Head1
<1> HIDE DEF r, l, w, key
<1>20. l \in Nat \ {0}
  BY <1>0, <1>10, <1>12, <1>13, <1>14 DEF WordClasses
<1>21. Beaten(19, t, r, l)
  BY <1>0, <1>1, <1>2, <1>10, <1>11, <1>12, <1>20 DEF Beaten, WordClasses
<1>22. Beaten(20, t, r, l)
  BY <1>0, <1>3, <1>11, <1>12, <1>20 DEF Beaten, WordClasses
<1>23. Beaten(21, t, r, l)
  BY <1>0, <1>1, <1>4, <1>10, <1>11, <1>12, <1>20 DEF Beaten, WordClasses
<1>24. Beaten(22, t, r, l)
  BY <1>0, <1>5, <1>13, <1>11, <1>12, <1>20 DEF Beaten, WordClasses
<1>25. Beaten(23, t, r, l)
  BY <1>0, <1>6, <1>14, <1>11, <1>12, <1>20 DEF Beaten, WordClasses
<1>26. Beaten(24, t, r, l)
  BY <1>0, <1>7, <1>11, <1>12, <1>20 DEF Beaten, WordClasses
<1>27. Beaten(25, t, r, l)
  BY <1>0, <1>8, <1>11, <1>12, <1>20 DEF Beaten, WordClasses
<1>28. Beaten(28, t, r, l)
  BY <1>0, <1>9, <1>11, <1>12, <1>20 DEF Beaten, WordClasses
<1>29. \A o \in 19 .. 25 \cup {28} : Beaten(o, t, r, l)
  BY <1>21, <1>22, <1>23, <1>24, <1>25, <1>26, <1>27, <1>28
<1>30. r \in 19 .. 25 \cup {28} /\ MatchLen(r, t) = l
  BY <1>0, <1>1, <1>2, <1>3, <1>4, <1>5, <1>6, <1>7, <1>8, <1>9, <1>11, <1>12 DEF WordClasses
<1>31. Wins(19 .. 25 \cup {28}, t, r, l)
  BY <1>29, <1>30 DEF Wins, Beaten
<1> QED
  BY <1>31 DEF r, l

-----------------------------------------------------------------------------
(***************************************************************************)
(* The automaton at the head of a text.                                    *)
(***************************************************************************)
Starts == {1, 3, 5, 7, 9}

(* The first character leads from a start condition to state q.            *)
Reaches(t, s, q) == t # << >> /\ s \in Starts /\ To(s, t[1]) = q

(* From place i on state s finds rule r, to the length l.                  *)
Finds(f, i, s, r, l) == r \in Nat \ {0} /\ f[i][s] = Match1(r, l)

LEMMA FirstStep ==
  ASSUME NEW t, NEW f, Walk(t, f), NEW s, NEW q, Reaches(t, s, q), NEW r, NEW l, Finds(f, 1, q, r, l)
  PROVE  Finds(f, 0, s, r, l)
<1> DEFINE i == 0
<1>0. i \in 0 .. Len(t) /\ i < Len(t) /\ i + 1 = 1
  BY TextLen DEF Walk, Text, Reaches
<1>1. s \in GoingOn
  BY DEF GoingOn, Starts, Reaches
<1>2. t[i + 1] = t[1] /\ f[i + 1] = f[1]
  BY <1>0
<1>3. f[i + 1][To(s, t[i + 1])].rule # 0
  BY <1>2 DEF Match1, Reaches, Finds
<1> HIDE DEF i
<1>4. f[i][s] = f[i + 1][To(s, t[i + 1])]
  BY <1>0, <1>1, <1>3, Moves, Zenon
<1> QED
  BY <1>2, <1>4 DEF i, Reaches, Finds

(* States behind which nothing more is matched.                            *)
Single1 == {12, 14, 15, 16, 17, 18, 19, 22, 23, 25, 26, 27, 28, 29, 31, 33, 34, 35}

LEMMA SingleAccepts ==
  \A q \in Single1 : q \in States /\ Entry(yy_base, q) = JamBase /\ Entry(yy_accept, q) \in Nat \ {0}
BY DEF Single1, States, yy_base, yy_accept, Entry, JamBase

LEMMA Singles ==
  ASSUME NEW t, NEW f, Walk(t, f), NEW s, NEW q \in Single1, Reaches(t, s, q)
  PROVE  Finds(f, 0, s, Entry(yy_accept, q), 1)
<1> DEFINE i == 1
<1>0. i \in 0 .. Len(t)
  BY TextLen DEF Walk, Text, Reaches
<1>1. Entry(yy_base, q) = JamBase /\ Entry(yy_accept, q) \in Nat \ {0}
  BY SingleAccepts
<1>2. q \in States
  BY SingleAccepts
<1>3. i = Len(t) \/ Entry(yy_base, q) = JamBase
  BY <1>1
<1> HIDE DEF i
<1>4. f[i][q] = Match1(Entry(yy_accept, q), i)
  BY <1>0, <1>2, <1>3, WalkEnds, Zenon
<1>5. Finds(f, 1, q, Entry(yy_accept, q), 1)
  BY <1>1, <1>4 DEF i, Finds
<1> QED
  BY <1>5, FirstStep, Zenon

LEMMA SpanAtHead ==
  ASSUME NEW t \in Text, t # << >>, NEW set, t[1] \in set, NEW r
  PROVE  Span(r, t, 1, set) = Match1(r, Run(t, 1, set))
<1>1. Run(t, 1, set) = 1 + Run(t, 1 + 1, set)
  BY RunAtHead, Zenon
<1> QED
  BY <1>1, Zenon DEF Span

(* From state q rule r takes the run of the set.                           *)
Spans(t, f, q, r, set) ==
  /\ r \in Nat \ {0} /\ t[1] \in set
  /\ \A i \in 0 .. Len(t) : f[i][q] = Span(r, t, i, set)

LEMMA SpansAtHead ==
  ASSUME NEW t, NEW f, Walk(t, f), NEW s, NEW q, Reaches(t, s, q),
         NEW r, NEW set, Spans(t, f, q, r, set)
  PROVE  Finds(f, 0, s, r, Run(t, 1, set))
<1>0. 1 \in 0 .. Len(t) /\ t \in Text /\ t # << >> /\ t[1] \in set
  BY TextLen DEF Walk, Text, Reaches, Spans
<1>1. f[1][q] = Span(r, t, 1, set)
  BY <1>0 DEF Spans
<1>2. Span(r, t, 1, set) = Match1(r, Run(t, 1, set))
  BY <1>0, SpanAtHead
<1>3. Finds(f, 1, q, r, Run(t, 1, set))
  BY <1>1, <1>2 DEF Finds, Spans
<1> QED
  BY <1>3, FirstStep, Zenon

LEMMA InitialFinds ==
  ASSUME NEW t, NEW f, Walk(t, f), NEW k, Head1(t, k)
  PROVE  Finds(f, 0, 1, InitialRule(k), InitialLen(t, k))
<1> DEFINE c == t[1]
           s == 1
           q == Transition[1][k]
<1>0. /\ k \in 1 .. 27 /\ t \in Text /\ t # << >>
      /\ Kind(c, k)
  BY Kinds DEF Head1, Walk
<1>r. Reaches(t, s, q)
  BY DEF Reaches, Head1, To, Starts
<1>1. CASE k \in {1, 3, 4, 5, 6, 7, 8, 12, 13, 18, 19}
  <2>1. q \in Single1
    BY <1>1, InitialRow DEF Single1
  <2>2. Entry(yy_accept, q) = InitialRule(k) /\ InitialLen(t, k) = 1
    BY <1>1, InitialRow DEF yy_accept, Entry, InitialRule, InitialLen, WordClasses
  <2> HIDE DEF q, c, s
  <2>3. Finds(f, 0, s, Entry(yy_accept, q), 1)
    BY <1>r, <2>1, Singles, Zenon
  <2> QED
    BY <2>2, <2>3, Zenon DEF s
<1>2. CASE k = 2
  <2> DEFINE r == 10
             M == Space
  <2>1. InitialRule(k) = r /\ InitialLen(t, k) = Run(t, 1, M) /\ q \in {13, 42}
    BY <1>2, InitialRow DEF InitialRule, InitialLen, WordClasses
  <2>2. Spans(t, f, q, r, M)
    <3>1. r \in Nat \ {0} /\ c \in M
      BY <1>0, <1>2 DEF Kind
    <3>2. \A i \in 0 .. Len(t) : f[i][q] = Span(r, t, i, M)
      BY <2>1, InitialSpaces, Zenon
    <3> QED
      BY <3>1, <3>2, Zenon DEF Spans
  <2> HIDE DEF q, c, s, r, M
  <2>3. Finds(f, 0, s, r, Run(t, 1, M))
    BY <1>r, <2>2, SpansAtHead, Zenon
  <2> QED
    BY <2>1, <2>3, Zenon DEF s
<1>3. CASE k \in WordClasses
  <2> DEFINE r == 3
             M == AlphaNum
  <2>1. InitialRule(k) = r /\ InitialLen(t, k) = Run(t, 1, M) /\ q \in {24, 46}
    BY <1>3, InitialRow DEF InitialRule, InitialLen, WordClasses
  <2>2. Spans(t, f, q, r, M)
    <3>1. r \in Nat \ {0} /\ c \in M
      BY <1>0, <1>3 DEF Kind, AlphaNum, WordClasses
    <3>2. \A i \in 0 .. Len(t) : f[i][q] = Span(r, t, i, M)
      BY <2>1, InitialWords, Zenon
    <3> QED
      BY <3>1, <3>2, Zenon DEF Spans
  <2> HIDE DEF q, c, s, r, M
  <2>3. Finds(f, 0, s, r, Run(t, 1, M))
    BY <1>r, <2>2, SpansAtHead, Zenon
  <2> QED
    BY <2>1, <2>3, Zenon DEF s
<1>4. CASE k \in 9 .. 11
  <2> DEFINE r == 9
  <2>1. InitialRule(k) = r /\ InitialLen(t, k) = NumberLen(t) /\ r \in Nat \ {0} /\ r \in {9, 23}
    BY <1>4 DEF InitialRule, InitialLen, WordClasses
  <2>2. f[1][q] = Match1(r, NumberLen(t))
    <3>1. (k = 9 => c = "0") /\ (k # 9 => c \in Digit \ {"0"})
      <4> HIDE DEF c, q, r, s
      <4> QED
        BY <1>0, <1>4 DEF Kind
    <3>2. (k = 9 => q \in Zeros(r)) /\ (k # 9 => q \in Digital(r))
      BY <1>4, InitialRow DEF Zeros, Digital
    <3> HIDE DEF q, r
    <3> QED
      BY <1>0, <2>1, <3>1, <3>2, NumbersAre
  <2> HIDE DEF q, c, s, r
  <2>3. Finds(f, 1, q, r, NumberLen(t))
    BY <2>1, <2>2 DEF Finds
  <2>4. Finds(f, 0, s, r, NumberLen(t))
    BY <1>r, <2>3, FirstStep, Zenon
  <2> QED
    BY <2>1, <2>4, Zenon DEF s
<1> QED
  BY <1>0, <1>1, <1>2, <1>3, <1>4 DEF WordClasses

LEMMA RegisterFinds ==
  ASSUME NEW t, NEW f, Walk(t, f), NEW k, Head1(t, k)
  PROVE  Finds(f, 0, 3, RegisterRule(k), RegisterLen(t, k))
<1> DEFINE c == t[1]
           s == 3
           q == To(s, c)
<1>0. /\ k = 3 <=> c = "\n"
      /\ k \in {9, 10, 14, 17, 20, 21} <=> c \in RegChar
  BY Kinds DEF Head1, Kind
<1>1. Reaches(t, s, q)
  BY DEF Reaches, Head1, Starts
<1>2. q = IF c = "\n" THEN 28 ELSE IF c \in RegChar THEN 29 ELSE 27
  BY RegisterTo, Zenon
<1> HIDE DEF q, c
<1>3. q \in Single1
  BY <1>2 DEF Single1
<1>4. Entry(yy_accept, q) = RegisterRule(k)
  BY <1>0, <1>2 DEF yy_accept, Entry, RegisterRule
<1> HIDE DEF s
<1>5. Finds(f, 0, s, Entry(yy_accept, q), 1)
  BY <1>1, <1>3, Singles, Zenon
<1> QED
  BY <1>4, <1>5, Zenon DEF s, RegisterLen

LEMMA CommentFinds ==
  ASSUME NEW t, NEW f, Walk(t, f), NEW k, Head1(t, k)
  PROVE  Finds(f, 0, 5, CommentRule(k), CommentLen(t, k))
<1> DEFINE c == t[1]
           s == 5
           q == To(s, c)
           M == NotIn({"\n"})
<1>0. (k = 3 <=> c = "\n") /\ t # << >> /\ t \in Text
  BY Kinds DEF Head1, Kind, Walk
<1>1. Reaches(t, s, q)
  BY DEF Reaches, Head1, Starts
<1>2. q = IF c = "\n" THEN 31 ELSE 30
  BY CommentTo, Zenon
<1>3. CASE k = 3
  <2>1. q \in Single1 /\ q = 31
    BY <1>0, <1>2, <1>3 DEF Single1
  <2>2. Entry(yy_accept, 31) = 26
    BY DEF yy_accept, Entry
  <2> HIDE DEF q, c, s
  <2>3. Finds(f, 0, s, Entry(yy_accept, q), 1)
    BY <1>1, <2>1, Singles, Zenon
  <2>4. Entry(yy_accept, q) = CommentRule(k) /\ CommentLen(t, k) = 1
    BY <1>3, <2>1, <2>2 DEF CommentRule, CommentLen
  <2> QED
    BY <2>3, <2>4, Zenon DEF s
<1>4. CASE k # 3
  <2> DEFINE r == 27
  <2>1. q \in {30, 47} /\ CommentRule(k) = r /\ CommentLen(t, k) = NotNewline(t, 1)
    BY <1>0, <1>2, <1>4 DEF CommentRule, CommentLen
  <2>2. Spans(t, f, q, r, M)
    <3>1. r \in Nat \ {0} /\ c \in M
      <4>1. c \in STRING
        BY <1>0, TextLen DEF Text
      <4> QED
        BY <1>0, <1>4, <4>1 DEF NotIn
    <3>2. \A i \in 0 .. Len(t) : f[i][q] = Span(r, t, i, M)
      BY <2>1, Comments, ZenonT(60)
    <3> QED
      BY <3>1, <3>2, Zenon DEF Spans
  <2>3. NotNewline(t, 1) = Run(t, 1, M)
    BY <1>0, LinesRun, Zenon
  <2> HIDE DEF q, c, s, r, M
  <2>4. Finds(f, 0, s, r, Run(t, 1, M))
    BY <1>1, <2>2, SpansAtHead, Zenon
  <2> QED
    BY <2>1, <2>3, <2>4, Zenon DEF s
<1> QED
  BY <1>3, <1>4

LEMMA IncludeFinds ==
  ASSUME NEW t, NEW f, Walk(t, f), NEW k, Head1(t, k)
  PROVE  Finds(f, 0, 9, IncludeRule(k), IncludeLen(t, k))
<1> DEFINE c == t[1]
           s == 9
           q == To(s, c)
<1>0. (k = 3 <=> c = "\n") /\ (k = 2 <=> c \in Space) /\ t # << >> /\ t \in Text
  BY Kinds DEF Head1, Kind, Walk
<1>1. Reaches(t, s, q)
  BY DEF Reaches, Head1, Starts
<1>2. q = IF c \in Space THEN 41 ELSE IF c = "\n" THEN 28 ELSE 40
  BY IncludeTo, Zenon
<1>3. CASE k = 3
  <2>1. q \in Single1 /\ q = 28
    BY <1>0, <1>2, <1>3 DEF Single1
  <2>2. Entry(yy_accept, 28) = 28
    BY DEF yy_accept, Entry
  <2> HIDE DEF q, c, s
  <2>3. Finds(f, 0, s, Entry(yy_accept, q), 1)
    BY <1>1, <2>1, Singles, Zenon
  <2>4. Entry(yy_accept, q) = IncludeRule(k) /\ IncludeLen(t, k) = 1
    BY <1>3, <2>1, <2>2 DEF IncludeRule, IncludeLen
  <2> QED
    BY <2>3, <2>4, Zenon DEF s
<1>4. CASE k = 2
  <2> DEFINE r == 17
             M == Space
  <2>1. q \in {41, 55} /\ IncludeRule(k) = r /\ IncludeLen(t, k) = Run(t, 1, M)
    BY <1>0, <1>2, <1>4 DEF IncludeRule, IncludeLen
  <2>2. Spans(t, f, q, r, M)
    <3>1. r \in Nat \ {0} /\ c \in M
      BY <1>0, <1>4
    <3>2. \A i \in 0 .. Len(t) : f[i][q] = Span(r, t, i, M)
      BY <2>1, IncludeSpaces, ZenonT(60)
    <3> QED
      BY <3>1, <3>2, Zenon DEF Spans
  <2> HIDE DEF q, c, s, r, M
  <2>4. Finds(f, 0, s, r, Run(t, 1, M))
    BY <1>1, <2>2, SpansAtHead, Zenon
  <2> QED
    BY <2>1, <2>4, Zenon DEF s
<1>5. CASE k # 2 /\ k # 3
  <2> DEFINE r == 18
             M == NotIn(Space \cup {"\n"})
  <2>1. q \in {40, 54} /\ IncludeRule(k) = r /\ IncludeLen(t, k) = FileNameLen(t)
    BY <1>0, <1>2, <1>5 DEF IncludeRule, IncludeLen
  <2>2. Spans(t, f, q, r, M)
    <3>1. r \in Nat \ {0} /\ c \in M
      <4>1. c \in STRING
        BY <1>0, TextLen DEF Text
      <4> QED
        BY <1>0, <1>5, <4>1 DEF NotIn
    <3>2. \A i \in 0 .. Len(t) : f[i][q] = Span(r, t, i, M)
      BY <2>1, FileNames, ZenonT(60)
    <3> QED
      BY <3>1, <3>2, Zenon DEF Spans
  <2>3. FileNameLen(t) = Run(t, 1, M)
    BY <1>0, LinesRun, Zenon
  <2> HIDE DEF q, c, s, r, M
  <2>4. Finds(f, 0, s, r, Run(t, 1, M))
    BY <1>1, <2>2, SpansAtHead, Zenon
  <2> QED
    BY <2>1, <2>3, <2>4, Zenon DEF s
<1> QED
  BY <1>3, <1>4, <1>5

LEMMA MacroFinds ==
  ASSUME NEW t, NEW f, Walk(t, f), NEW k, Head1(t, k)
  PROVE  Finds(f, 0, 7, MacroRule(t, k), MacroLen(t, k))
<1> DEFINE c == t[1]
           s == 7
           q == Transition[7][k]
<1>0. /\ k \in 1 .. 27 /\ t \in Text /\ t # << >>
      /\ Kind(c, k)
  BY Kinds DEF Head1, Walk
<1>r. Reaches(t, s, q)
  BY DEF Reaches, Head1, To, Starts
<1>w. /\ WordEnd(t, 0) = Run(t, 1, AlphaNum)
      /\ KeyRest(t, 0) => k = 23
  BY <1>0, KeywordAtHead
<1>1. CASE k \in {1, 3, 4, 5, 6, 7, 8, 12, 13, 18, 19}
  <2>1. q \in Single1
    BY <1>1, MacroRow DEF Single1
  <2>2. Entry(yy_accept, q) = MacroRule(t, k) /\ MacroLen(t, k) = 1
    BY <1>1, MacroRow DEF yy_accept, Entry, MacroRule, MacroLen, WordClasses
  <2> HIDE DEF q, c, s
  <2>3. Finds(f, 0, s, Entry(yy_accept, q), 1)
    BY <1>r, <2>1, Singles, Zenon
  <2> QED
    BY <2>2, <2>3, Zenon DEF s
<1>2. CASE k = 2
  <2> DEFINE r == 22
             M == Space
  <2>1. MacroRule(t, k) = r /\ MacroLen(t, k) = Run(t, 1, M) /\ q \in {32, 48}
    BY <1>2, MacroRow DEF MacroRule, MacroLen, WordClasses
  <2>2. Spans(t, f, q, r, M)
    <3>1. r \in Nat \ {0} /\ c \in M
      BY <1>0, <1>2 DEF Kind
    <3>2. \A i \in 0 .. Len(t) : f[i][q] = Span(r, t, i, M)
      BY <2>1, MacroSpaces, ZenonT(60)
    <3> QED
      BY <3>1, <3>2, Zenon DEF Spans
  <2> HIDE DEF q, c, s, r, M
  <2>3. Finds(f, 0, s, r, Run(t, 1, M))
    BY <1>r, <2>2, SpansAtHead, Zenon
  <2> QED
    BY <2>1, <2>3, Zenon DEF s
<1>3. CASE k \in WordClasses /\ k # 23
  <2> DEFINE r == 21
             M == AlphaNum
  <2>1. MacroRule(t, k) = r /\ MacroLen(t, k) = WordEnd(t, 0) /\ q \in {38, 52}
    BY <1>3, <1>w, MacroRow DEF MacroRule, MacroLen, WordClasses, IsKeyword
  <2>2. Spans(t, f, q, r, M)
    <3>1. r \in Nat \ {0} /\ c \in M
      BY <1>0, <1>3 DEF Kind, AlphaNum, WordClasses
    <3>2. \A i \in 0 .. Len(t) : f[i][q] = Span(r, t, i, M)
      BY <2>1, MacroWords, ZenonT(60)
    <3> QED
      BY <3>1, <3>2, Zenon DEF Spans
  <2>3. WordEnd(t, 0) = Run(t, 1, M)
    BY <1>w
  <2> HIDE DEF q, c, s, r, M
  <2>4. Finds(f, 0, s, r, Run(t, 1, M))
    BY <1>r, <2>2, SpansAtHead, Zenon
  <2> QED
    BY <2>1, <2>3, <2>4, Zenon DEF s
<1>4. CASE k \in 9 .. 11
  <2> DEFINE r == 23
  <2>1. MacroRule(t, k) = r /\ MacroLen(t, k) = NumberLen(t) /\ r \in Nat \ {0} /\ r \in {9, 23}
    BY <1>4 DEF MacroRule, MacroLen, WordClasses
  <2>2. f[1][q] = Match1(r, NumberLen(t))
    <3>1. (k = 9 => c = "0") /\ (k # 9 => c \in Digit \ {"0"})
      <4> HIDE DEF c, q, r, s
      <4> QED
        BY <1>0, <1>4 DEF Kind
    <3>2. (k = 9 => q \in Zeros(r)) /\ (k # 9 => q \in Digital(r))
      BY <1>4, MacroRow DEF Zeros, Digital
    <3> HIDE DEF q, r
    <3> QED
      BY <1>0, <2>1, <3>1, <3>2, NumbersAre
  <2> HIDE DEF q, c, s, r
  <2>3. Finds(f, 1, q, r, NumberLen(t))
    BY <2>1, <2>2 DEF Finds
  <2>4. Finds(f, 0, s, r, NumberLen(t))
    BY <1>r, <2>3, FirstStep, Zenon
  <2> QED
    BY <2>1, <2>4, Zenon DEF s
<1>5. CASE k = 23
  <2>1. q = 39
    BY <1>5, MacroRow
  <2>2. f[1][q] = KeyFound(t, 1)
    BY <1>0, <2>1, KeyChain, TextLen DEF Text
  <2>3. c = Keyword[1]
    <3>1. KindLetter(c, k)
      BY Kinds DEF Head1
    <3> QED
      BY <1>5, <3>1, KeyLetters DEF KindLetter
  <2>4. KeyRest(t, 1) <=> KeyRest(t, 0)
    BY <2>3 DEF KeyRest
  <2>5. WordEnd(t, 1) = WordEnd(t, 0)
    <3>1. c \in AlphaNum
      BY <2>3, KeyLetters
    <3>2. 0 \in 0 .. Len(t) /\ 0 < Len(t)
      BY <1>0, TextLen DEF Text
    <3> QED
      BY <1>0, <3>1, <3>2, WordEndIs
  <2>6. MacroRule(t, k) = IF IsKeyword(t) THEN 19 ELSE 21
    BY <1>5 DEF MacroRule, WordClasses
  <2>7. MacroLen(t, k) = WordEnd(t, 0)
    BY <1>5 DEF MacroLen, WordClasses
  <2>8. KeyFound(t, 1) = Match1(MacroRule(t, k), MacroLen(t, k))
    <3>1. CASE IsKeyword(t)
      BY <2>4, <2>5, <2>6, <2>7, <3>1 DEF KeyFound, IsKeyword
    <3>2. CASE ~IsKeyword(t)
      BY <2>4, <2>5, <2>6, <2>7, <3>2 DEF KeyFound, IsKeyword
    <3> QED
      BY <3>1, <3>2
  <2> DEFINE r == MacroRule(t, k)
             l == MacroLen(t, k)
  <2>9. r \in Nat \ {0}
    BY <2>6
  <2> HIDE DEF q, c, s
  <2>10. Finds(f, 1, q, r, l)
    BY <2>2, <2>8, <2>9 DEF Finds
  <2> HIDE DEF r, l
  <2>11. Finds(f, 0, s, r, l)
    BY <1>r, <2>10, FirstStep, Zenon
  <2> QED
    BY <2>11 DEF r, l, s
<1> QED
  BY <1>0, <1>1, <1>2, <1>3, <1>4, <1>5 DEF WordClasses

(* The tables of the automaton are the rules: a text that ends the input   *)
(* is matched, in each start condition, by the rule and to the length that *)
(* cmplv2.lex says, when a word has no marks of its own.                   *)
THEOREM TablesAreRules ==
  ASSUME WordMarks = {}, start \in StartConditions, NEW t \in Text, t # << >>
  PROVE  MatchAtEnd(t) = Matched(start, t)
<1>1. PICK f : Walk(t, f) /\ MatchAtEnd(t) = f[0][StartState]
  <2> DEFINE n == Len(t)
  <2>1. n \in Nat /\ n + 0 = n
    BY TextLen
  <2>2. \E f : Matching(t, n + 0, 0, f) /\ Along(t, 0) = f[0][StartState]
    BY <2>1, AlongIs, Zenon
  <2> HIDE DEF n
  <2>3. \E f : Matching(t, n, 0, f) /\ Along(t, 0) = f[0][StartState]
    BY <2>1, <2>2
  <2> QED
    BY <2>3, Zenon DEF n, Walk, MatchAtEnd
<1> DEFINE k == Class(t[1])
<1>2. Head1(t, k)
  BY <1>1, HeadIs
<1> HIDE DEF k
<1>3. ASSUME NEW all \in SUBSET Nat, NEW r, NEW l, all = Rules(start) \cup {28},
             Wins(all, t, r, l), NEW s, Finds(f, 0, s, r, l), StartState = s
      PROVE  MatchAtEnd(t) = Matched(start, t)
  <2>1. Matched(start, t) = Match1(r, l)
    BY <1>3, WinnerIs
  <2>2. f[0][s] = Match1(r, l)
    BY <1>3, Zenon DEF Finds
  <2> QED
    BY <1>1, <1>3, <2>1, <2>2, Zenon
<1>4. CASE start = "INITIAL"
  <2> DEFINE all == 1 .. 14 \cup {28}
             r == InitialRule(k)
             l == InitialLen(t, k)
             s == 1
  <2>1. all \in SUBSET Nat /\ all = Rules(start) \cup {28} /\ StartState = s
    BY <1>4 DEF Rules, StartState
  <2>2. Wins(all, t, r, l)
    BY <1>2, InitialWins, Zenon
  <2>3. Finds(f, 0, s, r, l)
    BY <1>1, <1>2, InitialFinds, Zenon
  <2> HIDE DEF all, r, l, s
  <2> QED
    BY <1>3, <2>1, <2>2, <2>3, Zenon
<1>5. CASE start = "REGISTER"
  <2> DEFINE all == {15, 16} \cup {28}
             r == RegisterRule(k)
             l == RegisterLen(t, k)
             s == 3
  <2>1. all \in SUBSET Nat /\ all = Rules(start) \cup {28} /\ StartState = s
    BY <1>5 DEF Rules, StartState
  <2>2. Wins(all, t, r, l)
    BY <1>2, RegisterWins, Zenon
  <2>3. Finds(f, 0, s, r, l)
    BY <1>1, <1>2, RegisterFinds, Zenon
  <2> HIDE DEF all, r, l, s
  <2> QED
    BY <1>3, <2>1, <2>2, <2>3, Zenon
<1>6. CASE start = "COMMENT"
  <2> DEFINE all == {26, 27} \cup {28}
             r == CommentRule(k)
             l == CommentLen(t, k)
             s == 5
  <2>1. all \in SUBSET Nat /\ all = Rules(start) \cup {28} /\ StartState = s
    BY <1>6 DEF Rules, StartState
  <2>2. Wins(all, t, r, l)
    BY <1>2, CommentWins, Zenon
  <2>3. Finds(f, 0, s, r, l)
    BY <1>1, <1>2, CommentFinds, Zenon
  <2> HIDE DEF all, r, l, s
  <2> QED
    BY <1>3, <2>1, <2>2, <2>3, Zenon
<1>7. CASE start = "MACRO"
  <2> DEFINE all == 19 .. 25 \cup {28}
             r == MacroRule(t, k)
             l == MacroLen(t, k)
             s == 7
  <2>1. all \in SUBSET Nat /\ all = Rules(start) \cup {28} /\ StartState = s
    BY <1>7 DEF Rules, StartState
  <2>2. Wins(all, t, r, l)
    BY <1>2, MacroWins, Zenon
  <2>3. Finds(f, 0, s, r, l)
    BY <1>1, <1>2, MacroFinds, Zenon
  <2> HIDE DEF all, r, l, s
  <2> QED
    BY <1>3, <2>1, <2>2, <2>3, Zenon
<1>8. CASE start = "INCLUDE"
  <2> DEFINE all == {17, 18} \cup {28}
             r == IncludeRule(k)
             l == IncludeLen(t, k)
             s == 9
  <2>1. all \in SUBSET Nat /\ all = Rules(start) \cup {28} /\ StartState = s
    BY <1>8 DEF Rules, StartState
  <2>2. Wins(all, t, r, l)
    BY <1>2, IncludeWins, Zenon
  <2>3. Finds(f, 0, s, r, l)
    BY <1>1, <1>2, IncludeFinds, Zenon
  <2> HIDE DEF all, r, l, s
  <2> QED
    BY <1>3, <2>1, <2>2, <2>3, Zenon
<1> QED
  BY <1>4, <1>5, <1>6, <1>7, <1>8 DEF StartConditions

(***************************************************************************)
(* What a match does not depend on: where it does not run into the end of  *)
(* the buffer, it is the match of the text with all that is read later.    *)
(***************************************************************************)
LEMMA EndTargets ==
  /\ \A s \in 1 .. 70 : Own(s, 0) /\ s # 11 => Target(s, 0) = 11
  /\ \A s \in 1 .. 70 : Default(s) # 11
BY DEF Own, Target, Default, yy_base, yy_chk, yy_nxt, yy_def, Entry

LEMMA EndFrom ==
  ASSUME NEW s \in 1 .. 63
  PROVE  /\ Transition[s][0] \in {11, 63}
         /\ s # 11 => Transition[s][0] = 11
<1> DEFINE c == 0
<1>0. s \in 1 .. 70 /\ c \in 0 .. 27
  OBVIOUS
<1>1. PICK d \in 1 .. 70, e \in 0 .. 27 : From(s, c, d, e)
  <2> HIDE DEF c
  <2> QED
    BY <1>0, TransitionFrom, Zenon
<1>2. /\ d = s \/ (s # 63 /\ d = Default(s)) \/ d = 63
      /\ Own(d, e) /\ Transition[s][c] = Target(d, e)
      /\ c = 0 => e = 0
  BY <1>1 DEF From
<1>3. e = 0 /\ (s # 11 => d # 11)
  BY <1>0, <1>2, EndTargets
<1> QED
  BY <1>2, <1>3, EndTargets, EndEntry

(* The matches when the end-of-buffer characters are behind the text.      *)
Buffered(p, f) == p \in Text /\ Matching(p, Len(p) + 2, 0, f)

LEMMA BufferedIs ==
  ASSUME NEW p, NEW f, Buffered(p, f), NEW i \in 0 .. Len(p) + 2, NEW s \in 1 .. 63
  PROVE  f[i][s] = BestAt(p, Len(p) + 2, f, i, s)
<1>1. f[i] = BestFrom(p, Len(p) + 2, f, i)
  BY MatchingIs DEF Buffered
<1> QED
  BY <1>1 DEF BestFrom

LEMMA BehindBuffer ==
  ASSUME NEW p, NEW f, Buffered(p, f), NEW s \in 1 .. 63
  PROVE  f[Len(p)][s].rule = EndOfBufferAct \/ Entry(yy_base, s) = JamBase
<1> DEFINE l == Len(p)
           n == Len(p) + 2
<1>0. l \in Nat /\ n = l + 2
  BY TextLen DEF Buffered
<1>1. \A i \in 0 .. n : \A q \in 1 .. 63 : f[i][q] = BestAt(p, n, f, i, q)
  BY BufferedIs
<1>2. ClassAt(p, l + 1) = 0 /\ ClassAt(p, l + 2) = 0
  BY <1>0 DEF ClassAt, EndOfBufferClass
<1> HIDE DEF l, n
<1>3. \A q \in {11, 63} : f[n][q].rule \in {0, EndOfBufferAct}
  <2>1. \A q \in {11, 63} : Beyond(p, n, f, n, q).rule = 0
    BY DEF Beyond, NoMatch
  <2>2. \A q \in {11, 63} : f[n][q] = BestAt(p, n, f, n, q)
    BY <1>0, <1>1
  <2>3. \A q \in {11, 63} : f[n][q].rule = Entry(yy_accept, q)
    BY <2>1, <2>2 DEF BestAt
  <2> QED
    BY <2>3, EndAccepts DEF EndOfBufferAct
<1>4. f[l + 1][11].rule = EndOfBufferAct
  <2> DEFINE r == Beyond(p, n, f, l + 1, 11)
  <2>1. l + 1 # n /\ l + 1 + 1 = n /\ l + 1 \in 0 .. n /\ l + 2 = l + 1 + 1
    BY <1>0
  <2>2. r = NoMatch \/ r = f[n][Transition[11][0]]
    BY <1>2, <2>1 DEF Beyond
  <2>3. Transition[11][0] \in {11, 63}
    BY EndFrom
  <2>4. r.rule \in {0, EndOfBufferAct}
    BY <1>3, <2>2, <2>3 DEF NoMatch
  <2>5. f[l + 1][11] = IF r.rule # 0 THEN r ELSE [rule |-> Entry(yy_accept, 11), len |-> l + 1]
    <3>1. f[l + 1][11] = BestAt(p, n, f, l + 1, 11)
      BY <1>1, <2>1
    <3> QED
      BY <3>1, Zenon DEF BestAt
  <2> HIDE DEF r
  <2> QED
    BY <2>4, <2>5, EndAccepts DEF EndOfBufferAct
<1>5. f[l + 1][63].rule = 0
  <2>1. l + 1 \in 0 .. n
    BY <1>0
  <2>2. Entry(yy_base, 63) = JamBase
    BY DEF yy_base, Entry, JamBase
  <2>3. Beyond(p, n, f, l + 1, 63).rule = 0
    BY <2>2 DEF Beyond, NoMatch
  <2>4. f[l + 1][63] = BestAt(p, n, f, l + 1, 63)
    BY <1>1, <2>1
  <2> QED
    BY <2>3, <2>4, EndAccepts DEF BestAt
<1>6. SUFFICES ASSUME Entry(yy_base, s) # JamBase
               PROVE  f[l][s].rule = EndOfBufferAct
  BY DEF l
<1> DEFINE q == Transition[s][0]
           r == Beyond(p, n, f, l, s)
<1>7. r = f[l + 1][q]
  BY <1>0, <1>2, <1>6 DEF Beyond
<1>8. f[l][s] = IF r.rule # 0 THEN r ELSE [rule |-> Entry(yy_accept, s), len |-> l]
  <2>1. l \in 0 .. n
    BY <1>0
  <2> QED
    BY <1>1, <2>1 DEF BestAt
<1>9. q \in {11, 63} /\ (s # 11 => q = 11)
  BY EndFrom
<1> HIDE DEF q, r
<1>10. EndOfBufferAct # 0
  BY DEF EndOfBufferAct
<1>11. CASE q = 11
  BY <1>4, <1>7, <1>8, <1>10, <1>11
<1>12. CASE q # 11
  <2>1. q = 63 /\ s = 11
    BY <1>9, <1>12
  <2>2. r.rule = 0
    BY <1>5, <1>7, <2>1
  <2> QED
    BY <1>8, <2>1, <2>2, EndAccepts DEF EndOfBufferAct
<1> QED
  BY <1>11, <1>12

(* The text p with the text u behind it.                                   *)
Agrees(f, g, i) == \A s \in 1 .. 63 : f[i][s].rule # EndOfBufferAct => g[i][s] = f[i][s]

LEMMA BothAre ==
  ASSUME NEW p \in Text, NEW u \in Text
  PROVE  /\ p \o u \in Text /\ Len(p \o u) = Len(p) + Len(u)
         /\ Len(p) \in Nat /\ Len(u) \in Nat
         /\ \A i \in 1 .. Len(p) : (p \o u)[i] = p[i]
BY DEF Text

LEMMA AgreesBack ==
  ASSUME NEW p, NEW u \in Text, NEW f, NEW g, Buffered(p, f), Walk(p \o u, g),
         NEW i \in 0 .. Len(p), i # Len(p) => Agrees(f, g, i + 1)
  PROVE  Agrees(f, g, i)
<1> SUFFICES ASSUME NEW s \in 1 .. 63, f[i][s].rule # EndOfBufferAct
             PROVE  g[i][s] = f[i][s]
  BY DEF Agrees
<1> DEFINE t == p \o u
           l == Len(p)
           n == Len(p) + 2
           here == [rule |-> Entry(yy_accept, s), len |-> i]
<1>0. /\ l \in Nat /\ n = l + 2 /\ t \in Text /\ Len(t) \in Nat /\ l <= Len(t)
      /\ \A j \in 1 .. l : t[j] = p[j]
  <2>1. p \in Text
    BY DEF Buffered
  <2>2. /\ t \in Text /\ Len(t) = l + Len(u) /\ l \in Nat /\ Len(u) \in Nat
        /\ \A j \in 1 .. l : t[j] = p[j]
    BY <2>1, BothAre
  <2> HIDE DEF t, l
  <2> QED
    BY <2>2 DEF l
<1>a. i \in 0 .. Len(t) /\ i \in 0 .. n
  <2> HIDE DEF t
  <2> QED
    BY <1>0
<1>1. f[i][s] = IF Beyond(p, n, f, i, s).rule # 0 THEN Beyond(p, n, f, i, s) ELSE here
  <2>1. f[i][s] = BestAt(p, n, f, i, s)
    BY <1>a, BufferedIs, Zenon
  <2> QED
    BY <2>1, Zenon DEF BestAt
<1>2. g[i][s] = IF Beyond(t, Len(t), g, i, s).rule # 0 THEN Beyond(t, Len(t), g, i, s) ELSE here
  <2>1. s \in States
    BY DEF States
  <2>2. g[i][s] = BestAt(t, Len(t), g, i, s)
    BY <1>a, <2>1, WalkIs, Zenon
  <2> QED
    BY <2>2, Zenon DEF BestAt
<1> HIDE DEF t, l, n, here
<1>3. CASE Entry(yy_base, s) = JamBase
  <2>1. Beyond(p, n, f, i, s) = NoMatch /\ Beyond(t, Len(t), g, i, s) = NoMatch
    BY <1>3 DEF Beyond
  <2>2. NoMatch.rule = 0
    BY DEF NoMatch
  <2> QED
    BY <1>1, <1>2, <2>1, <2>2
<1>4. CASE Entry(yy_base, s) # JamBase
  <2>1. i # l
    BY <1>4, BehindBuffer DEF l
  <2>2. i # n /\ i # Len(t) /\ i + 1 \in 1 .. l /\ i + 1 <= Len(t)
    BY <1>0, <2>1 DEF l
  <2>3. ClassAt(p, i + 1) = ClassAt(t, i + 1)
    BY <1>0, <2>2 DEF ClassAt, l
  <2> DEFINE q == Transition[s][ClassAt(p, i + 1)]
  <2>4. Beyond(p, n, f, i, s) = f[i + 1][q] /\ Beyond(t, Len(t), g, i, s) = g[i + 1][q]
    BY <1>4, <2>2, <2>3 DEF Beyond
  <2>5. q \in 1 .. 63
    <3>1. ClassAt(p, i + 1) \in 0 .. 27 /\ s \in 1 .. 70
      BY ClassRange DEF ClassAt, EndOfBufferClass
    <3> QED
      BY <3>1, TransitionRange
  <2>6. Agrees(f, g, i + 1)
    BY <2>1 DEF l
  <2> HIDE DEF q
  <2>7. f[i + 1][q].rule # EndOfBufferAct
    <3>1. EndOfBufferAct # 0
      BY DEF EndOfBufferAct
    <3> QED
      BY <1>1, <2>4, <3>1
  <2>8. g[i + 1][q] = f[i + 1][q]
    BY <2>5, <2>6, <2>7 DEF Agrees
  <2> QED
    BY <1>1, <1>2, <2>4, <2>8
<1> QED
  BY <1>3, <1>4

LEMMA BufferedExists ==
  ASSUME NEW p \in Text
  PROVE  \E f : Buffered(p, f) /\ Match(p) = f[0][StartState]
<1>1. Len(p) + 2 \in Nat
  BY TextLen
<1>2. \E f : Matching(p, Len(p) + 2, 0, f) /\ Along(p, 2) = f[0][StartState]
  BY <1>1, AlongIs, Zenon
<1> QED
  BY <1>2, Zenon DEF Buffered, Match

LEMMA WalkExists ==
  ASSUME NEW t \in Text
  PROVE  \E f : Walk(t, f) /\ MatchAtEnd(t) = f[0][StartState]
<1> DEFINE n == Len(t)
<1>1. n \in Nat /\ n + 0 = n
  BY TextLen
<1>2. \E f : Matching(t, n + 0, 0, f) /\ Along(t, 0) = f[0][StartState]
  BY <1>1, AlongIs, Zenon
<1> HIDE DEF n
<1>3. \E f : Matching(t, n, 0, f) /\ Along(t, 0) = f[0][StartState]
  BY <1>1, <1>2
<1> QED
  BY <1>3, Zenon DEF n, Walk, MatchAtEnd

(* A match that does not run into the end of the buffer is the match of    *)
(* the text whatever is read behind it, and no text is no match.           *)
THEOREM MatchesStay ==
  ASSUME start \in StartConditions, NEW p \in Text, NEW u \in Text
  PROVE  /\ ~AtBufEnd(Match(p)) => MatchAtEnd(p \o u) = Match(p)
         /\ p = << >> => AtBufEnd(Match(p))
<1>1. PICK f : Buffered(p, f) /\ Match(p) = f[0][StartState]
  BY BufferedExists
<1>2. p \o u \in Text
  BY BothAre
<1>3. PICK g : Walk(p \o u, g) /\ MatchAtEnd(p \o u) = g[0][StartState]
  BY <1>2, WalkExists
<1>4. StartState \in 1 .. 63
  BY StartStates
<1> DEFINE l == Len(p)
           E == {i \in 0 .. l : Agrees(f, g, i)}
<1>5. l \in Nat
  BY TextLen
<1>6. ASSUME NEW i \in 0 .. l, i # l => i + 1 \in E
      PROVE  i \in E
  <2>1. i # Len(p) => Agrees(f, g, i + 1)
    BY <1>6
  <2> QED
    BY <1>1, <1>3, <2>1, AgreesBack
<1>7. l \in E
  <2> HIDE DEF E
  <2> QED
    BY <1>5, <1>6
<1>8. \A i \in 0 .. l - 1 : i + 1 \in E => i \in E
  <2> HIDE DEF E
  <2> QED
    BY <1>5, <1>6
<1>9. \A i \in 0 .. l : i \in E
  <2> HIDE DEF E, l
  <2> QED
    BY <1>5, <1>7, <1>8, Downward
<1>10. Agrees(f, g, 0)
  BY <1>5, <1>9
<1>11. p = << >> => AtBufEnd(Match(p))
  <2>1. Entry(yy_base, StartState) # JamBase
    BY DEF StartConditions, StartState, yy_base, Entry, JamBase
  <2>2. f[Len(p)][StartState].rule = EndOfBufferAct
    BY <1>1, <1>4, <2>1, BehindBuffer
  <2>3. p = << >> => Len(p) = 0
    OBVIOUS
  <2> QED
    BY <1>1, <2>2, <2>3 DEF AtBufEnd
<1> QED
  BY <1>1, <1>3, <1>4, <1>10, <1>11 DEF Agrees, AtBufEnd

-----------------------------------------------------------------------------
(***************************************************************************)
(* The rules of the abstract lexer are the rules.                          *)
(***************************************************************************)
LEMMA SameMinMax == \A S : Lexer!Min(S) = Min(S) /\ Lexer!Max(S) = Max(S)
BY Zenon DEF Lexer!Min, Min, Lexer!Max, Max

LEMMA SameSets ==
  /\ Lexer!Space = Space /\ Lexer!Alpha = Alpha /\ Lexer!Digit = Digit /\ Lexer!RegChar = RegChar
  /\ Lexer!Octal = Octal /\ Lexer!Keyword = Keyword /\ Lexer!NUL = NUL /\ Lexer!Returning = Returning
  /\ Lexer!Digits = Digits
BY Zenon DEF Lexer!Space, Space, Lexer!Alpha, Alpha, Lexer!Lower, Lower, Lexer!Upper, Upper,
   Lexer!Digit, Digit, Lexer!Digits, Digits, Lexer!Octal, Octal, Lexer!RegChar, RegChar,
   Lexer!Keyword, Keyword, Lexer!NUL, NUL, Lexer!Returning, Returning

LEMMA SameRun == \A t, i, set : Lexer!Run(t, i, set) = Run(t, i, set)
BY SameMinMax, Zenon DEF Lexer!Run, Run

LEMMA SameLens ==
  ASSUME NEW t
  PROVE  /\ \A set : Lexer!One(t, set) = One(t, set)
         /\ Lexer!WordLen(t) = WordLen(t)
         /\ Lexer!NumberLen(t) = NumberLen(t)
         /\ Lexer!KeywordLen(t) = KeywordLen(t)
         /\ \A i : Lexer!NotNewline(t, i) = NotNewline(t, i)
         /\ Lexer!FileNameLen(t) = FileNameLen(t)
<1>1. \A set : Lexer!One(t, set) = One(t, set)
  BY SameRun, Zenon DEF Lexer!One, One
<1>2. Lexer!WordLen(t) = WordLen(t)
  <2>1. Lexer!WordLen(t) = IF Lexer!One(t, Lexer!Alpha \cup WordMarks) = 0 THEN 0
                           ELSE Lexer!Run(t, 1, Lexer!Alpha \cup WordMarks \cup Lexer!Digit)
    BY Zenon DEF Lexer!WordLen
  <2>2. WordLen(t) = IF One(t, Alpha \cup WordMarks) = 0 THEN 0
                     ELSE Run(t, 1, Alpha \cup WordMarks \cup Digit)
    BY Zenon DEF WordLen
  <2> QED
    BY <1>1, <2>1, <2>2, SameRun, SameSets
<1>3. Lexer!NumberLen(t) = NumberLen(t)
  BY Zenon DEF Lexer!NumberLen, NumberLen, Lexer!Run, Run, Lexer!Min, Min, Lexer!Max, Max,
     Lexer!Digit, Digit, Lexer!Digits, Digits
<1>4. Lexer!KeywordLen(t) = KeywordLen(t)
  BY SameSets, Zenon DEF Lexer!KeywordLen, KeywordLen
<1>5. \A i : Lexer!NotNewline(t, i) = NotNewline(t, i)
  BY SameMinMax, Zenon DEF Lexer!NotNewline, NotNewline
<1>6. Lexer!FileNameLen(t) = FileNameLen(t)
  BY SameMinMax, SameSets, Zenon DEF Lexer!FileNameLen, FileNameLen
<1> QED
  BY <1>1, <1>2, <1>3, <1>4, <1>5, <1>6, Zenon

LEMMA SameMatch ==
  ASSUME NEW s, NEW t
  PROVE  Lexer!Matched(s, t) = Matched(s, t)
<1>1. \A r : Lexer!MatchLen(r, t) = MatchLen(r, t)
  BY SameLens, SameRun, SameSets, Zenon DEF Lexer!MatchLen, MatchLen
<1>2. Lexer!Rules(s) = Rules(s)
  BY Zenon DEF Lexer!Rules, Rules
<1> DEFINE all == Rules(s) \cup {28}
           lens == {MatchLen(r, t) : r \in all}
<1>3. {Lexer!MatchLen(r, t) : r \in Lexer!Rules(s) \cup {28}} = lens
  BY <1>1, <1>2
<1>4. Lexer!Max({Lexer!MatchLen(r, t) : r \in Lexer!Rules(s) \cup {28}}) = Max(lens)
  BY <1>3, SameMinMax, Zenon
<1> DEFINE first == {r \in all : MatchLen(r, t) = Max(lens)}
           theirs == {r \in Lexer!Rules(s) \cup {28} : Lexer!MatchLen(r, t) =
                        Lexer!Max({Lexer!MatchLen(r2, t) : r2 \in Lexer!Rules(s) \cup {28}})}
<1>5. theirs = first
  <2> HIDE DEF lens
  <2> QED
    BY <1>1, <1>2, <1>4
<1>6. Lexer!Min(theirs) = Min(first)
  BY <1>5, SameMinMax, Zenon
<1>7. Lexer!Matched(s, t) = [rule |-> Lexer!Min(theirs),
                             len |-> Lexer!Max({Lexer!MatchLen(r, t) : r \in Lexer!Rules(s) \cup {28}})]
  BY Zenon DEF Lexer!Matched
<1>8. Matched(s, t) = [rule |-> Min(first), len |-> Max(lens)]
  BY Zenon DEF Matched
<1> HIDE DEF first, theirs, lens
<1> QED
  BY <1>4, <1>6, <1>7, <1>8, Zenon

LEMMA SameActions ==
  /\ \A r, s, b : Lexer!After(r, s, b) = After(r, s, b)
  /\ \A x : Lexer!Sign(x) = Sign(x)
  /\ \A x : Lexer!FileName(x) = FileName(x)
  /\ \A r, x : Lexer!TokenOf(r, x) = TokenOf(r, x)
<1>1. \A r, s, b : Lexer!After(r, s, b) = After(r, s, b)
  BY Zenon DEF Lexer!After, After
<1>2. \A x, y, z : Lexer!Token(x, y, z) = Token(x, y, z)
  BY Zenon DEF Lexer!Token, Token
<1>3. \A x : Lexer!Sign(x) = Sign(x)
  BY <1>2, Zenon DEF Lexer!Sign, Sign
<1>4. \A x : Lexer!FileName(x) = FileName(x)
  BY SameMinMax, SameSets, Zenon DEF Lexer!FileName, FileName
<1>5. Lexer!Value = Value
  BY DEF Lexer!Value, Value, Lexer!Digit, Digit, Lexer!Digits, Digits
<1>6. \A x : Lexer!StrTol(x) = StrTol(x)
  <2> SUFFICES ASSUME NEW x
               PROVE  Lexer!StrTol(x) = StrTol(x)
    OBVIOUS
  <2> QED
    BY SMT DEF StrTol, Lexer!StrTol, Lexer!LongMax, LongMax, Lexer!Value, Value, Lexer!Digit, Digit,
       Lexer!Digits, Digits, Lexer!Octal, Octal, Lexer!Run, Run, Lexer!Min, Min
<1>7. \A x : Lexer!NumberToken(x) = NumberToken(x)
  BY <1>2, <1>6, Zenon DEF Lexer!NumberToken, NumberToken, Lexer!ErrorAt, ErrorAt
<1>8. \A r, x : Lexer!TokenOf(r, x) = TokenOf(r, x)
  BY <1>2, <1>3, <1>7, Zenon DEF Lexer!TokenOf, TokenOf, Lexer!ErrorAt, ErrorAt
<1> QED
  BY <1>1, <1>3, <1>4, <1>8, Zenon

-----------------------------------------------------------------------------
(***************************************************************************)
(* What is left of a text, and of all that are open.                       *)
(***************************************************************************)
LEMMA NoText == << >> \in Text /\ Len(<< >>) = 0
BY EmptySeq DEF Text

LEMMA Behind ==
  ASSUME NEW t \in Text, NEW u \in Text
  PROVE  t \o u \in Text /\ t \o << >> = t /\ (t \o u = << >> => t = << >> /\ u = << >>)
<1>1. t \o u \in Text /\ t \o << >> = t
  BY ConcatProperties, ConcatEmptySeq DEF Text
<1>2. t \o u = << >> => t = << >> /\ u = << >>
  BY ConcatEqualIffEmpty DEF Text
<1> QED
  BY <1>1, <1>2

LEMMA SubText ==
  ASSUME NEW c \in Text, NEW p \in 1 .. Len(c) + 1, NEW n \in Nat, n <= Len(c)
  PROVE  /\ SubSeq(c, p, n) \in Text
         /\ Len(SubSeq(c, p, n)) = IF p <= n THEN n - p + 1 ELSE 0
         /\ \A i \in 1 .. n - p + 1 : SubSeq(c, p, n)[i] = c[p + i - 1]
<1>1. c \in Seq(STRING) /\ Len(c) \in Nat
  BY DEF Text
<1>2. p \in Int /\ n \in Int
  BY <1>1
<1>3. \A i \in p .. n : c[i] \in STRING
  <2>1. \A i \in p .. n : i \in 1 .. Len(c)
    BY <1>1
  <2> QED
    BY <1>1, <2>1, ElementOfSeq
<1>4. /\ SubSeq(c, p, n) \in Seq(STRING)
      /\ Len(SubSeq(c, p, n)) = IF p <= n THEN n - p + 1 ELSE 0
      /\ \A i \in 1 .. n - p + 1 : SubSeq(c, p, n)[i] = c[p + i - 1]
  BY <1>2, <1>3, SubSeqProperties
<1> QED
  BY <1>4 DEF Text

LEMMA Concat ==
  ASSUME NEW S, NEW a \in Seq(S), NEW b \in Seq(S), NEW k, NEW n, k = Len(a), n = Len(b)
  PROVE  /\ a \o b \in Seq(S) /\ Len(a \o b) = k + n /\ k \in Nat /\ n \in Nat
         /\ \A i \in 1 .. k + n : (a \o b)[i] = IF i <= k THEN a[i] ELSE b[i - k]
<1>1. k \in Nat /\ n \in Nat
  BY LenProperties
<1> QED
  BY <1>1, ConcatProperties

(* What is left after l characters more.                                   *)
LEMMA LeftOver ==
  ASSUME NEW c \in Text, NEW u \in Text, NEW p \in 1 .. Len(c) + 1,
         NEW l \in Nat, p + l <= Len(c) + 1
  PROVE  LET t == SubSeq(c, p, Len(c)) \o u
         IN  SubSeq(c, p + l, Len(c)) \o u = SubSeq(t, l + 1, Len(t))
<1> DEFINE n == Len(c)
           m == Len(u)
           a == SubSeq(c, p, n)
           d == SubSeq(c, p + l, n)
           t == a \o u
           x == d \o u
           y == SubSeq(t, l + 1, Len(t))
<1>0. n \in Nat /\ m \in Nat /\ p + l \in 1 .. n + 1 /\ p \in 1 .. n + 1
  BY TextLen
<1>1. /\ a \in Text /\ Len(a) = n - p + 1
      /\ \A i \in 1 .. n - p + 1 : a[i] = c[p + i - 1]
  BY <1>0, SubText
<1>2. /\ d \in Text /\ Len(d) = n - p - l + 1
      /\ \A i \in 1 .. n - p - l + 1 : d[i] = c[p + l + i - 1]
  BY <1>0, SubText
<1> HIDE DEF a, d
<1> DEFINE j == n - p + 1
           q == n - p - l + 1
<1> HIDE DEF m, j, q
<1>3. /\ t \in Text /\ Len(t) = j + m
      /\ \A i \in 1 .. j + m : t[i] = IF i <= j THEN a[i] ELSE u[i - j]
  <2>1. a \in Seq(STRING) /\ u \in Seq(STRING) /\ j = Len(a) /\ m = Len(u)
    BY <1>1 DEF Text, m, j
  <2> QED
    BY <2>1, Concat DEF Text
<1>4. /\ x \in Text /\ Len(x) = q + m
      /\ \A i \in 1 .. q + m : x[i] = IF i <= q THEN d[i] ELSE u[i - q]
  <2>1. d \in Seq(STRING) /\ u \in Seq(STRING) /\ q = Len(d) /\ m = Len(u)
    BY <1>2 DEF Text, m, q
  <2> QED
    BY <2>1, Concat DEF Text
<1> HIDE DEF t, x
<1> DEFINE k == Len(t)
<1>5. k \in Nat /\ l + 1 \in 1 .. k + 1 /\ k = j + m /\ j = q + l /\ q \in Nat /\ j \in Nat
  BY <1>0, <1>3 DEF j, q
<1>6. /\ SubSeq(t, l + 1, k) \in Text
      /\ Len(SubSeq(t, l + 1, k)) = k - l
      /\ \A i \in 1 .. k - l : SubSeq(t, l + 1, k)[i] = t[l + i]
  BY <1>0, <1>3, <1>5, SubText
<1>7. y \in Text /\ Len(y) = k - l /\ (\A i \in 1 .. k - l : y[i] = t[l + i])
  BY <1>6
<1>8. /\ \A i \in 1 .. j : a[i] = c[p + i - 1]
      /\ \A i \in 1 .. q : d[i] = c[p + l + i - 1]
  BY <1>1, <1>2 DEF j, q
<1> HIDE DEF y, k, n
<1>9. ASSUME NEW i \in 1 .. k - l
      PROVE  x[i] = y[i]
  <2>1. y[i] = t[l + i] /\ i \in 1 .. q + m /\ l + i \in 1 .. j + m
    BY <1>0, <1>5, <1>7
  <2>2. CASE i <= q
    <3>1. l + i <= j /\ i \in 1 .. q /\ l + i \in 1 .. j /\ p + l + i - 1 = p + (l + i) - 1
      BY <1>0, <1>5, <2>2
    <3>2. x[i] = d[i] /\ t[l + i] = a[l + i]
      BY <1>3, <1>4, <2>1, <2>2, <3>1
    <3> QED
      BY <1>8, <2>1, <3>1, <3>2
  <2>3. CASE ~(i <= q)
    <3>1. ~(l + i <= j) /\ i - q = l + i - j
      BY <1>0, <1>5, <2>3
    <3>2. x[i] = u[i - q]
      BY <1>4, <2>1, <2>3
    <3> DEFINE e == l + i
    <3>3. e \in 1 .. j + m /\ ~(e <= j)
      BY <2>1, <3>1
    <3> HIDE DEF e
    <3>4. t[e] = u[e - j]
      BY <1>3, <3>3
    <3> DEFINE w == i - q
               v == e - j
    <3>5. w = v
      BY <1>0, <1>5, <2>1 DEF e
    <3>6. y[i] = t[e]
      BY <2>1 DEF e
    <3>7. x[i] = u[w] /\ t[e] = u[v]
      BY <3>2, <3>4
    <3> HIDE DEF w, v
    <3> QED
      BY <3>5, <3>6, <3>7
  <2> QED
    BY <2>2, <2>3
<1>10. x = y
  <2>1. Len(x) = k - l
    BY <1>0, <1>4, <1>5
  <2> QED
    BY <1>4, <1>7, <1>9, <2>1, SeqEqual DEF Text
<1> QED
  BY <1>10 DEF x, y, t, a, d, n, k

LEMMA Regrouped ==
  ASSUME NEW s \in Text, NEW v \in Text, NEW w \in Text
  PROVE  (s \o v) \o w = s \o (v \o w)
<1>1. s \in Seq(STRING) /\ v \in Seq(STRING) /\ w \in Seq(STRING)
  BY DEF Text
<1> QED
  BY <1>1, ConcatAssociative

(* What is read into a buffer is what was left in its file.                *)
LEMMA ReadOn ==
  ASSUME NEW t \in Text, NEW u \in Text, NEW n \in 0 .. Len(u)
  PROVE  LET x == t \o SubSeq(u, 1, n)
         IN  /\ x \in Text
             /\ SubSeq(x, 1, Len(x)) \o SubSeq(u, n + 1, Len(u)) = t \o u
<1> DEFINE a == SubSeq(u, 1, n)
           b == SubSeq(u, n + 1, Len(u))
           x == t \o a
<1>0. Len(u) \in Nat /\ n \in Nat
  BY TextLen
<1>1. a \in Text /\ b \in Text
  BY <1>0, SubText
<1>2. a \o b = u
  <2> DEFINE k == Len(u) - n
  <2>a. /\ Len(a) = n /\ (\A i \in 1 .. n : a[i] = u[i])
        /\ Len(b) = k /\ (\A i \in 1 .. k : b[i] = u[n + i])
    BY <1>0, SubText
  <2>b. k \in Nat /\ n + k = Len(u)
    BY <1>0
  <2> HIDE DEF a, b, k
  <2>1. /\ a \o b \in Text /\ Len(a \o b) = n + k
        /\ \A i \in 1 .. n + k : (a \o b)[i] = IF i <= n THEN a[i] ELSE b[i - n]
    BY <1>1, <2>a, Concat DEF Text
  <2>2. ASSUME NEW i \in 1 .. Len(u)
        PROVE  (a \o b)[i] = u[i]
    <3>1. (a \o b)[i] = IF i <= n THEN a[i] ELSE b[i - n]
      BY <2>1, <2>b
    <3>2. i > n => b[i - n] = u[i]
      <4>1. i > n => i - n \in 1 .. k /\ n + (i - n) = i
        BY <1>0, <2>b
      <4> QED
        BY <2>a, <4>1
    <3> QED
      BY <1>0, <2>a, <3>1, <3>2
  <2> QED
    BY <2>1, <2>2, <2>b, SeqEqual DEF Text
<1> HIDE DEF a, b
<1>3. x \in Text
  BY <1>1, ConcatProperties DEF Text
<1> HIDE DEF x
<1>4. SubSeq(x, 1, Len(x)) = x
  <2>1. x \in Seq(STRING)
    BY <1>3 DEF Text
  <2> QED
    BY <2>1, SubSeqFull, Zenon
<1>x. x = t \o a
  BY DEF x
<1>5. (t \o a) \o b = t \o (a \o b)
  BY <1>1, Regrouped
<1>6. SubSeq(x, 1, Len(x)) \o b = t \o u
  <2>1. SubSeq(x, 1, Len(x)) \o b = x \o b
    BY <1>4, Zenon
  <2>2. t \o (a \o b) = t \o u
    BY <1>2, Zenon
  <2> QED
    BY <1>x, <1>5, <2>1, <2>2, Zenon
<1> QED
  BY <1>3, <1>6, Zenon DEF a, b, x

(* Sequences of texts, of which the first is replaced, that get one more   *)
(* or lose the first.                                                      *)
Texts2 == Seq(Text)

LEMMA ReplacedIs ==
  ASSUME NEW s \in Texts2, NEW x \in Text, s # << >>
  PROVE  LET t == << x >> \o Tail(s)
         IN  /\ t \in Texts2 /\ Len(t) = Len(s) /\ Len(s) \in Nat \ {0} /\ t[1] = x
             /\ \A i \in 2 .. Len(s) : t[i] = s[i]
<1>1. Len(s) \in Nat \ {0}
  BY EmptySeq DEF Texts2
<1>2. /\ Tail(s) \in Texts2 /\ Len(Tail(s)) = Len(s) - 1
      /\ \A i \in 1 .. Len(s) - 1 : Tail(s)[i] = s[i + 1]
  BY HeadTailProperties DEF Texts2
<1> DEFINE r == Tail(s)
           o == << x >>
           t == o \o r
<1>3. o \in Texts2 /\ Len(o) = 1 /\ o[1] = x
  BY DEF Texts2
<1> HIDE DEF r, o
<1>4. /\ t \in Texts2 /\ Len(t) = 1 + Len(r)
      /\ \A i \in 1 .. 1 + Len(r) : t[i] = IF i <= 1 THEN o[i] ELSE r[i - 1]
  <2>1. r \in Seq(Text) /\ o \in Seq(Text)
    BY <1>2, <1>3 DEF r, Texts2
  <2>2. /\ o \o r \in Seq(Text) /\ Len(o \o r) = Len(o) + Len(r)
        /\ \A i \in 1 .. Len(o) + Len(r) : (o \o r)[i] = IF i <= Len(o) THEN o[i] ELSE r[i - Len(o)]
    BY <2>1, ConcatProperties
  <2> QED
    BY <1>3, <2>2 DEF Texts2
<1> HIDE DEF t
<1>5. Len(t) = Len(s) /\ t[1] = x
  BY <1>1, <1>2, <1>3, <1>4 DEF r
<1>6. ASSUME NEW i \in 2 .. Len(s)
      PROVE  t[i] = s[i]
  <2>1. i - 1 \in 1 .. Len(s) - 1 /\ i - 1 + 1 = i /\ ~(i <= 1)
    BY <1>1
  <2>2. t[i] = r[i - 1]
    BY <1>1, <1>2, <1>4, <2>1 DEF r
  <2> QED
    BY <1>2, <2>1, <2>2 DEF r
<1>7. /\ t \in Texts2 /\ Len(t) = Len(s) /\ Len(s) \in Nat \ {0} /\ t[1] = x
      /\ \A i \in 2 .. Len(s) : t[i] = s[i]
  BY <1>1, <1>4, <1>5, <1>6
<1> QED
  BY <1>7 DEF t, o, r

LEMMA FirstReplaced ==
  ASSUME NEW s \in Texts2, NEW t \in Texts2, NEW x \in Text, s # << >>,
         Len(t) = Len(s), t[1] = x, \A i \in 2 .. Len(s) : t[i] = s[i]
  PROVE  t = << x >> \o Tail(s)
<1> DEFINE w == << x >> \o Tail(s)
           n == Len(s)
<1>1. /\ w \in Texts2 /\ Len(w) = n /\ n \in Nat \ {0} /\ w[1] = x
      /\ \A i \in 2 .. n : w[i] = s[i]
  BY ReplacedIs
<1>2. Len(t) = n /\ \A i \in 2 .. n : t[i] = s[i]
  OBVIOUS
<1> HIDE DEF w, n
<1>3. ASSUME NEW i \in 1 .. n
      PROVE  t[i] = w[i]
  <2>1. i = 1 \/ i \in 2 .. n
    BY <1>1
  <2> QED
    BY <1>1, <1>2, <2>1
<1>4. t = w
  BY <1>1, <1>2, <1>3, SeqEqual DEF Texts2
<1> QED
  BY <1>4 DEF w

LEMMA FirstSame ==
  ASSUME NEW s \in Texts2, s # << >>
  PROVE  << Head(s) >> \o Tail(s) = s /\ Head(s) = s[1] /\ Head(s) \in Text
<1>1. Head(s) = s[1] /\ Head(s) \in Text
  BY HeadTailProperties DEF Texts2
<1> QED
  BY <1>1, FirstReplaced

LEMMA OneMore ==
  ASSUME NEW s \in Texts2, NEW t \in Texts2, NEW y \in Text,
         Len(t) = Len(s) + 1, t[1] = y, \A i \in 1 .. Len(s) : t[i + 1] = s[i]
  PROVE  t = << y >> \o s
<1> DEFINE o == << y >>
<1>1. Len(s) \in Nat
  BY DEF Texts2
<1>2. o \in Texts2 /\ Len(o) = 1 /\ o[1] = y
  BY DEF Texts2
<1> HIDE DEF o
<1>3. /\ o \o s \in Texts2 /\ Len(o \o s) = 1 + Len(s)
      /\ \A i \in 1 .. 1 + Len(s) : (o \o s)[i] = IF i <= 1 THEN o[i] ELSE s[i - 1]
  <2>1. /\ o \o s \in Seq(Text) /\ Len(o \o s) = Len(o) + Len(s)
        /\ \A i \in 1 .. Len(o) + Len(s) : (o \o s)[i] = IF i <= Len(o) THEN o[i] ELSE s[i - Len(o)]
    BY <1>2, ConcatProperties DEF Texts2
  <2> QED
    BY <1>2, <2>1 DEF Texts2
<1>4. ASSUME NEW i \in 1 .. Len(t)
      PROVE  t[i] = (o \o s)[i]
  <2>1. CASE i = 1
    BY <1>1, <1>2, <1>3, <2>1
  <2>2. CASE i # 1
    <3>1. i \in 1 .. Len(s) + 1 /\ i - 1 \in 1 .. Len(s) /\ i - 1 + 1 = i
      BY <1>1, <2>2
    <3>2. (o \o s)[i] = s[i - 1]
      BY <1>1, <1>2, <1>3, <3>1
    <3>3. t[i - 1 + 1] = s[i - 1]
      BY <3>1
    <3> QED
      BY <3>1, <3>2, <3>3
  <2> QED
    BY <2>1, <2>2
<1>5. Len(o \o s) = Len(t)
  BY <1>1, <1>2, <1>3
<1>6. t = o \o s
  BY <1>3, <1>4, <1>5, SeqEqual DEF Texts2
<1> QED
  BY <1>6 DEF o

LEMMA FirstGone ==
  ASSUME NEW s \in Texts2, NEW t \in Texts2, s # << >>,
         Len(t) = Len(s) - 1, \A i \in 1 .. Len(t) : t[i] = s[i + 1]
  PROVE  t = Tail(s)
<1>1. /\ Tail(s) \in Texts2 /\ Len(Tail(s)) = Len(s) - 1
      /\ \A i \in 1 .. Len(s) - 1 : Tail(s)[i] = s[i + 1]
  BY HeadTailProperties DEF Texts2
<1> QED
  BY <1>1, SeqEqual DEF Texts2

-----------------------------------------------------------------------------
(***************************************************************************)
(* The inductive invariant of the refinement.                              *)
(***************************************************************************)
BufferSaid(b) ==
  /\ b.fill => b.file
  /\ ~b.fill \/ b.status = "eof_pending" => b.unread = << >>

(* The buffer of the outermost text.                                       *)
Bottom == IF include_stack_top > 0 THEN include_stack[0] ELSE current

(* While a scan is within what is promised: a scan that is not the first   *)
(* has one buffer and no includes, the buffer of a string is the outermost *)
(* one, and a buffer that is filled has a file.                            *)
Tame ==
  /\ scans > 1 => include_stack_top <= 0 /\ DOMAIN buffers = {current}
  /\ bs \in {0, Bottom}
  /\ status # "wild"
  /\ \A b \in DOMAIN buffers : BufferSaid(buffers[b])
  /\ Running /\ Cur.fill => yyin

LexInv == ScanInv /\ OwnedInv /\ (~broken => Tame)

LEMMA LexFacts ==
  ASSUME LexInv, ~broken
  PROVE  /\ Owned /\ Tame /\ ScanInv /\ OwnedInv
         /\ Bottom \in DOMAIN buffers /\ current \in DOMAIN buffers
         /\ BufferOk(Cur) /\ BufferSaid(Cur)
         /\ include_stack_top \in Int /\ include_stack_top <= MaxInclude
         /\ scans \in Nat \ {0}
         /\ Running /\ scans = 1 => include_stack_top >= 0
<1>1. ScanInv /\ OwnedInv /\ Tame
  BY DEF LexInv
<1>2. /\ include_stack_top \in Int /\ include_stack_top <= MaxInclude
      /\ scans \in Nat \ {0} /\ current \in DOMAIN buffers
  BY <1>1 DEF OwnedInv, ScanInv, StateOk
<1>3. Owned
  <2>1. CASE scans = 1
    BY <1>1, <2>1 DEF OwnedInv
  <2>2. CASE scans # 1
    <3>1. include_stack_top <= 0 /\ DOMAIN buffers = {current}
      BY <1>1, <1>2, <2>2 DEF Tame
    <3>2. 0 .. include_stack_top - 1 = {}
      BY <1>2, <3>1
    <3> QED
      BY <3>1, <3>2 DEF Owned, Open
  <2> QED
    BY <2>1, <2>2
<1>4. Bottom \in DOMAIN buffers
  BY <1>2, <1>3 DEF Bottom, Owned, Open
<1>5. BufferOk(Cur)
  BY <1>1, CurOk
<1>6. BufferSaid(Cur)
  BY <1>1, <1>2 DEF Tame, Cur
<1>7. Running /\ scans = 1 => include_stack_top >= 0
  BY <1>1 DEF OwnedInv
<1> QED
  BY <1>1, <1>2, <1>3, <1>4, <1>5, <1>6, <1>7

LEMMA NoLine ==
  ASSUME NEW t \in Text, LineLen(t) = 0 \/ Len(t) = 0
  PROVE  t = << >>
<1> DEFINE n == Len(t)
           S == {j \in 1 .. n : t[j] = "\n"} \cup {n}
<1>1. n \in Nat /\ S \in SUBSET Nat /\ S # {} /\ (0 \in S => n = 0)
  BY TextLen
<1>2. LineLen(t) = Min(S)
  BY DEF LineLen
<1> HIDE DEF S, n
<1>3. Min(S) \in S
  BY <1>1, MinIs
<1>4. n = 0
  BY <1>1, <1>2, <1>3 DEF n
<1> QED
  BY <1>4, EmptySeq DEF n, Text

(* Where nothing more is read there is nothing more to read.               *)
LEMMA NothingUnread ==
  ASSUME LexInv, ~broken, NEW f, AtBufEnd(f), NumRead(f) = 0
  PROVE  Cur.unread = << >>
<1>1. /\ ScanInv /\ BufferSaid(Cur) /\ Cur.fill \in BOOLEAN
      /\ Cur.unread \in Text /\ Len(Cur.unread) \in Nat
  BY LexFacts, BufferFields, TextLen
<1>2. CASE ~MustRead(f)
  BY <1>1, <1>2 DEF MustRead, EofPending, BufferSaid
<1>3. CASE MustRead(f)
  <2> DEFINE avail == IF Cur.tty THEN LineLen(Cur.unread) ELSE Len(Cur.unread)
             room  == Grown - Len(Pending) - 1
  <2>1. avail \in Nat
    BY <1>1, LineLenIs
  <2>2. room \in Nat /\ room >= 1 /\ ReadMax \in Nat /\ ReadMax >= 1
    <3>1. Grown \in Nat /\ Len(Pending) + 1 < Grown /\ Len(Pending) \in Nat
      BY <1>1, <1>3, GrownIs, PendingIs DEF MustRead
    <3> QED
      BY <3>1, BufSizeAssumption
  <2>3. NumToRead = Min({room, ReadMax}) /\ NumRead(f) = Min({NumToRead, avail})
    BY <1>3 DEF NumToRead, NumRead
  <2> HIDE DEF avail, room
  <2>4. NumToRead \in {room, ReadMax}
    BY <2>2, <2>3, MinIs
  <2>5. NumToRead \in Nat /\ NumToRead >= 1
    BY <2>2, <2>4
  <2>6. Min({NumToRead, avail}) \in {NumToRead, avail}
    BY <2>1, <2>5, MinIs
  <2>7. avail = 0
    BY <2>3, <2>5, <2>6
  <2> QED
    BY <1>1, <2>7, NoLine DEF avail
<1> QED
  BY <1>2, <1>3

(* What is left of the current text is what is pending and what is still   *)
(* to be read.                                                             *)
LEMMA RemainsIs ==
  ASSUME LexInv, ~broken
  PROVE  /\ Remains(Cur) = Pending \o Cur.unread
         /\ Remains(Cur) \in Text /\ Pending \in Text /\ Cur.unread \in Text
         /\ Len(Pending) \in Nat
<1>1. Remains(Cur) = Pending \o Cur.unread
  BY DEF Remains, Pending
<1>2. Pending \in Text /\ Len(Pending) \in Nat /\ Cur.unread \in Text
  BY LexFacts, PendingIs, BufferFields
<1> QED
  BY <1>1, <1>2, Behind

(* The match to act on is the one that the rules say.                      *)
LEMMA ReadyMatched ==
  ASSUME WordMarks = {}, LexInv, ~broken, NEW f, f = Match(Pending), NEW m \in Ready(f)
  PROVE  /\ Remains(Cur) # << >>
         /\ m = Matched(start, Remains(Cur))
<1> DEFINE u == Cur.unread
           p == Pending
<1>1. Remains(Cur) = p \o u /\ p \in Text /\ u \in Text
  BY RemainsIs
<1>2. start \in StartConditions
  BY LexFacts DEF ScanInv, StartOk
<1>3. CASE ~AtBufEnd(f)
  <2>1. m = Match(p)
    BY <1>3 DEF Ready
  <2> HIDE DEF p, u
  <2>2. MatchAtEnd(p \o u) = Match(p) /\ p # << >>
    BY <1>1, <1>2, <1>3, MatchesStay DEF p
  <2>3. p \o u \in Text /\ p \o u # << >>
    BY <1>1, <2>2, Behind
  <2>4. MatchAtEnd(p \o u) = Matched(start, p \o u)
    BY <1>2, <2>3, TablesAreRules
  <2> QED
    BY <1>1, <2>1, <2>2, <2>3, <2>4
<1>4. CASE AtBufEnd(f)
  <2>1. Pending # << >> /\ NumRead(f) = 0 /\ m = MatchAtEnd(Pending)
    BY <1>4 DEF Ready
  <2>2. u = << >>
    BY <1>4, <2>1, NothingUnread
  <2>3. Remains(Cur) = p
    BY <1>1, <2>2, Behind
  <2> HIDE DEF p, u
  <2>4. MatchAtEnd(p) = Matched(start, p)
    BY <1>1, <1>2, <2>1, TablesAreRules DEF p
  <2> QED
    BY <2>1, <2>3, <2>4 DEF p
<1> QED
  BY <1>3, <1>4

(* A lexeme is taken from the front of what is left.                       *)
LEMMA TakenLeaves ==
  ASSUME LexInv, ~broken, NEW f, f = Match(Pending), NEW m \in Ready(f)
  PROVE  /\ Lexeme(m) = SubSeq(Remains(Cur), 1, m.len)
         /\ \E b : /\ Taken(f, m) = [buffers EXCEPT ![current] = b]
                   /\ BufferOk(b) /\ BufferSaid(b) /\ b.fill = Cur.fill
                   /\ Remains(b) = SubSeq(Remains(Cur), m.len + 1, Len(Remains(Cur)))
<1> DEFINE u == Cur.unread
           p == Pending
           l == m.len
           b == IF AtBufEnd(f) THEN AtFront ELSE Cur
           c == [b EXCEPT !.pos = b.pos + l]
<1>1. Remains(Cur) = p \o u /\ p \in Text /\ u \in Text /\ Len(p) \in Nat
  BY RemainsIs
<1>2. l \in Nat /\ l <= Len(p)
  BY LexFacts, ReadyIs DEF MatchOk
<1>3. BufferOk(b) /\ b.pos + Len(p) = Len(b.ch) + 1
  BY LexFacts, AtFrontIs, CurOk, PendingIs
<1>4. AtBufEnd(f) => u = << >>
  <2> SUFFICES ASSUME AtBufEnd(f)
               PROVE  u = << >>
    OBVIOUS
  <2>1. NumRead(f) = 0
    BY DEF Ready
  <2> QED
    BY <2>1, NothingUnread
<1>5. b.fill = Cur.fill /\ b.file = Cur.file /\ b.unread = u /\ BufferSaid(b)
  <2>1. BufferOk(Cur) /\ BufferSaid(Cur)
    BY LexFacts
  <2>2. CASE b = Cur
    BY <2>1, <2>2
  <2>3. CASE b # Cur
    <3>1. AtBufEnd(f) /\ b = AtFront /\ AtFront # Cur
      BY <2>3
    <3>2. b = [Cur EXCEPT !.ch = Pending, !.pos = 1, !.status = "eof_pending",
                          !.size = IF EofPending THEN @ ELSE Grown]
      BY <3>1 DEF AtFront
    <3>3. b.fill = Cur.fill /\ b.file = Cur.file /\ b.unread = u
      BY <2>1, <3>2 DEF BufferOk, BufferType
    <3> QED
      BY <1>4, <2>1, <3>1, <3>3 DEF BufferSaid
  <2> QED
    BY <2>2, <2>3
<1>6. SubSeq(b.ch, b.pos, Len(b.ch)) = p
  <2>1. CASE b = Cur
    BY <2>1 DEF Pending
  <2>2. CASE b # Cur
    <3>1. b = AtFront /\ AtFront # Cur
      BY <2>2
    <3>2. b = [Cur EXCEPT !.ch = Pending, !.pos = 1, !.status = "eof_pending",
                          !.size = IF EofPending THEN @ ELSE Grown]
      BY <3>1 DEF AtFront
    <3>3. b.ch = p /\ b.pos = 1
      BY <3>2, LexFacts DEF BufferOk, BufferType
    <3>4. SubSeq(p, 1, Len(p)) = p
      BY <1>1, SubSeqFull DEF Text
    <3> HIDE DEF b, p
    <3> QED
      BY <3>3, <3>4
  <2> QED
    BY <2>1, <2>2
<1>7. Taken(f, m) = [buffers EXCEPT ![current] = c]
  BY DEF Taken
<1> HIDE DEF b, u, p, l
<1>8. b \in BufferType /\ b.ch \in Text /\ b.pos \in 1 .. Len(b.ch) + 1 /\ Len(b.ch) \in Nat
  BY <1>3, BufferFields, TextLen DEF BufferOk
<1>9. b.pos + l \in 1 .. Len(b.ch) + 1
  BY <1>1, <1>2, <1>3, <1>8
<1>10. BufferOk(c)
  BY <1>3, <1>9, MovedBuffer
<1>11. /\ c.fill = b.fill /\ c.file = b.file /\ c.unread = b.unread /\ c.status = b.status
       /\ c.ch = b.ch /\ c.pos = b.pos + l
  BY <1>8 DEF BufferType
<1>12. SubSeq(b.ch, b.pos + l, Len(b.ch)) \o u = SubSeq(p \o u, l + 1, Len(p \o u))
  <2> DEFINE h == b.ch
             q == b.pos
  <2>1. h \in Text /\ q \in 1 .. Len(h) + 1
    BY <1>8
  <2>a. q + l <= Len(h) + 1
    BY <1>8, <1>9
  <2>b. SubSeq(h, q, Len(h)) = p
    BY <1>6
  <2>c. u \in Text /\ l \in Nat
    BY <1>1, <1>2
  <2> HIDE DEF h, q
  <2>2. SubSeq(h, q + l, Len(h)) \o u =
          SubSeq(SubSeq(h, q, Len(h)) \o u, l + 1, Len(SubSeq(h, q, Len(h)) \o u))
    BY <2>1, <2>a, <2>c, LeftOver, Zenon
  <2>3. SubSeq(h, q + l, Len(h)) \o u = SubSeq(p \o u, l + 1, Len(p \o u))
    BY <2>b, <2>2
  <2> QED
    BY <2>3 DEF h, q
<1>13. Remains(c) = SubSeq(p \o u, l + 1, Len(p \o u))
  <2> HIDE DEF c
  <2> QED
    BY <1>5, <1>11, <1>12 DEF Remains
<1>14. SubSeq(p, 1, l) = SubSeq(p \o u, 1, l)
  <2>1. /\ SubSeq(p, 1, l) \in Text /\ Len(SubSeq(p, 1, l)) = l
        /\ \A i \in 1 .. l : SubSeq(p, 1, l)[i] = p[i]
    BY <1>1, <1>2, SubText
  <2> DEFINE t == p \o u
  <2>2. t \in Text /\ l <= Len(t) /\ 1 \in 1 .. Len(t) + 1 /\ (\A i \in 1 .. l : t[i] = p[i])
    <3>1. /\ t \in Text /\ Len(t) = Len(p) + Len(u) /\ Len(u) \in Nat
          /\ \A i \in 1 .. Len(p) : t[i] = p[i]
      BY <1>1, BothAre
    <3> HIDE DEF t
    <3> QED
      BY <1>1, <1>2, <3>1
  <2> HIDE DEF t
  <2>3. /\ SubSeq(t, 1, l) \in Text /\ Len(SubSeq(t, 1, l)) = l
        /\ \A i \in 1 .. l : SubSeq(t, 1, l)[i] = t[i]
    BY <1>2, <2>2, SubText
  <2>4. SubSeq(p, 1, l) = SubSeq(t, 1, l)
    BY <2>1, <2>2, <2>3, SeqEqual DEF Text
  <2> QED
    BY <2>4 DEF t
<1>15. BufferSaid(c)
  <2> HIDE DEF c
  <2> QED
    BY <1>5, <1>11 DEF BufferSaid
<1>16. Lexeme(m) = SubSeq(Remains(Cur), 1, m.len)
  BY <1>1, <1>14 DEF Lexeme, p, l
<1>17. c.fill = Cur.fill
  BY <1>5, <1>11
<1>18. Remains(c) = SubSeq(Remains(Cur), m.len + 1, Len(Remains(Cur)))
  BY <1>1, <1>13 DEF l
<1> HIDE DEF c
<1> QED
  BY <1>7, <1>10, <1>15, <1>16, <1>17, <1>18

(* Most steps change the current buffer alone.                             *)
LEMMA SameTame ==
  ASSUME LexInv, ~broken, NEW b, BufferSaid(b), buffers' = [buffers EXCEPT ![current] = b],
         UNCHANGED <<current, bs, scans, include_stack>>,
         include_stack_top' = include_stack_top \/ (include_stack_top <= 0 /\ include_stack_top' <= 0),
         include_stack_top' \in Int, status' # "wild", Running' /\ b.fill => yyin'
  PROVE  Tame'
<1>1. Tame /\ current \in DOMAIN buffers /\ include_stack_top \in Int
  BY LexFacts
<1>2. DOMAIN buffers' = DOMAIN buffers /\ Cur' = b
  BY <1>1 DEF Cur
<1>3. \A i \in DOMAIN buffers' : BufferSaid(buffers'[i])
  BY <1>1, <1>2 DEF Tame, Cur
<1>4. Bottom' = Bottom
  BY <1>1 DEF Bottom
<1>5. scans' > 1 => include_stack_top' <= 0 /\ DOMAIN buffers' = {current'}
  BY <1>1, <1>2 DEF Tame
<1> QED
  BY <1>1, <1>2, <1>3, <1>4, <1>5 DEF Tame

LEMMA RefillLeaves ==
  ASSUME LexInv, ~broken, NEW f, Refill(f)
  PROVE  \E b : /\ buffers' = [buffers EXCEPT ![current] = b]
                /\ BufferOk(b) /\ BufferSaid(b) /\ Remains(b) = Remains(Cur)
<1> DEFINE x == Pending \o SubSeq(Cur.unread, 1, NumRead(f))
           u == SubSeq(Cur.unread, NumRead(f) + 1, Len(Cur.unread))
           b == [Cur EXCEPT !.ch = x, !.pos = 1, !.size = Grown, !.status = "normal", !.unread = u]
<1>1. buffers' = [buffers EXCEPT ![current] = b] /\ MustRead(f)
  BY DEF Refill, Cur
<1>2. ScanInv /\ BufferOk(Cur) /\ BufferSaid(Cur)
  BY LexFacts
<1>3. BufferOk(b)
  BY <1>1, <1>2, RefilledOk, Zenon
<1>4. Cur \in BufferType
  BY <1>2 DEF BufferOk
<1>5. Remains(Cur) = Pending \o Cur.unread /\ Pending \in Text /\ Cur.unread \in Text
  BY RemainsIs
<1>6. NumRead(f) \in 0 .. Len(Cur.unread)
  BY <1>1, <1>2, NumReadIs
<1>7. x \in Text /\ SubSeq(x, 1, Len(x)) \o u = Pending \o Cur.unread
  BY <1>5, <1>6, ReadOn
<1> HIDE DEF x, u
<1>8. /\ b.ch = x /\ b.pos = 1 /\ b.unread = u /\ b.status = "normal"
      /\ b.fill = Cur.fill /\ b.file = Cur.file
  BY <1>4 DEF BufferType
<1> HIDE DEF b
<1>9. Remains(b) = Remains(Cur)
  BY <1>5, <1>7, <1>8 DEF Remains
<1>10. BufferSaid(b)
  BY <1>1, <1>2, <1>8 DEF BufferSaid, MustRead
<1> QED
  BY <1>1, <1>3, <1>9, <1>10

(* A text that ends is all read.                                           *)
LEMMA EofIs ==
  ASSUME LexInv, ~broken, NEW f, AtEof(f)
  PROVE  Remains(Cur) = << >> /\ Cur.unread = << >>
<1>1. AtBufEnd(f) /\ Pending = << >> /\ NumRead(f) = 0
  BY DEF AtEof
<1>2. Cur.unread = << >>
  BY <1>1, NothingUnread
<1>3. Pending \o << >> = Pending
  BY RemainsIs, Behind
<1> QED
  BY <1>1, <1>2, <1>3, RemainsIs

LEMMA RestartLeaves ==
  ASSUME LexInv, ~broken, NEW f, AtEof(f), Running
  PROVE  BufferOk(Restarted) /\ BufferSaid(Restarted) /\ Remains(Restarted) = << >>
<1>1. /\ BufferOk(Cur) /\ BufferSaid(Cur) /\ Tame /\ BufferOk(Restarted)
      /\ Remains(Cur) = << >> /\ Cur.unread = << >>
  BY LexFacts, EofIs, RestartedOk
<1>2. CASE ~Cur.fill
  BY <1>1, <1>2 DEF Restarted
<1>3. CASE Cur.fill
  <2>1. Restarted = [Cur EXCEPT !.ch = << >>, !.pos = 1, !.status = "new", !.file = yyin,
                                !.size = IF EofPending THEN @ ELSE Grown]
    BY <1>3 DEF Restarted
  <2>2. yyin
    BY <1>1, <1>3 DEF Tame
  <2>3. /\ Restarted.ch = << >> /\ Restarted.pos = 1 /\ Restarted.status = "new"
        /\ Restarted.file = yyin /\ Restarted.fill = Cur.fill /\ Restarted.unread = Cur.unread
    BY <1>1, <2>1 DEF BufferOk, BufferType
  <2>4. SubSeq(<< >>, 1, Len(<< >>)) = << >> /\ << >> \o << >> = << >>
    BY NoText, SubSeqFull, Behind DEF Text
  <2> QED
    BY <1>1, <1>3, <2>2, <2>3, <2>4 DEF BufferSaid, Remains
<1> QED
  BY <1>2, <1>3

LEMMA RefillTame ==
  ASSUME LexInv, ~broken, NEW f, Refill(f)
  PROVE  Tame'
<1>1. PICK b : buffers' = [buffers EXCEPT ![current] = b] /\ BufferSaid(b)
  BY RefillLeaves
<1>2. UNCHANGED <<current, bs, scans, include_stack, include_stack_top>> /\ status' = "scan" /\ yyin'
  BY DEF Refill, include, history, GoesOn
<1> QED
  BY <1>1, <1>2, LexFacts, SameTame

LEMMA RuleTame ==
  ASSUME LexInv, ~broken, Running, NEW f, f = Match(Pending), NEW m \in Ready(f),
         Rule(f, m) \/ TooManyIncludes(f, m)
  PROVE  Tame'
<1>1. PICK b : Taken(f, m) = [buffers EXCEPT ![current] = b] /\ BufferSaid(b) /\ b.fill = Cur.fill
  BY TakenLeaves
<1>2. /\ UNCHANGED <<current, bs, scans, include_stack, include_stack_top, yyin>>
      /\ status' \in {"scan", "ready"} /\ buffers' = Taken(f, m)
  BY DEF Rule, TooManyIncludes, include, GoesOn, Returns
<1>3. Cur.fill => yyin
  BY LexFacts DEF Tame
<1> QED
  BY <1>1, <1>2, <1>3, LexFacts, SameTame

LEMMA TerminateTame ==
  ASSUME LexInv, ~broken, Running, NEW f, EndOfOther(f) \/ EndOfInitial(f)
  PROVE  Tame'
<1>1. /\ AtEof(f) /\ buffers' = [buffers EXCEPT ![current] = Restarted]
      /\ UNCHANGED <<current, bs, scans, include_stack>> /\ status' = "end"
  BY DEF EndOfOther, EndOfInitial, Terminate, history
<1>2. /\ include_stack_top' = include_stack_top \/ (include_stack_top <= 0 /\ include_stack_top' <= 0)
      /\ include_stack_top' \in Int
  BY LexFacts DEF EndOfOther, EndOfInitial
<1>3. ~Running'
  BY <1>1 DEF Running
<1> QED
  BY <1>1, <1>2, <1>3, RestartLeaves, LexFacts, SameTame

LEMMA IncludeTame ==
  ASSUME LexInv, ~broken, ~broken', Running, NEW f, f = Match(Pending), NEW m \in Ready(f), Include(f, m)
  PROVE  Tame'
<1> DEFINE id   == Fresh(DOMAIN buffers \cup {current})
           new  == FileBuffer(Files[FileName(Lexeme(m))], FALSE)
           rest == Taken(f, m)
           top  == include_stack_top
<1>1. PICK b : rest = [buffers EXCEPT ![current] = b] /\ BufferSaid(b)
  BY TakenLeaves
<1>2. /\ buffers' = With(rest, id, new) /\ current' = id /\ yyin' = TRUE /\ bs' = bs
      /\ scans' = scans /\ broken' = (broken \/ scans > 1) /\ status' = "scan"
  BY DEF Include, history, GoesOn
<1>3. /\ top \in 0 .. MaxInclude - 1 /\ top' = top + 1
      /\ include_stack' = [include_stack EXCEPT ![top] = current]
      /\ DOMAIN include_stack = 0 .. MaxInclude - 1 /\ MaxInclude \in Nat
  BY LexFacts, MaxIncludeAssumption DEF Include, Push, OwnedInv
<1>4. Tame /\ current \in DOMAIN buffers /\ ~(scans > 1)
  BY <1>2, LexFacts
<1>5. BufferSaid(new)
  BY DEF FileBuffer, BufferSaid
<1> HIDE DEF id, new, rest
<1>6. \A i \in DOMAIN rest : BufferSaid(rest[i])
  BY <1>1, <1>4 DEF Tame
<1>7. \A i \in DOMAIN buffers' : BufferSaid(buffers'[i])
  BY <1>2, <1>5, <1>6 DEF With
<1>8. Bottom' = Bottom
  BY <1>3 DEF Bottom
<1> QED
  BY <1>2, <1>4, <1>7, <1>8 DEF Tame

(* The text that included this one is taken up, where it is known.         *)
LEMMA BelowIs ==
  ASSUME LexInv, ~broken, include_stack_top > 0
  PROVE  scans = 1 /\ Below \in Left /\ Below \in DOMAIN buffers
<1>1. Owned /\ include_stack_top \in Int /\ Tame /\ scans \in Nat \ {0}
  BY LexFacts
<1>2. include_stack_top - 1 \in 0 .. include_stack_top - 1
  BY <1>1
<1>3. Below \in Open
  BY <1>2 DEF Open, Below
<1>4. Below \in Left /\ Below \in DOMAIN buffers
  BY <1>1, <1>3 DEF Owned, Left
<1> QED
  BY <1>1, <1>4 DEF Tame

LEMMA EndOfIncludeTame ==
  ASSUME LexInv, ~broken, NEW f, EndOfInclude(f)
  PROVE  Tame'
<1> DEFINE top == include_stack_top
<1>1. /\ top > 0 /\ top' = top - 1 /\ buffers' = [i \in Left |-> buffers[i]]
      /\ current' = Below /\ yyin' = buffers[Below].file /\ status' = "scan"
      /\ UNCHANGED <<bs, include_stack, scans>>
  BY DEF EndOfInclude, history, GoesOn
<1>2. scans = 1 /\ Below \in Left /\ Tame /\ top \in Int
  BY <1>1, BelowIs, LexFacts
<1>3. \A i \in Left : BufferSaid(buffers[i])
  BY <1>2 DEF Tame, Left
<1>4. \A i \in DOMAIN buffers' : BufferSaid(buffers'[i])
  BY <1>1, <1>3
<1>5. Bottom' = Bottom
  <2>1. CASE top = 1
    BY <1>1, <1>2, <2>1 DEF Bottom, Below
  <2>2. CASE top # 1
    BY <1>1, <1>2, <2>2 DEF Bottom
  <2> QED
    BY <2>1, <2>2
<1>6. Cur' = buffers[Below]
  BY <1>1, <1>2 DEF Cur
<1>7. Cur'.fill => yyin'
  BY <1>1, <1>2, <1>3, <1>6 DEF BufferSaid
<1> QED
  BY <1>1, <1>2, <1>4, <1>5, <1>7 DEF Tame

LEMMA InputSaid ==
  ASSUME NEW input \in Inputs \cup Later
  PROVE  /\ BufferSaid(BufferOf(input))
         /\ BufferOf(input).fill => input.from # "string"
         /\ Remains(BufferOf(input)) = input.text /\ input.text \in Text
<1>1. input.text \in Text
  BY InputsAssumption DEF Text
<1>2. SubSeq(input.text, 1, Len(input.text)) = input.text /\ input.text \o << >> = input.text
  BY <1>1, SubSeqFull, Behind DEF Text
<1>3. SubSeq(<< >>, 1, Len(<< >>)) = << >> /\ << >> \o input.text = input.text
  BY <1>1, NoText, SubSeqFull, ConcatEmptySeq DEF Text
<1> QED
  BY <1>1, <1>2, <1>3 DEF BufferOf, BufferSaid, StringBuffer, FileBuffer, Remains

LEMMA NextScanTame ==
  ASSUME LexInv, ~broken', NextScan
  PROVE  /\ Tame' /\ ~broken /\ include_stack_top <= 0 /\ include_stack_top' = include_stack_top
         /\ \E input \in Later : buffers'[current'] = BufferOf(input)
<1>1. ~broken /\ include_stack_top <= 0 /\ include_stack_top' = include_stack_top
  <2>1. broken' = (broken \/ include_stack_top > 0) /\ include_stack_top' = include_stack_top
    BY DEF NextScan, include
  <2>2. include_stack_top \in Int
    BY DEF LexInv, OwnedInv
  <2>3. ~broken /\ ~(include_stack_top > 0)
    BY <2>1, Zenon
  <2> QED
    BY <2>1, <2>2, <2>3
<1>2. Owned /\ Tame /\ include_stack_top \in Int /\ scans \in Nat \ {0}
  BY <1>1, LexFacts
<1>3. DOMAIN buffers = {current}
  <2>1. 0 .. include_stack_top - 1 = {}
    BY <1>1, <1>2
  <2> QED
    BY <1>2, <2>1 DEF Owned, Open
<1> DEFINE left == DOMAIN buffers \ {bs, current}
           id   == Fresh(left)
           kept == [i \in left |-> buffers[i]]
<1>4. PICK input \in Later :
        /\ buffers' = With(kept, id, BufferOf(input))
        /\ bs' = IF input.from = "string" THEN id ELSE 0
        /\ yyin' = (input.from # "string")
        /\ current' = id
  BY DEF NextScan
<1>5. scans' = scans + 1 /\ status' = "ready"
  BY DEF NextScan
<1>6. left = {}
  BY <1>3
<1> HIDE DEF id
<1>7. DOMAIN buffers' = {id} /\ buffers'[id] = BufferOf(input)
  BY <1>4, <1>6 DEF With
<1>8. BufferSaid(BufferOf(input)) /\ (BufferOf(input).fill => input.from # "string")
  BY InputSaid
<1>9. Cur' = BufferOf(input)
  BY <1>4, <1>7 DEF Cur
<1>10. Bottom' = id
  BY <1>1, <1>2, <1>4 DEF Bottom
<1>11. Tame'
  BY <1>1, <1>2, <1>4, <1>5, <1>7, <1>8, <1>9, <1>10 DEF Tame
<1> QED
  BY <1>1, <1>4, <1>7, <1>11

LEMMA InitLex ==
  ASSUME Init
  PROVE  LexInv
<1>1. ScanInv /\ OwnedInv
  BY InitScan, InitOwned
<1>2. PICK input \in Inputs :
        /\ buffers = [b \in {1} |-> BufferOf(input)]
        /\ bs = IF input.from = "string" THEN 1 ELSE 0
        /\ yyin = (input.from # "string")
  BY DEF Init
<1>3. /\ current = 1 /\ scans = 1 /\ include_stack_top = 0 /\ status = "ready"
  BY DEF Init
<1>4. Bottom = 1 /\ Cur = BufferOf(input)
  BY <1>2, <1>3 DEF Bottom, Cur
<1>5. BufferSaid(BufferOf(input)) /\ (BufferOf(input).fill => input.from # "string")
  BY InputSaid
<1>6. DOMAIN buffers = {1} /\ buffers[1] = BufferOf(input)
  BY <1>2
<1>7. bs \in {0, Bottom}
  BY <1>2, <1>4
<1>8. Cur.fill => yyin
  BY <1>2, <1>4, <1>5
<1>9. \A b \in DOMAIN buffers : BufferSaid(buffers[b])
  BY <1>5, <1>6
<1>10. Tame
  BY <1>3, <1>7, <1>8, <1>9 DEF Tame
<1> QED
  BY <1>1, <1>10 DEF LexInv

(* While nothing is broken no step uses what is not there.                 *)
LEMMA NothingWild ==
  ASSUME LexInv, ~broken
  PROVE  /\ Running => \A f : ~ReadNull(f) /\ ~BelowIsGone(f)
         /\ Running => \A m : IncludeAstray(m) => scans > 1
         /\ ~DeletedTwice
<1>1. ASSUME Running, NEW f, ReadNull(f)
      PROVE  FALSE
  <2>1. Tame
    BY LexFacts
  <2> QED
    BY <1>1, <2>1 DEF ReadNull, MustRead, Tame
<1>2. ASSUME NEW f, BelowIsGone(f)
      PROVE  FALSE
  BY <1>2, BelowIs DEF BelowIsGone
<1>3. ASSUME Running, NEW m, IncludeAstray(m)
      PROVE  scans > 1
  <2>1. include_stack_top \in Int /\ scans \in Nat \ {0} /\ (scans = 1 => include_stack_top >= 0)
    BY <1>3, LexFacts
  <2> QED
    BY <1>3, <2>1 DEF IncludeAstray
<1>4. ~DeletedTwice
  BY LexFacts DEF DeletedTwice, Tame
<1> QED
  BY <1>1, <1>2, <1>3, <1>4

LEMMA NextTame ==
  ASSUME LexInv, Next, ~broken'
  PROVE  Tame'
<1>1. CASE yylex
  <2>1. PICK f \in {Match(Pending)} :
       \/ Refill(f) \/ ReadNull(f)
       \/ \E m \in Ready(f) :
            \/ Rule(f, m) \/ Include(f, m) \/ IncludeFails(f, m)
            \/ TooManyIncludes(f, m) \/ IncludeAstray(m)
       \/ EndOfOther(f) \/ EndOfInitial(f) \/ EndOfInclude(f) \/ BelowIsGone(f)
    BY <1>1 DEF yylex
  <2>2. Running /\ f = Match(Pending)
    BY <1>1 DEF yylex
  <2>3. CASE Refill(f)
    <3>1. ~broken
      BY <2>3 DEF Refill
    <3> QED
      BY <2>3, <3>1, RefillTame
  <2>4. CASE ReadNull(f)
    <3>1. ~broken
      BY <2>4 DEF ReadNull
    <3> QED
      BY <2>2, <2>4, <3>1, NothingWild
  <2>5. ASSUME NEW m \in Ready(f), Rule(f, m) \/ TooManyIncludes(f, m)
        PROVE  Tame'
    <3>1. ~broken
      BY <2>5 DEF Rule, TooManyIncludes
    <3> QED
      BY <2>2, <2>5, <3>1, RuleTame
  <2>6. ASSUME NEW m \in Ready(f), Include(f, m)
        PROVE  Tame'
    <3>1. ~broken
      BY <2>6 DEF Include
    <3> QED
      BY <2>2, <2>6, <3>1, IncludeTame
  <2>7. ASSUME NEW m \in Ready(f), IncludeFails(f, m)
        PROVE  FALSE
    BY <2>7 DEF IncludeFails
  <2>8. ASSUME NEW m \in Ready(f), IncludeAstray(m)
        PROVE  FALSE
    <3>1. ~broken /\ ~(scans > 1)
      BY <2>8 DEF IncludeAstray
    <3> QED
      BY <2>2, <2>8, <3>1, NothingWild
  <2>9. CASE EndOfOther(f) \/ EndOfInitial(f)
    <3>1. ~broken
      BY <2>9 DEF EndOfOther, EndOfInitial, Terminate
    <3> QED
      BY <2>2, <2>9, <3>1, TerminateTame
  <2>10. CASE EndOfInclude(f)
    <3>1. ~broken
      BY <2>10 DEF EndOfInclude
    <3> QED
      BY <2>10, <3>1, EndOfIncludeTame
  <2>11. CASE BelowIsGone(f)
    <3>1. ~broken
      BY <2>11 DEF BelowIsGone
    <3> QED
      BY <2>2, <2>11, <3>1, NothingWild
  <2> QED
    BY <2>1, <2>3, <2>4, <2>5, <2>6, <2>7, <2>8, <2>9, <2>10, <2>11
<1>2. CASE NextScan
  BY <1>2, NextScanTame
<1>3. CASE DeletedTwice
  <2>1. ~broken
    BY <1>3 DEF DeletedTwice
  <2> QED
    BY <1>3, <2>1, NothingWild
<1> QED
  BY <1>1, <1>2, <1>3 DEF Next

LEMMA NextLex ==
  ASSUME LexInv, [Next]_vars
  PROVE  LexInv'
<1>1. ScanInv' /\ OwnedInv'
  BY NextScanned, NextOwned DEF LexInv
<1>2. CASE Next
  BY <1>1, <1>2, NextTame DEF LexInv
<1>3. CASE UNCHANGED vars
  <2>1. Tame' <=> Tame
    BY <1>3 DEF vars, flex, include, history, Tame, Bottom, Cur, Running
  <2>2. broken' = broken
    BY <1>3 DEF vars
  <2> QED
    BY <1>1, <2>1, <2>2 DEF LexInv
<1> QED
  BY <1>2, <1>3

-----------------------------------------------------------------------------
(***************************************************************************)
(* The texts that are open, before and after a step.                       *)
(***************************************************************************)
LEMMA DepthIs ==
  ASSUME NEW k \in Int
  PROVE  Max({k, 0}) = IF k > 0 THEN k ELSE 0
<1> DEFINE S == {k, 0}
<1>1. \E x \in S : \A y \in S : x >= y
  OBVIOUS
<1>2. Max(S) \in S /\ \A y \in S : Max(S) >= y
  BY <1>1 DEF Max
<1> QED
  BY <1>2

OpenTexts ==
  /\ Sources \in Texts2 /\ Sources # << >>
  /\ Depth \in Nat \ {0} /\ Len(Sources) = Depth
  /\ \A i \in 1 .. Depth : /\ Sources[i] = Remains(buffers[OpenAt(i)])
                           /\ OpenAt(i) \in DOMAIN buffers
                           /\ i # 1 => OpenAt(i) # current
  /\ Head(Sources) = Remains(Cur) /\ Remains(Cur) \in Text
  /\ Depth = IF include_stack_top > 0 THEN include_stack_top + 1 ELSE 1

LEMMA RemainsText ==
  ASSUME NEW b, BufferOk(b)
  PROVE  Remains(b) \in Text
<1>1. b.ch \in Text /\ b.pos \in 1 .. Len(b.ch) + 1 /\ b.unread \in Text /\ Len(b.ch) \in Nat
  BY BufferFields, TextLen
<1>2. SubSeq(b.ch, b.pos, Len(b.ch)) \in Text
  BY <1>1, SubText
<1> QED
  BY <1>1, <1>2, Behind DEF Remains

LEMMA SourcesAre == LexInv /\ ~broken => OpenTexts
<1> SUFFICES ASSUME LexInv, ~broken
             PROVE  OpenTexts
  OBVIOUS
<1> DEFINE top == include_stack_top
           n   == Depth
<1>1. Owned /\ top \in Int /\ BuffersOk(buffers) /\ current \in DOMAIN buffers
  BY LexFacts DEF ScanInv, StateOk
<1>2. n = (IF top > 0 THEN top + 1 ELSE 1) /\ n \in Nat \ {0}
  <2>1. Max({top, 0}) = IF top > 0 THEN top ELSE 0
    BY <1>1, DepthIs
  <2> QED
    BY <1>1, <2>1 DEF Depth
<1> HIDE DEF n
<1>3. ASSUME NEW i \in 1 .. n
      PROVE  OpenAt(i) \in DOMAIN buffers /\ (i # 1 => OpenAt(i) # current)
  <2>1. CASE i = 1
    BY <1>1, <2>1 DEF OpenAt
  <2>2. CASE i # 1
    <3>1. top + 1 - i \in 0 .. top - 1
      BY <1>1, <1>2, <2>2
    <3>2. OpenAt(i) \in Open
      BY <2>2, <3>1 DEF OpenAt, Open
    <3> QED
      BY <1>1, <3>2 DEF Owned
  <2> QED
    BY <2>1, <2>2
<1>4. \A i \in 1 .. n : Remains(buffers[OpenAt(i)]) \in Text
  BY <1>1, <1>3, RemainsText DEF BuffersOk
<1> DEFINE s == [i \in 1 .. n |-> Remains(buffers[OpenAt(i)])]
<1>5. Sources = s
  BY DEF Sources, n
<1>6. s \in Seq(Text) /\ Len(s) = n
  <2>1. s \in [1 .. n -> Text]
    BY <1>4
  <2> HIDE DEF s
  <2> QED
    BY <1>2, <2>1, SeqDef
<1>7. Head(s) = s[1] /\ s # << >>
  <2>1. s # << >>
    BY <1>2, <1>6, NoText
  <2> QED
    BY <1>6, <2>1, HeadTailProperties
<1>8. s[1] = Remains(Cur)
  BY <1>2 DEF OpenAt, Cur
<1>9. Remains(Cur) \in Text
  BY <1>2, <1>4, <1>8
<1>10. \A i \in 1 .. n : s[i] = Remains(buffers[OpenAt(i)])
  OBVIOUS
<1> HIDE DEF s
<1> QED
  <2>1. Sources \in Texts2 /\ Sources # << >> /\ Len(Sources) = Depth
    BY <1>5, <1>6, <1>7 DEF Texts2, n
  <2>2. \A i \in 1 .. Depth : /\ Sources[i] = Remains(buffers[OpenAt(i)])
                              /\ OpenAt(i) \in DOMAIN buffers
                              /\ i # 1 => OpenAt(i) # current
    BY <1>3, <1>5, <1>10 DEF n
  <2>3. Head(Sources) = Remains(Cur)
    BY <1>5, <1>7, <1>8
  <2>4. Depth \in Nat \ {0} /\ Depth = IF include_stack_top > 0 THEN include_stack_top + 1 ELSE 1
    BY <1>2 DEF n
  <2>5. Depth \in Nat \ {0} /\ Len(Sources) = Depth
    BY <2>1, <2>4
  <2>6. Sources \in Texts2 /\ Sources # << >> /\ Head(Sources) = Remains(Cur) /\ Remains(Cur) \in Text
    BY <1>9, <2>1, <2>3
  <2>7. Depth = IF include_stack_top > 0 THEN include_stack_top + 1 ELSE 1
    BY <2>4
  <2> HIDE DEF top
  <2> QED
    BY <2>2, <2>5, <2>6, <2>7, Zenon DEF OpenTexts

LEMMA SourcesThen == (LexInv /\ ~broken => OpenTexts)'
BY SourcesAre, PTL

(* The current buffer changes and no text is opened or ends.               *)
LEMMA CurrentChanges ==
  ASSUME LexInv, ~broken, LexInv', ~broken', NEW b,
         buffers' = [buffers EXCEPT ![current] = b], current' = current, include_stack' = include_stack,
         include_stack_top' = include_stack_top \/ (include_stack_top <= 0 /\ include_stack_top' <= 0)
  PROVE  /\ Sources' = << Remains(b) >> \o Tail(Sources)
         /\ Remains(b) = Remains(Cur) => Sources' = Sources
<1>1. OpenTexts /\ OpenTexts'
  BY SourcesAre, SourcesThen
<1>2. current \in DOMAIN buffers /\ include_stack_top \in Int /\ include_stack_top' \in Int
  BY LexFacts DEF LexInv, OwnedInv
<1>3. Depth' = Depth
  BY <1>1, <1>2 DEF OpenTexts
<1>4. \A i \in 1 .. Depth : OpenAt(i)' = OpenAt(i)
  <2>1. Depth = IF include_stack_top > 0 THEN include_stack_top + 1 ELSE 1
    BY <1>1, Zenon DEF OpenTexts
  <2>2. ASSUME NEW i \in 1 .. Depth, i # 1
        PROVE  OpenAt(i)' = OpenAt(i)
    <3>1. include_stack_top > 0
      BY <1>2, <2>1, <2>2
    <3>2. include_stack_top' = include_stack_top
      BY <1>2, <3>1
    <3> QED
      BY <2>2, <3>2 DEF OpenAt
  <2>3. OpenAt(1)' = OpenAt(1)
    BY DEF OpenAt
  <2> QED
    BY <2>2, <2>3
<1>5. ASSUME NEW i \in 2 .. Depth
      PROVE  Sources'[i] = Sources[i]
  <2>1. i \in 1 .. Depth /\ i # 1 /\ i \in 1 .. Depth'
    BY <1>1, <1>3 DEF OpenTexts
  <2>2. /\ Sources[i] = Remains(buffers[OpenAt(i)]) /\ OpenAt(i) \in DOMAIN buffers
        /\ OpenAt(i) # current
    BY <1>1, <2>1 DEF OpenTexts
  <2>3. Sources'[i] = Remains(buffers'[OpenAt(i)'])
    BY <1>1, <2>1 DEF OpenTexts, Remains
  <2>4. buffers'[OpenAt(i)'] = buffers[OpenAt(i)]
    BY <1>4, <2>1, <2>2
  <2> QED
    BY <2>2, <2>3, <2>4
<1>6. Sources'[1] = Remains(b) /\ Remains(b) \in Text
  <2>1. Sources'[1] = Remains(Cur')
    <3>1. Sources' \in Texts2 /\ Sources' # << >> /\ Head(Sources') = Remains(Cur')
      BY <1>1 DEF OpenTexts, Remains
    <3> QED
      BY <3>1, HeadTailProperties DEF Texts2
  <2>2. Cur' = b
    BY <1>2 DEF Cur
  <2>3. Remains(Cur') \in Text
    BY <1>1 DEF OpenTexts, Remains
  <2> QED
    BY <2>1, <2>2, <2>3
<1> DEFINE s == Sources
           t == Sources'
           x == Remains(b)
<1>7. /\ s \in Texts2 /\ t \in Texts2 /\ s # << >> /\ Len(t) = Len(s)
      /\ x \in Text /\ t[1] = x
  BY <1>1, <1>3, <1>6 DEF OpenTexts
<1>8. \A i \in 2 .. Len(s) : t[i] = s[i]
  BY <1>1, <1>5 DEF OpenTexts
<1>9. Head(s) = Remains(Cur)
  BY <1>1 DEF OpenTexts
<1> HIDE DEF s, t, x
<1>10. t = << x >> \o Tail(s)
  BY <1>7, <1>8, FirstReplaced
<1>11. << Head(s) >> \o Tail(s) = s
  BY <1>7, FirstSame
<1> QED
  BY <1>9, <1>10, <1>11 DEF s, t, x

(* A text is opened on top of the others.                                  *)
LEMMA TextOpened ==
  ASSUME LexInv, ~broken, LexInv', ~broken', NEW b, NEW id, NEW new, NEW rest,
         rest = [buffers EXCEPT ![current] = b], buffers' = With(rest, id, new), current' = id,
         id \notin DOMAIN buffers,
         include_stack_top \in 0 .. MaxInclude - 1, include_stack_top' = include_stack_top + 1,
         include_stack' = [include_stack EXCEPT ![include_stack_top] = current],
         Remains(b) \in Text
  PROVE  Sources' = << Remains(new) >> \o (<< Remains(b) >> \o Tail(Sources))
<1> DEFINE top == include_stack_top
<1>1. OpenTexts /\ OpenTexts'
  BY SourcesAre, SourcesThen
<1>2. /\ current \in DOMAIN buffers /\ top \in Nat /\ DOMAIN include_stack = 0 .. MaxInclude - 1
      /\ MaxInclude \in Nat
  BY LexFacts, MaxIncludeAssumption DEF OwnedInv
<1>3. Depth = top + 1 /\ Depth' = Depth + 1 /\ Depth \in Nat \ {0}
  BY <1>1, <1>2 DEF OpenTexts
<1>4. /\ DOMAIN rest = DOMAIN buffers /\ rest[current] = b
      /\ \A j \in DOMAIN buffers : j # current => rest[j] = buffers[j]
  BY <1>2
<1>5. buffers'[id] = new /\ \A j \in DOMAIN buffers : buffers'[j] = rest[j]
  BY <1>4 DEF With
<1>6. Sources'[1] = Remains(new) /\ Remains(new) \in Text
  <2>1. Sources' \in Texts2 /\ Sources' # << >> /\ Head(Sources') = Remains(Cur') /\ Remains(Cur') \in Text
    BY <1>1 DEF OpenTexts, Remains
  <2>2. Cur' = new
    BY <1>5 DEF Cur
  <2> QED
    BY <2>1, <2>2, HeadTailProperties DEF Texts2
<1>7. ASSUME NEW i \in 2 .. Depth + 1
      PROVE  Sources'[i] = Remains(buffers'[OpenAt(i)'])
  <2>1. i \in 1 .. Depth'
    BY <1>3
  <2> QED
    BY <1>1, <2>1 DEF OpenTexts, Remains
<1>8. Sources'[2] = Remains(b)
  <2>1. OpenAt(2)' = include_stack'[top + 1 + 1 - 2] /\ top + 1 + 1 - 2 = top
    BY <1>2 DEF OpenAt
  <2>2. OpenAt(2)' = current
    BY <1>2, <2>1
  <2>3. 2 \in 2 .. Depth + 1
    BY <1>3
  <2>4. Sources'[2] = Remains(buffers'[OpenAt(2)'])
    BY <1>7, <2>3
  <2> QED
    BY <1>2, <1>4, <1>5, <2>2, <2>4
<1>9. ASSUME NEW i \in 2 .. Depth
      PROVE  Sources'[i + 1] = Sources[i]
  <2>1. i \in 1 .. Depth /\ i # 1 /\ i + 1 \in 2 .. Depth + 1 /\ i + 1 # 1
    BY <1>3
  <2>2. /\ Sources[i] = Remains(buffers[OpenAt(i)]) /\ OpenAt(i) \in DOMAIN buffers
        /\ OpenAt(i) # current
    BY <1>1, <2>1 DEF OpenTexts
  <2>3. OpenAt(i + 1)' = include_stack'[top + 1 + 1 - (i + 1)]
    BY <2>1 DEF OpenAt
  <2>4. top + 1 + 1 - (i + 1) = top + 1 - i /\ top + 1 - i \in 0 .. MaxInclude - 1 /\ top + 1 - i # top
    BY <1>2, <1>3, <2>1
  <2>5. OpenAt(i) = include_stack[top + 1 - i]
    BY <2>1 DEF OpenAt
  <2>6. OpenAt(i + 1)' = OpenAt(i)
    <3> DEFINE k == top + 1 - i
    <3>1. k \in 0 .. MaxInclude - 1 /\ k # top /\ OpenAt(i + 1)' = include_stack'[k] /\ OpenAt(i) = include_stack[k]
      BY <2>3, <2>4, <2>5
    <3> HIDE DEF k
    <3> QED
      BY <1>2, <3>1
  <2>7. Sources'[i + 1] = Remains(buffers'[OpenAt(i + 1)'])
    BY <1>7, <2>1
  <2>8. buffers'[OpenAt(i)] = buffers[OpenAt(i)]
    BY <1>4, <1>5, <2>2
  <2> QED
    BY <2>2, <2>6, <2>7, <2>8
<1> DEFINE s == Sources
           t == Sources'
           x == Remains(b)
           y == Remains(new)
           r == << x >> \o Tail(s)
           k == Len(s)
<1>10. /\ s \in Texts2 /\ t \in Texts2 /\ s # << >> /\ Len(t) = k + 1 /\ k \in Nat \ {0}
       /\ x \in Text /\ y \in Text /\ t[1] = y /\ t[2] = x
       /\ \A i \in 2 .. k : t[i + 1] = s[i]
  BY <1>1, <1>3, <1>6, <1>8, <1>9 DEF OpenTexts
<1> HIDE DEF s, t, x, y
<1>11. /\ r \in Texts2 /\ Len(r) = k /\ r[1] = x /\ \A i \in 2 .. k : r[i] = s[i]
  BY <1>10, ReplacedIs
<1> HIDE DEF r, k
<1>12. ASSUME NEW i \in 1 .. k
       PROVE  t[i + 1] = r[i]
  <2>1. CASE i = 1
    BY <1>10, <1>11, <2>1
  <2>2. CASE i # 1
    <3>1. i \in 2 .. k
      BY <1>10, <2>2
    <3> QED
      BY <1>10, <1>11, <3>1
  <2> QED
    BY <2>1, <2>2
<1>13. t = << y >> \o r
  BY <1>10, <1>11, <1>12, OneMore
<1> QED
  BY <1>13 DEF s, t, x, y, r

(* A text ends and the one below it is taken up.                           *)
LEMMA TextEnds ==
  ASSUME LexInv, ~broken, LexInv', ~broken', include_stack_top > 0,
         buffers' = [b \in Left |-> buffers[b]], current' = Below, include_stack' = include_stack,
         include_stack_top' = include_stack_top - 1
  PROVE  Sources' = Tail(Sources) /\ Len(Sources) > 1
<1> DEFINE top == include_stack_top
<1>1. OpenTexts /\ OpenTexts'
  BY SourcesAre, SourcesThen
<1>2. top \in Int
  BY LexFacts
<1>3. Depth = top + 1 /\ Depth' = top /\ top \in Nat \ {0}
  BY <1>1, <1>2 DEF OpenTexts
<1>4. ASSUME NEW i \in 1 .. top
      PROVE  Sources'[i] = Sources[i + 1]
  <2>1. i \in 1 .. Depth' /\ i + 1 \in 1 .. Depth /\ i + 1 # 1
    BY <1>3
  <2>2. Sources'[i] = Remains(buffers'[OpenAt(i)'])
    BY <1>1, <2>1 DEF OpenTexts, Remains
  <2>3. /\ Sources[i + 1] = Remains(buffers[OpenAt(i + 1)]) /\ OpenAt(i + 1) \in DOMAIN buffers
        /\ OpenAt(i + 1) # current
    BY <1>1, <2>1 DEF OpenTexts
  <2>4. OpenAt(i + 1) = include_stack[top - i]
    <3>1. top + 1 - (i + 1) = top - i
      BY <1>3
    <3> QED
      BY <2>1, <3>1 DEF OpenAt
  <2>5. OpenAt(i)' = include_stack[top - i]
    <3>1. CASE i = 1
      BY <3>1 DEF OpenAt, Below
    <3>2. CASE i # 1
      <4>1. top - 1 + 1 - i = top - i
        BY <1>3
      <4>2. OpenAt(i)' = include_stack[top - 1 + 1 - i]
        BY <3>2 DEF OpenAt
      <4> QED
        BY <4>1, <4>2
    <3> QED
      BY <3>1, <3>2
  <2>6. buffers'[OpenAt(i + 1)] = buffers[OpenAt(i + 1)]
    BY <2>3 DEF Left
  <2> QED
    BY <2>2, <2>3, <2>4, <2>5, <2>6
<1> DEFINE s == Sources
           t == Sources'
<1>5. /\ s \in Texts2 /\ t \in Texts2 /\ s # << >> /\ Len(t) = Len(s) - 1 /\ Len(s) > 1
      /\ \A i \in 1 .. Len(t) : t[i] = s[i + 1]
  BY <1>1, <1>3, <1>4 DEF OpenTexts
<1> HIDE DEF s, t
<1>6. t = Tail(s)
  BY <1>5, FirstGone
<1> QED
  BY <1>5, <1>6 DEF s, t

-----------------------------------------------------------------------------
(***************************************************************************)
(* Every step of the scanner is one of the lexer or changes nothing of it. *)
(***************************************************************************)
LEMMA ResultIs ==
  /\ ~broken /\ Running => Result = "more"
  /\ ~broken' /\ status' \in {"scan", "ready"} => Result' = "more"
  /\ ~broken' /\ status' = "end" => Result' = "end"
  /\ broken' => Result' = "error"
  /\ broken => Result = "error"
  /\ ~broken /\ status \in {"ready", "end"} => Result # "error"
<1>1. ~broken /\ Running => Result = "more"
  BY DEF Result
<1>2. ~broken' /\ status' \in {"scan", "ready"} => Result' = "more"
  BY DEF Result, Running
<1>3. ~broken' /\ status' = "end" => Result' = "end"
  BY DEF Result, Running
<1>4. ~broken /\ status \in {"ready", "end"} => Result # "error"
  BY DEF Result, Running
<1> QED
  BY <1>1, <1>2, <1>3, <1>4 DEF Result

(* The lexer at a match to act on.                                         *)
LEMMA LexAt ==
  ASSUME WordMarks = {}, LexInv, ~broken, Running, NEW f, f = Match(Pending), NEW m \in Ready(f)
  PROVE  /\ Lexer!Scanning /\ Lexer!Text # << >> /\ m = Lexer!Matched(start, Lexer!Text)
         /\ Lexer!Lexeme(m) = Lexeme(m)
         /\ scans = 1 => Len(Sources) = include_stack_top + 1
         /\ \E b : /\ Taken(f, m) = [buffers EXCEPT ![current] = b]
                   /\ Remains(b) \in Text
                   /\ Lexer!Rest(m) = << Remains(b) >> \o Tail(Sources)
<1> DEFINE t == Remains(Cur)
<1>1. OpenTexts
  BY SourcesAre
<1>2. Lexer!Text = t
  BY <1>1 DEF OpenTexts, Lexer!Text
<1>3. t # << >> /\ m = Matched(start, t)
  BY ReadyMatched
<1>4. Lexer!Matched(start, t) = Matched(start, t)
  BY SameMatch
<1>5. PICK b : /\ Taken(f, m) = [buffers EXCEPT ![current] = b]
               /\ BufferOk(b) /\ Remains(b) = SubSeq(t, m.len + 1, Len(t))
  BY TakenLeaves
<1>6. Lexeme(m) = SubSeq(t, 1, m.len)
  BY TakenLeaves
<1> HIDE DEF t
<1>7. Lexer!Lexeme(m) = Lexeme(m)
  BY <1>2, <1>6 DEF Lexer!Lexeme
<1>8. Lexer!Rest(m) = << Remains(b) >> \o Tail(Sources)
  BY <1>2, <1>5 DEF Lexer!Rest
<1>9. Lexer!Scanning
  BY ResultIs DEF Lexer!Scanning
<1>10. Remains(b) \in Text
  BY <1>5, RemainsText
<1>11. scans = 1 => Len(Sources) = include_stack_top + 1
  <2>1. scans = 1 => include_stack_top >= 0 /\ include_stack_top \in Int
    BY LexFacts
  <2> QED
    BY <1>1, <2>1 DEF OpenTexts
<1> QED
  BY <1>2, <1>3, <1>4, <1>5, <1>7, <1>8, <1>9, <1>10, <1>11

LEMMA LexBy ==
  ASSUME NEW m, Lexer!Scanning, Lexer!Text # << >>, m = Lexer!Matched(start, Lexer!Text),
         Lexer!Rule(m) \/ Lexer!Include(m) \/ Lexer!TooManyIncludes(m) \/ Lexer!IncludeFails(m)
  PROVE  Lexer!Next
BY Zenon DEF Lexer!Lex, Lexer!Next

LEMMA RuleLexes ==
  ASSUME WordMarks = {}, LexInv, LexInv', ~broken, Running, NEW f, f = Match(Pending),
         NEW m \in Ready(f), Rule(f, m)
  PROVE  Lexer!Next
<1>1. /\ Lexer!Scanning /\ Lexer!Text # << >> /\ m = Lexer!Matched(start, Lexer!Text)
      /\ Lexer!Lexeme(m) = Lexeme(m)
  BY LexAt
<1>2. PICK b : /\ Taken(f, m) = [buffers EXCEPT ![current] = b]
               /\ Lexer!Rest(m) = << Remains(b) >> \o Tail(Sources)
  BY LexAt
<1>3. /\ m.rule # 18 /\ buffers' = Taken(f, m) /\ status' \in {"scan", "ready"}
      /\ UNCHANGED <<current, include_stack, include_stack_top, scans, broken>>
  BY DEF Rule, include, Returns, GoesOn
<1>4. /\ start' = After(m.rule, start, back).start /\ back' = After(m.rule, start, back).back
      /\ tokens' = IF m.rule \in Returning THEN Append(tokens, TokenOf(m.rule, Lexeme(m))) ELSE tokens
      /\ echoed' = IF m.rule = 28 THEN echoed \o Lexeme(m) ELSE echoed
  BY Zenon DEF Rule
<1>5. Sources' = Lexer!Rest(m)
  BY <1>2, <1>3, CurrentChanges
<1>6. Result' = Result
  BY <1>3, ResultIs
<1>7. /\ start' = Lexer!After(m.rule, start, back).start
      /\ back' = Lexer!After(m.rule, start, back).back
  BY <1>4, SameActions, Zenon
<1>8. tokens' = IF m.rule \in Lexer!Returning
                THEN Append(tokens, Lexer!TokenOf(m.rule, Lexer!Lexeme(m))) ELSE tokens
  BY <1>1, <1>4, SameActions, SameSets, Zenon
<1>9. echoed' = IF m.rule = 28 THEN echoed \o Lexer!Lexeme(m) ELSE echoed
  BY <1>1, <1>4, Zenon
<1>10. (scans = 1)' = (scans = 1)
  BY <1>3
<1>11. Lexer!Rule(m)
  BY <1>3, <1>5, <1>6, <1>7, <1>8, <1>9, <1>10, Zenon DEF Lexer!Rule
<1> QED
  BY <1>1, <1>11, LexBy

LEMMA TooManyLexes ==
  ASSUME WordMarks = {}, LexInv, LexInv', ~broken, Running, NEW f, f = Match(Pending),
         NEW m \in Ready(f), TooManyIncludes(f, m)
  PROVE  Lexer!Next
<1>1. /\ Lexer!Scanning /\ Lexer!Text # << >> /\ m = Lexer!Matched(start, Lexer!Text)
      /\ scans = 1 => Len(Sources) = include_stack_top + 1
  BY LexAt
<1>2. PICK b : /\ Taken(f, m) = [buffers EXCEPT ![current] = b]
               /\ Lexer!Rest(m) = << Remains(b) >> \o Tail(Sources)
  BY LexAt
<1>3. /\ m.rule = 18 /\ include_stack_top >= MaxInclude /\ buffers' = Taken(f, m) /\ status' = "ready"
      /\ tokens' = Append(tokens, Sign("unset"))
      /\ UNCHANGED <<current, include_stack, include_stack_top, scans, start, back, echoed>>
      /\ broken' = (broken \/ scans > 1)
  BY DEF TooManyIncludes, Including, include, Returns
<1>4. scans \in Nat \ {0} /\ include_stack_top \in Int /\ MaxInclude \in Nat
  BY LexFacts, MaxIncludeAssumption
<1>5. (scans = 1)' = (scans = 1)
  BY <1>3
<1>6. CASE scans = 1
  <2>a. ~(scans > 1)
    BY <1>6
  <2>1. ~broken'
    BY <1>3, <2>a, Zenon
  <2>2. Sources' = Lexer!Rest(m)
    BY <1>2, <1>3, <2>1, CurrentChanges
  <2>3. Result' = Result
    BY <1>3, <2>1, ResultIs
  <2>4. Len(Sources) > MaxInclude
    BY <1>1, <1>3, <1>4, <1>6
  <2>5. tokens' = Append(tokens, Lexer!Sign("unset"))
    BY <1>3, SameActions, Zenon
  <2>6. Lexer!TooManyIncludes(m)
    BY <1>3, <1>5, <1>6, <2>2, <2>3, <2>4, <2>5, Zenon DEF Lexer!TooManyIncludes
  <2> QED
    BY <1>1, <2>6, LexBy
<1>7. CASE scans # 1
  <2>a. scans > 1
    BY <1>4, <1>7
  <2>1. broken'
    BY <1>3, <2>a, Zenon
  <2>2. Result' = "error"
    BY <2>1, ResultIs
  <2>3. Lexer!IncludeFails(m)
    BY <1>3, <1>5, <1>7, <2>2, Zenon DEF Lexer!IncludeFails
  <2> QED
    BY <1>1, <2>3, LexBy
<1> QED
  BY <1>6, <1>7

LEMMA IncludeLexes ==
  ASSUME WordMarks = {}, LexInv, LexInv', ~broken, Running, NEW f, f = Match(Pending),
         NEW m \in Ready(f), Include(f, m)
  PROVE  Lexer!Next
<1> DEFINE id   == Fresh(DOMAIN buffers \cup {current})
           new  == FileBuffer(Files[FileName(Lexeme(m))], FALSE)
           rest == Taken(f, m)
           top  == include_stack_top
<1>1. /\ Lexer!Scanning /\ Lexer!Text # << >> /\ m = Lexer!Matched(start, Lexer!Text)
      /\ Lexer!Lexeme(m) = Lexeme(m)
      /\ scans = 1 => Len(Sources) = top + 1
  BY LexAt
<1>2. PICK b : /\ rest = [buffers EXCEPT ![current] = b] /\ Remains(b) \in Text
               /\ Lexer!Rest(m) = << Remains(b) >> \o Tail(Sources)
  BY LexAt
<1>3. /\ buffers' = With(rest, id, new) /\ current' = id /\ status' = "scan" /\ start' = "INITIAL"
      /\ FileName(Lexeme(m)) \in DOMAIN Files
      /\ broken' = (broken \/ scans > 1)
      /\ UNCHANGED <<scans, back, tokens, echoed>>
  BY DEF Include, history, GoesOn
<1>4. /\ m.rule = 18 /\ top \in 0 .. MaxInclude - 1 /\ top' = top + 1
      /\ include_stack' = [include_stack EXCEPT ![top] = current]
  BY DEF Include, Push, Including
<1>5. scans \in Nat \ {0} /\ top \in Int /\ MaxInclude \in Nat
  BY LexFacts, MaxIncludeAssumption
<1>6. (scans = 1)' = (scans = 1)
  BY <1>3
<1>7. id \notin DOMAIN buffers
  <2>1. IsFiniteSet(DOMAIN buffers) /\ DOMAIN include_stack = 0 .. MaxInclude - 1
    BY LexFacts DEF ScanInv, StateOk, BuffersOk
  <2>2. IsFiniteSet(DOMAIN buffers \cup {current})
    BY <2>1, FS_AddElement
  <2> QED
    BY <2>1, <2>2, FreshIsNew
<1>8. Remains(new) = Files[FileName(Lexeme(m))]
  <2> DEFINE t == Files[FileName(Lexeme(m))]
  <2>1. t \in Text
    BY <1>3, FilesAssumption DEF Text
  <2> HIDE DEF t
  <2>2. FileBuffer(t, FALSE).ch = << >> /\ FileBuffer(t, FALSE).pos = 1 /\ FileBuffer(t, FALSE).unread = t
    BY DEF FileBuffer
  <2>3. SubSeq(<< >>, 1, Len(<< >>)) = << >> /\ << >> \o t = t
    BY <2>1, NoText, SubSeqFull, ConcatEmptySeq DEF Text
  <2>4. Remains(FileBuffer(t, FALSE)) = t
    BY <2>2, <2>3 DEF Remains
  <2> QED
    BY <2>4 DEF t
<1> HIDE DEF id, new, rest
<1>9. CASE scans = 1
  <2>a. ~(scans > 1)
    BY <1>9
  <2>1. ~broken'
    BY <1>3, <2>a, Zenon
  <2>2. Sources' = << Remains(new) >> \o Lexer!Rest(m)
    BY <1>2, <1>3, <1>4, <1>7, <2>1, TextOpened
  <2>3. FileName(Lexeme(m)) = Lexer!FileName(Lexer!Lexeme(m))
    BY <1>1, SameActions, Zenon
  <2>4. Sources' = << Files[Lexer!FileName(Lexer!Lexeme(m))] >> \o Lexer!Rest(m)
    BY <1>8, <2>2, <2>3, Zenon
  <2>5. Result' = Result
    BY <1>3, <2>1, ResultIs
  <2>6. Len(Sources) <= MaxInclude
    BY <1>1, <1>4, <1>5, <1>9
  <2>7. Lexer!Include(m)
    BY <1>3, <1>4, <1>6, <1>9, <2>3, <2>4, <2>5, <2>6, Zenon DEF Lexer!Include
  <2> QED
    BY <1>1, <2>7, LexBy
<1>10. CASE scans # 1
  <2>a. scans > 1
    BY <1>5, <1>10
  <2>1. broken'
    BY <1>3, <2>a, Zenon
  <2>2. Result' = "error"
    BY <2>1, ResultIs
  <2>3. Lexer!IncludeFails(m)
    BY <1>4, <1>6, <1>10, <2>2, Zenon DEF Lexer!IncludeFails
  <2> QED
    BY <1>1, <2>3, LexBy
<1> QED
  BY <1>9, <1>10

LEMMA FailLexes ==
  ASSUME WordMarks = {}, LexInv, ~broken, Running, NEW f, f = Match(Pending),
         NEW m \in Ready(f), IncludeFails(f, m) \/ IncludeAstray(m)
  PROVE  Lexer!Next
<1>1. /\ Lexer!Scanning /\ Lexer!Text # << >> /\ m = Lexer!Matched(start, Lexer!Text)
      /\ Lexer!Lexeme(m) = Lexeme(m)
      /\ scans = 1 => Len(Sources) = include_stack_top + 1
  BY LexAt
<1>2. scans \in Nat \ {0} /\ include_stack_top \in Int /\ MaxInclude \in Nat
  BY LexFacts, MaxIncludeAssumption
<1>3. CASE IncludeFails(f, m)
  <2>1. /\ m.rule = 18 /\ include_stack_top \in 0 .. MaxInclude - 1
        /\ FileName(Lexeme(m)) \notin DOMAIN Files
        /\ broken' /\ scans' = scans
    BY <1>3 DEF IncludeFails, Push, Including
  <2>2. Lexer!FileName(Lexer!Lexeme(m)) \notin DOMAIN Files
    BY <1>1, <2>1, SameActions, Zenon
  <2>3. scans = 1 => Len(Sources) <= MaxInclude
    BY <1>1, <1>2, <2>1
  <2>4. Result' = "error" /\ (scans = 1)' = (scans = 1)
    BY <2>1, ResultIs
  <2>5. Lexer!IncludeFails(m)
    BY <2>1, <2>2, <2>3, <2>4, Zenon DEF Lexer!IncludeFails
  <2> QED
    BY <1>1, <2>5, LexBy
<1>4. CASE IncludeAstray(m)
  <2>1. m.rule = 18 /\ broken' = (broken \/ scans > 1) /\ scans' = scans
    BY <1>4 DEF IncludeAstray, Including, history
  <2>2. scans > 1
    BY <1>4, NothingWild
  <2>3. broken' /\ ~(scans = 1)
    <3>1. broken'
      BY <2>1, <2>2, Zenon
    <3>2. ~(scans = 1)
      BY <1>2, <2>2
    <3> QED
      BY <3>1, <3>2
  <2>4. Result' = "error" /\ (scans = 1)' = (scans = 1)
    BY <2>1, <2>3, ResultIs
  <2>5. Lexer!IncludeFails(m)
    BY <2>1, <2>3, <2>4, Zenon DEF Lexer!IncludeFails
  <2> QED
    BY <1>1, <2>5, LexBy
<1> QED
  BY <1>3, <1>4

LEMMA RefillLexes ==
  ASSUME LexInv, LexInv', ~broken, Running, NEW f, Refill(f)
  PROVE  UNCHANGED Lexer!vars
<1>1. PICK b : buffers' = [buffers EXCEPT ![current] = b] /\ Remains(b) = Remains(Cur)
  BY RefillLeaves
<1>2. /\ status' = "scan"
      /\ UNCHANGED <<current, include_stack, include_stack_top, scans, start, back, tokens, echoed, broken>>
  BY DEF Refill, include, history, GoesOn
<1>3. Sources' = Sources
  BY <1>1, <1>2, CurrentChanges
<1>4. Result' = Result /\ (scans = 1)' = (scans = 1)
  BY <1>2, ResultIs
<1> QED
  BY <1>2, <1>3, <1>4 DEF Lexer!vars

LEMMA TerminateLexes ==
  ASSUME LexInv, LexInv', ~broken, Running, NEW f, EndOfOther(f) \/ EndOfInitial(f)
  PROVE  Lexer!Next
<1>1. /\ AtEof(f) /\ buffers' = [buffers EXCEPT ![current] = Restarted] /\ status' = "end"
      /\ UNCHANGED <<current, include_stack, scans, start, back, tokens, echoed, broken>>
  BY DEF EndOfOther, EndOfInitial, Terminate, history
<1>2. OpenTexts /\ include_stack_top \in Int
  BY SourcesAre, LexFacts
<1>3. /\ include_stack_top' = include_stack_top \/ (include_stack_top <= 0 /\ include_stack_top' <= 0)
      /\ start # "INITIAL" \/ include_stack_top <= 0
  BY <1>2 DEF EndOfOther, EndOfInitial
<1>4. Remains(Restarted) = << >> /\ Remains(Cur) = << >>
  BY <1>1, RestartLeaves, EofIs
<1>5. Sources' = Sources
  BY <1>1, <1>3, <1>4, CurrentChanges
<1>6. Lexer!Text = << >> /\ Lexer!Scanning
  BY <1>2, <1>4, ResultIs DEF Lexer!Text, Lexer!Scanning, OpenTexts
<1>7. start # "INITIAL" \/ Len(Sources) = 1
  BY <1>2, <1>3 DEF OpenTexts
<1>8. Result' = "end" /\ (scans = 1)' = (scans = 1)
  BY <1>1, ResultIs
<1>9. Lexer!End
  BY <1>1, <1>5, <1>6, <1>7, <1>8, Zenon DEF Lexer!End
<1> QED
  BY <1>9 DEF Lexer!Next

LEMMA EndOfIncludeLexes ==
  ASSUME LexInv, LexInv', ~broken, Running, NEW f, EndOfInclude(f)
  PROVE  Lexer!Next
<1>1. /\ AtEof(f) /\ start = "INITIAL" /\ include_stack_top > 0
      /\ include_stack_top' = include_stack_top - 1
      /\ buffers' = [i \in Left |-> buffers[i]] /\ current' = Below
      /\ start' = "MACRO" /\ status' = "scan"
      /\ UNCHANGED <<include_stack, scans, back, tokens, echoed, broken>>
  BY DEF EndOfInclude, history, GoesOn
<1>2. Sources' = Tail(Sources) /\ Len(Sources) > 1
  BY <1>1, TextEnds
<1>3. Lexer!Text = << >> /\ Lexer!Scanning
  BY <1>1, SourcesAre, EofIs, ResultIs DEF Lexer!Text, Lexer!Scanning, OpenTexts
<1>4. Result' = Result /\ (scans = 1)' = (scans = 1)
  BY <1>1, ResultIs
<1>5. Lexer!EndOfFile
  BY <1>1, <1>2, <1>3, <1>4, Zenon DEF Lexer!EndOfFile
<1> QED
  BY <1>5 DEF Lexer!Next

(* Where there is one text it is that of the one buffer.                   *)
LEMMA OneText ==
  ASSUME NEW s \in Texts2, Len(s) = 1, NEW x, s # << >>, Head(s) = x
  PROVE  s = << x >>
<1>1. Head(s) = s[1] /\ x \in Text
  BY HeadTailProperties DEF Texts2
<1> DEFINE o == << x >>
<1>2. o \in Texts2 /\ Len(o) = 1 /\ o[1] = x
  BY <1>1 DEF Texts2
<1> HIDE DEF o
<1>3. s = o
  BY <1>1, <1>2, SeqEqual DEF Texts2
<1> QED
  BY <1>3 DEF o

LEMMA NextScanLexes ==
  ASSUME LexInv, LexInv', ~broken, NextScan
  PROVE  Lexer!Next
<1>1. /\ status \in {"ready", "end"} /\ status' = "ready" /\ scans' = scans + 1
      /\ start' = "INITIAL" /\ back' = << >> /\ tokens' = << >> /\ echoed' = << >>
      /\ broken' = (broken \/ include_stack_top > 0)
  BY DEF NextScan
<1>2. OpenTexts /\ include_stack_top \in Int /\ scans \in Nat \ {0}
  BY SourcesAre, LexFacts
<1>3. Result # "error"
  BY <1>1, ResultIs
<1>4. (scans = 1)' = FALSE
  <2>1. ~(scans + 1 = 1)
    BY <1>2
  <2> QED
    BY <1>1, <2>1
<1>5. CASE include_stack_top > 0
  <2>1. broken'
    BY <1>1, <1>5
  <2>2. Len(Sources) > 1
    BY <1>2, <1>5 DEF OpenTexts
  <2>3. Result' = "error"
    BY <2>1, ResultIs
  <2>4. Lexer!NextScanSpoilt
    BY <1>3, <1>4, <2>2, <2>3, Zenon DEF Lexer!NextScanSpoilt
  <2> QED
    BY <2>4 DEF Lexer!Next
<1>6. CASE ~(include_stack_top > 0)
  <2>1. ~broken'
    BY <1>1, <1>6
  <2>2. include_stack_top' = include_stack_top /\ \E input \in Later : buffers'[current'] = BufferOf(input)
    BY <2>1, NextScanTame
  <2>3. PICK input \in Later : Cur' = BufferOf(input)
    BY <2>2 DEF Cur
  <2>4. Remains(Cur)' = input.text
    BY <2>3, InputSaid DEF Remains
  <2>5. OpenTexts'
    BY <2>1, SourcesThen
  <2>6. Sources' \in Texts2 /\ Len(Sources') = 1 /\ Sources' # << >> /\ Head(Sources') = input.text
    BY <1>2, <1>6, <2>2, <2>4, <2>5 DEF OpenTexts
  <2>7. Sources' = << input.text >>
    BY <2>6, OneText
  <2>8. Sources' \in Lexer!Single
    BY <2>7 DEF Lexer!Single, Texts
  <2>9. Len(Sources) = 1
    BY <1>2, <1>6 DEF OpenTexts
  <2>10. Result' = "more"
    BY <1>1, <2>1, ResultIs
  <2>11. Lexer!NextScan
    BY <1>1, <1>3, <1>4, <2>8, <2>9, <2>10, Zenon DEF Lexer!NextScan
  <2> QED
    BY <2>11 DEF Lexer!Next
<1> QED
  BY <1>5, <1>6

LEMMA InitLexes ==
  ASSUME Init
  PROVE  Lexer!Init
<1>1. LexInv
  BY InitLex
<1>2. PICK input \in Inputs : buffers = [b \in {1} |-> BufferOf(input)]
  BY DEF Init
<1>3. /\ current = 1 /\ scans = 1 /\ include_stack_top = 0 /\ status = "ready" /\ ~broken
      /\ start = "INITIAL" /\ back = << >> /\ tokens = << >> /\ echoed = << >>
  BY DEF Init
<1>4. OpenTexts
  BY <1>1, <1>3, SourcesAre
<1>5. Remains(Cur) = input.text
  BY <1>2, <1>3, InputSaid DEF Cur
<1>6. Sources = << input.text >>
  BY <1>3, <1>4, <1>5, OneText DEF OpenTexts
<1>7. Sources \in Lexer!Single
  BY <1>6 DEF Lexer!Single, Texts
<1>8. Result = "more"
  BY <1>3, ResultIs DEF Running
<1> QED
  BY <1>3, <1>7, <1>8 DEF Lexer!Init

(* Once something is broken it stays so.                                   *)
LEMMA StaysBroken ==
  ASSUME Next, broken
  PROVE  broken'
<1>1. CASE yylex
  BY <1>1 DEF yylex, Refill, ReadNull, Rule, Include, IncludeFails, TooManyIncludes, IncludeAstray,
     EndOfOther, EndOfInitial, EndOfInclude, BelowIsGone, Terminate
<1>2. CASE NextScan
  BY <1>2 DEF NextScan
<1>3. CASE DeletedTwice
  BY <1>3 DEF DeletedTwice
<1> QED
  BY <1>1, <1>2, <1>3 DEF Next

LEMMA NextLexes ==
  ASSUME WordMarks = {}, LexInv, LexInv', [Next]_vars
  PROVE  [Lexer!Next]_Lexer!vars
<1>1. CASE UNCHANGED vars
  BY <1>1 DEF vars, flex, include, history, Lexer!vars, Sources, Depth, OpenAt, Remains, Result, Running
<1>2. ASSUME Next, broken
      PROVE  Lexer!Next
  <2>1. Result = "error" /\ Result' = "error"
    BY <1>2, StaysBroken, ResultIs
  <2> QED
    BY <2>1 DEF Lexer!Unspecified, Lexer!Next
<1>3. CASE ~broken /\ yylex
  <2>1. PICK f \in {Match(Pending)} :
       \/ Refill(f) \/ ReadNull(f)
       \/ \E m \in Ready(f) :
            \/ Rule(f, m) \/ Include(f, m) \/ IncludeFails(f, m)
            \/ TooManyIncludes(f, m) \/ IncludeAstray(m)
       \/ EndOfOther(f) \/ EndOfInitial(f) \/ EndOfInclude(f) \/ BelowIsGone(f)
    BY <1>3 DEF yylex
  <2>2. Running /\ f = Match(Pending) /\ ~broken
    BY <1>3 DEF yylex
  <2>3. ~ReadNull(f) /\ ~BelowIsGone(f)
    BY <2>2, NothingWild
  <2>4. CASE Refill(f)
    BY <2>2, <2>4, RefillLexes
  <2>5. ASSUME NEW m \in Ready(f), Rule(f, m)
        PROVE  Lexer!Next
    BY <2>2, <2>5, RuleLexes
  <2>6. ASSUME NEW m \in Ready(f), Include(f, m)
        PROVE  Lexer!Next
    BY <2>2, <2>6, IncludeLexes
  <2>7. ASSUME NEW m \in Ready(f), IncludeFails(f, m) \/ IncludeAstray(m)
        PROVE  Lexer!Next
    BY <2>2, <2>7, FailLexes
  <2>8. ASSUME NEW m \in Ready(f), TooManyIncludes(f, m)
        PROVE  Lexer!Next
    BY <2>2, <2>8, TooManyLexes
  <2>9. CASE EndOfOther(f) \/ EndOfInitial(f)
    BY <2>2, <2>9, TerminateLexes
  <2>10. CASE EndOfInclude(f)
    BY <2>2, <2>10, EndOfIncludeLexes
  <2> QED
    BY <2>1, <2>3, <2>4, <2>5, <2>6, <2>7, <2>8, <2>9, <2>10
<1>4. CASE ~broken /\ NextScan
  BY <1>4, NextScanLexes
<1>5. CASE ~broken /\ DeletedTwice
  BY <1>5, NothingWild
<1> QED
  BY <1>1, <1>2, <1>3, <1>4, <1>5 DEF Next

(* Until an include fails, a later scan meets one or a scan is dropped      *)
(* within one, no buffer, file or entry of the include stack is used that  *)
(* is none: BuffersLive, which does not hold in general, holds so long.    *)
THEOREM WildWhenBroken == Spec => [](~broken => BuffersLive)
<1>1. Init => LexInv
  BY InitLex
<1>2. LexInv /\ [Next]_vars => LexInv'
  BY NextLex
<1>3. LexInv => (~broken => BuffersLive)
  BY DEF LexInv, Tame, BuffersLive
<1> QED
  BY <1>1, <1>2, <1>3, PTL DEF Spec

(* The tables, the buffers, their refills and the include stack do what    *)
(* the rules and the includes of cmplv2.lex say, whatever the texts and    *)
(* the files, however they are cut into reads and whatever the sizes of    *)
(* the buffers, when a word has no marks of its own.                       *)
THEOREM ScannerLexes ==
  ASSUME WordMarks = {}
  PROVE  Spec => LexerSpec
<1>1. Init => LexInv /\ Lexer!Init
  BY InitLex, InitLexes
<1>2. LexInv /\ [Next]_vars => LexInv'
  BY NextLex
<1>3. LexInv /\ LexInv' /\ [Next]_vars => [Lexer!Next]_Lexer!vars
  BY NextLexes
<1> QED
  BY <1>1, <1>2, <1>3, PTL DEF Spec, LexerSpec, Lexer!Spec
=============================================================================
