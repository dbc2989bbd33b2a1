----------------------------- MODULE ZhvmScanner -----------------------------
(***************************************************************************)
(* The scanner that flex makes of cmplv2.lex, as it is checked in for      *)
(* Windows (win32/cmplv2.gen.cpp): the compressed tables of the automaton, *)
(* the buffers and their refills, and the include stack, which is global:  *)
(* it belongs to the process and outlives a scan.                          *)
(*                                                                         *)
(* A buffer holds the characters read so far, ch, of which those before    *)
(* pos are taken; the two end-of-buffer characters behind them are left    *)
(* out, and so are the copies that the scanner keeps of the fields of the  *)
(* current buffer.  unread is what its FILE still has.  A deleted buffer   *)
(* is one that buffers no longer has; the number 0 is the null pointer.    *)
(***************************************************************************)
EXTENDS ZhvmLexRules, TLC

CONSTANTS
  Inputs,      \* what the first scan may be given: [from, text]
  Later,       \* and the scans behind it
  Files,       \* the files that can be opened: a function from name to text
  MaxInclude,  \* ZHVM_MAX_INCLUDE
  BufSize,     \* YY_BUF_SIZE
  ReadMax,     \* YY_READ_BUF_SIZE
  MaxScans     \* bound on the scans of a process

ASSUME BufSizeAssumption == BufSize \in Nat \ {0, 1} /\ ReadMax \in Nat \ {0}
ASSUME MaxIncludeAssumption == MaxInclude \in Nat
ASSUME InputsAssumption ==
  \A i \in Inputs \cup Later :
    i.from \in {"file", "terminal", "string"} /\ i.text \in Seq(STRING)
ASSUME FilesAssumption == \A name \in DOMAIN Files : Files[name] \in Seq(STRING)
ASSUME MaxScansAssumption == MaxScans \in Nat \ {0}

VARIABLES
  buffers,        \* the buffers that are alive
  current,        \* YY_CURRENT_BUFFER
  bs,             \* the buffer of a string, kept by cmplv2, or 0
  yyin,           \* is yyin a file
  include_stack,
  include_stack_top,
  start,          \* yy_start
  back,           \* yy_start_stack
  given,          \* history: the text of this scan
  tokens,         \* history: the tokens returned in this scan
  echoed,         \* history: the characters written to standard output
  status,         \* "scan" in a call of yylex, "ready" outside of one, "end",
                  \* and "wild" once a buffer, file or index is used that is none
  scans,          \* history: the scans begun
  broken          \* history: is the scan outside of what ZhvmLexer promises

flex    == <<buffers, current, bs, yyin>>
include == <<include_stack, include_stack_top>>
history == <<given, tokens, echoed, scans>>
vars    == <<flex, include, start, back, history, status, broken>>

-----------------------------------------------------------------------------
(***************************************************************************)
(* The tables.                                                             *)
(***************************************************************************)
yy_accept ==
  << 0, 0, 0, 0, 0, 27, 27, 0, 0, 17, 17, 29, 14, 10, 13, 2, 1, 11, 8, 12,
     9, 9, 5, 4, 3, 6, 7, 16, 28, 15, 27, 26, 22, 24, 25, 20, 23, 23, 21,
     21, 18, 17, 10, 9, 9, 0, 3, 27, 22, 23, 23, 0, 21, 21, 18, 17, 9, 23,
     21, 21, 21, 21, 19, 0 >>

yy_meta ==
  << 0, 1, 2, 3, 1, 1, 1, 1, 1, 4, 4, 4, 1, 1, 4, 4, 4, 4, 1, 1, 4, 4, 4, 4,
     4, 4, 4, 4 >>

yy_base ==
  << 0, 0, 0, 25, 44, 112, 107, 65, 0, 27, 29, 109, 151, 105, 151, 151, 151,
     151, 151, 151, 84, 79, 151, 151, 0, 151, 151, 151, 151, 151, 0, 151,
     103, 151, 151, 151, 103, 77, 0, 78, 0, 100, 97, 71, 20, 39, 0, 0, 95,
     69, 35, 46, 0, 43, 0, 60, 0, 0, 36, 17, 20, 18, 0, 151, 130, 134, 138,
     34, 142, 29, 146 >>

yy_def ==
  << 0, 63, 1, 64, 64, 65, 65, 63, 7, 66, 66, 63, 63, 63, 63, 63, 63, 63,
     63, 63, 63, 20, 63, 63, 67, 63, 63, 63, 63, 63, 68, 63, 63, 63, 63, 63,
     63, 36, 69, 69, 70, 63, 63, 20, 63, 63, 67, 68, 63, 36, 63, 63, 69, 69,
     70, 63, 20, 36, 69, 69, 69, 69, 69, 0, 63, 63, 63, 63, 63, 63, 63 >>

yy_nxt ==
  << 0, 12, 13, 14, 15, 16, 17, 18, 19, 20, 21, 21, 22, 23, 24, 24, 24, 24,
     25, 26, 24, 24, 24, 24, 24, 24, 24, 24, 28, 41, 28, 41, 28, 52, 29, 29,
     44, 44, 46, 29, 62, 61, 29, 60, 44, 29, 29, 28, 56, 43, 43, 50, 50, 29,
     29, 57, 49, 49, 29, 50, 59, 29, 55, 58, 29, 29, 28, 32, 33, 28, 34, 35,
     28, 28, 36, 37, 37, 28, 28, 38, 38, 38, 38, 28, 28, 38, 38, 38, 39, 38,
     38, 38, 38, 43, 43, 43, 63, 48, 63, 42, 44, 44, 55, 53, 63, 48, 63, 42,
     44, 63, 31, 45, 49, 49, 49, 31, 63, 63, 63, 50, 50, 63, 63, 63, 63, 63,
     63, 50, 63, 63, 51, 27, 27, 27, 27, 30, 30, 30, 30, 40, 40, 40, 40, 47,
     47, 63, 47, 54, 63, 63, 54, 11, 63, 63, 63, 63, 63, 63, 63, 63, 63, 63,
     63, 63, 63, 63, 63, 63, 63, 63, 63, 63, 63, 63, 63, 63, 63, 63, 63 >>

yy_chk ==
  << 0, 1, 1, 1, 1, 1, 1, 1, 1, 1, 1, 1, 1, 1, 1, 1, 1, 1, 1, 1, 1, 1, 1, 1,
     1, 1, 1, 1, 3, 9, 9, 10, 10, 69, 3, 3, 44, 44, 67, 3, 61, 60, 3, 59,
     44, 3, 3, 4, 45, 45, 45, 50, 50, 4, 4, 51, 51, 51, 4, 50, 58, 4, 55,
     53, 4, 4, 7, 7, 7, 7, 7, 7, 7, 7, 7, 7, 7, 7, 7, 7, 7, 7, 7, 7, 7, 7,
     7, 7, 7, 7, 7, 7, 7, 20, 20, 20, 49, 48, 43, 42, 20, 20, 41, 39, 37,
     32, 21, 13, 20, 11, 6, 20, 36, 36, 36, 5, 0, 0, 0, 36, 36, 0, 0, 0, 0,
     0, 0, 36, 0, 0, 36, 64, 64, 64, 64, 65, 65, 65, 65, 66, 66, 66, 66, 68,
     68, 0, 68, 70, 0, 0, 70, 63, 63, 63, 63, 63, 63, 63, 63, 63, 63, 63,
     63, 63, 63, 63, 63, 63, 63, 63, 63, 63, 63, 63, 63, 63, 63, 63, 63 >>

(* Entries are counted from 0.                                             *)
Entry(table, i) == table[i + 1]

(* The class of a character.  A 0 in the text is first taken for an end of *)
(* buffer and then, by yy_try_NUL_trans, as class 1.                       *)
RegLetters == {"A", "B", "C", "D", "P", "Z", "a", "b", "p", "z"}
InKeywords == << "c", "d", "e", "i", "l", "n", "u", "x" >>
Marks      == << "\n", "!", "#", "$", "+", ",", "0", "1", "9", "=", "@" >>

yy_ec ==
  [c \in Alpha \cup Digit \cup Space \cup {"-", "[", "]"} \cup {Marks[i] : i \in 1 .. 11} |->
     CASE c \in RegLetters -> 14
       [] c \in {"L", "Q", "q"} -> 16
       [] c \in {"S", "s"} -> 17
       [] \E i \in 1 .. 8 : InKeywords[i] = c -> 19 + CHOOSE i \in 1 .. 8 : InKeywords[i] = c
       [] \E i \in 1 .. 11 : Marks[i] = c -> 2 + CHOOSE i \in 1 .. 11 : Marks[i] = c
       [] c \in Space -> 2
       [] c \in Digit \ {"0", "1", "9"} -> 10
       [] c = "-" -> 7
       [] c = "[" -> 18
       [] c = "]" -> 19
       [] OTHER -> 15]

Class(c) == IF c \in DOMAIN yy_ec THEN yy_ec[c] ELSE 1

EndOfBufferClass == 0
EndOfBufferAct   == 29
JamBase          == 151

(* An entry that is not the state's own is looked up in the state it       *)
(* defaults to; from state 64 on with the class of the class.              *)
Transition[s \in 1 .. 70] ==
  [c \in 0 .. 27 |->
     IF Entry(yy_chk, Entry(yy_base, s) + c) = s
     THEN Entry(yy_nxt, Entry(yy_base, s) + c)
     ELSE LET d == Entry(yy_def, s)
          IN  Transition[d][IF d >= 64 THEN Entry(yy_meta, c) ELSE c]]

StartState ==
  CASE start = "INITIAL" -> 1 [] start = "REGISTER" -> 3 [] start = "COMMENT" -> 5
    [] start = "MACRO" -> 7 [] start = "INCLUDE" -> 9

(* yy_match: along the text from its i-th character on until the automaton *)
(* jams, and then back to the last state that accepted a rule.             *)
NoMatch == [rule |-> 0, len |-> 0]

Along(t, ends) ==
  LET n == Len(t)
      class(i) == IF i <= n THEN Class(t[i]) ELSE EndOfBufferClass
      best[i \in 0 .. n + ends] ==
        [s \in 1 .. 63 |->
           LET here  == [rule |-> Entry(yy_accept, s), len |-> i]
               later == IF i = n + ends \/ Entry(yy_base, s) = JamBase THEN NoMatch
                        ELSE best[i + 1][Transition[s][class(i + 1)]]
           IN  IF later.rule # 0 THEN later ELSE here]
  IN  best[0][StartState]

(* Behind the text are the two end-of-buffer characters, but not where     *)
(* yy_get_previous_state goes over it again.                               *)
Match(t)      == Along(t, 2)
MatchAtEnd(t) == Along(t, 0)

-----------------------------------------------------------------------------
(***************************************************************************)
(* The next lexeme.  Where the match runs into the end of the buffer,      *)
(* yy_get_next_buffer moves what was matched to the front and reads on.    *)
(***************************************************************************)
Cur     == buffers[current]
Pending == SubSeq(Cur.ch, Cur.pos, Len(Cur.ch))

Running    == status \in {"ready", "scan"}
GoesOn     == status' = "scan"
Returns    == status' = "ready"
EofPending == Cur.status = "eof_pending"

(* The actions of yylex are for f, which yy_match found.                   *)
AtBufEnd(f) == f.rule = EndOfBufferAct
MustRead(f) == AtBufEnd(f) /\ Cur.fill /\ ~EofPending

(* yy_buf_size doubles while there is no room for a character.             *)
Grown == IF Cur.size - Len(Pending) - 1 = 0 THEN 2 * Cur.size ELSE Cur.size

(* YY_INPUT: from a terminal at most a line.                               *)
(* fault: the room of the end-of-buffer character is given away            *)
NumToRead_NoRoom == Min({Grown - Len(Pending), ReadMax})

NumToRead == Min({Grown - Len(Pending) - 1, ReadMax})
LineLen(t) == Min({j \in 1 .. Len(t) : t[j] = "\n"} \cup {Len(t)})
NumRead(f) ==
  IF ~MustRead(f) THEN 0
  ELSE Min({NumToRead, IF Cur.tty THEN LineLen(Cur.unread) ELSE Len(Cur.unread)})

(* The current buffer when all that was read is to be matched at once.     *)
AtFront ==
  IF ~Cur.fill THEN Cur
  ELSE [Cur EXCEPT !.ch = Pending, !.pos = 1, !.status = "eof_pending",
                   !.size = IF EofPending THEN @ ELSE Grown]

(* fault: what was matched is not moved to the front                       *)
Refill_Forgets(f) ==
  /\ MustRead(f) /\ yyin /\ NumRead(f) > 0
  /\ buffers' = [buffers EXCEPT ![current] =
       [Cur EXCEPT !.ch = SubSeq(Cur.unread, 1, NumRead(f)),
                   !.pos = 1,
                   !.size = Grown,
                   !.status = "normal",
                   !.unread = SubSeq(Cur.unread, NumRead(f) + 1, Len(Cur.unread))]]
  /\ GoesOn
  /\ UNCHANGED <<current, bs, yyin, include, start, back, history, broken>>

Refill(f) ==
  /\ MustRead(f) /\ yyin /\ NumRead(f) > 0
  /\ buffers' = [buffers EXCEPT ![current] =
       [Cur EXCEPT !.ch = Pending \o SubSeq(Cur.unread, 1, NumRead(f)),
                   !.pos = 1,
                   !.size = Grown,
                   !.status = "normal",
                   !.unread = SubSeq(Cur.unread, NumRead(f) + 1, Len(Cur.unread))]]
  /\ GoesOn
  /\ UNCHANGED <<current, bs, yyin, include, start, back, history, broken>>

(* YY_INPUT without a file.                                                *)
ReadNull(f) ==
  /\ MustRead(f) /\ ~yyin
  /\ status' = "wild"
  /\ UNCHANGED <<flex, include, start, back, history, broken>>

(* The matches to act on: f, or at the end of all the text the rule that   *)
(* takes what there is.                                                    *)
Ready(f) ==
  IF ~AtBufEnd(f) THEN {f}
  ELSE IF Pending # << >> /\ NumRead(f) = 0 /\ (MustRead(f) => yyin)
       THEN {MatchAtEnd(Pending)} ELSE {}

(* The actions of the rules are for f and for the match m to act on.       *)
Lexeme(m) == SubSeq(Pending, 1, m.len)
Taken(f, m) ==
  LET b == IF AtBufEnd(f) THEN AtFront ELSE Cur
  IN  [buffers EXCEPT ![current] = [b EXCEPT !.pos = @ + m.len]]

-----------------------------------------------------------------------------
(***************************************************************************)
(* The actions of the rules.                                               *)
(***************************************************************************)
Rule(f, m) ==
  /\ m.rule # 18
  /\ buffers' = Taken(f, m)
  /\ start' = After(m.rule, start, back).start
  /\ back' = After(m.rule, start, back).back
  /\ tokens' = IF m.rule \in Returning THEN Append(tokens, TokenOf(m.rule, Lexeme(m)))
               ELSE tokens
  /\ echoed' = IF m.rule = 28 THEN echoed \o Lexeme(m) ELSE echoed
  /\ IF m.rule \in Returning THEN Returns ELSE GoesOn
  /\ UNCHANGED <<current, bs, yyin, include, given, scans, broken>>

(* The file name of an include is rule 18.  The type of the token that is  *)
(* returned for an error is not set.                                       *)
Including(m) == m.rule = 18

TooManyIncludes(f, m) ==
  /\ Including(m) /\ include_stack_top >= MaxInclude
  /\ buffers' = Taken(f, m)
  /\ tokens' = Append(tokens, Sign("unset"))
  /\ broken' = (broken \/ scans > 1)
  /\ Returns
  /\ UNCHANGED <<current, bs, yyin, include, start, back, given, echoed, scans>>

(* After a scan that ended in INITIAL the index is negative.               *)
IncludeAstray(m) ==
  /\ Including(m) /\ include_stack_top < 0
  /\ status' = "wild"
  /\ broken' = (broken \/ scans > 1)
  /\ UNCHANGED <<flex, include, start, back, history>>

(* fault: the limit is tested too late                                     *)
Push_PastLimit(m) ==
  /\ Including(m) /\ include_stack_top \in 0 .. MaxInclude
  /\ include_stack' = [include_stack EXCEPT ![include_stack_top] = current]
  /\ include_stack_top' = include_stack_top + 1

Push(m) ==
  /\ Including(m) /\ include_stack_top \in 0 .. MaxInclude - 1
  /\ include_stack' = [include_stack EXCEPT ![include_stack_top] = current]
  /\ include_stack_top' = include_stack_top + 1

(* The number of a buffer that is made: of no buffer that is alive or      *)
(* still on the include stack.                                             *)
Fresh(alive) ==
  LET taken == alive \cup {include_stack[i] : i \in DOMAIN include_stack}
  IN  Min((1 .. Cardinality(taken) + 1) \ taken)

(* yy_create_buffer, yy_scan_string.                                       *)
FileBuffer(text, tty) ==
  [ch |-> << >>, pos |-> 1, size |-> BufSize, fill |-> TRUE, status |-> "new",
   tty |-> tty, file |-> TRUE, unread |-> text]
StringBuffer(text) ==
  [ch |-> text, pos |-> 1, size |-> Len(text), fill |-> FALSE, status |-> "new",
   tty |-> FALSE, file |-> FALSE, unread |-> << >>]

(* One buffer more.                                                        *)
With(bufs, id, new) ==
  [b \in DOMAIN bufs \cup {id} |-> IF b = id THEN new ELSE bufs[b]]

Include(f, m) ==
  /\ Push(m)
  /\ FileName(Lexeme(m)) \in DOMAIN Files
  /\ LET id == Fresh(DOMAIN buffers \cup {current})
     IN  /\ buffers' = With(Taken(f, m), id, FileBuffer(Files[FileName(Lexeme(m))], FALSE))
         /\ current' = id
  /\ yyin' = TRUE
  /\ start' = "INITIAL"
  /\ broken' = (broken \/ scans > 1)
  /\ GoesOn
  /\ UNCHANGED <<bs, back, history>>

(* The stack is pushed and yyin is lost, and the scan goes on all the same.*)
IncludeFails(f, m) ==
  /\ Push(m)
  /\ FileName(Lexeme(m)) \notin DOMAIN Files
  /\ yyin' = FALSE
  /\ buffers' = Taken(f, m)
  /\ tokens' = Append(tokens, Sign("unset"))
  /\ broken' = TRUE
  /\ Returns
  /\ UNCHANGED <<current, bs, start, back, given, echoed, scans>>

-----------------------------------------------------------------------------
(***************************************************************************)
(* The end of a text.                                                      *)
(***************************************************************************)
AtEof(f) ==
  /\ AtBufEnd(f) /\ Pending = << >> /\ NumRead(f) = 0
  /\ MustRead(f) => yyin

(* yyrestart, for a buffer that is filled.                                 *)
Restarted ==
  IF ~Cur.fill THEN Cur
  ELSE [Cur EXCEPT !.ch = << >>, !.pos = 1, !.status = "new", !.file = yyin,
                   !.size = IF EofPending THEN @ ELSE Grown]

Terminate ==
  /\ buffers' = [buffers EXCEPT ![current] = Restarted]
  /\ status' = "end"
  /\ UNCHANGED <<current, bs, yyin, include_stack, start, back, history, broken>>

(* fault: no yyterminate                                                   *)
EndOfOther_GoesOn(f) ==
  /\ AtEof(f) /\ start # "INITIAL"
  /\ buffers' = [buffers EXCEPT ![current] = Restarted]
  /\ GoesOn
  /\ UNCHANGED <<current, bs, yyin, include, start, back, history, broken>>

EndOfOther(f) ==
  /\ AtEof(f) /\ start # "INITIAL"
  /\ Terminate
  /\ UNCHANGED include_stack_top

EndOfInitial(f) ==
  /\ AtEof(f) /\ start = "INITIAL"
  /\ include_stack_top' = include_stack_top - 1
  /\ include_stack_top' < 0
  /\ Terminate

(* The current buffer is deleted before the one below it is taken up.      *)
Below == include_stack[include_stack_top - 1]
Left  == DOMAIN buffers \ {current}

(* fault: no yy_delete_buffer                                              *)
EndOfInclude_Keeps(f) ==
  /\ AtEof(f) /\ start = "INITIAL" /\ include_stack_top > 0
  /\ include_stack_top' = include_stack_top - 1
  /\ Below \in Left
  /\ current' = Below
  /\ yyin' = buffers[Below].file
  /\ start' = "MACRO"
  /\ GoesOn
  /\ UNCHANGED <<buffers, bs, include_stack, back, history, broken>>

EndOfInclude(f) ==
  /\ AtEof(f) /\ start = "INITIAL" /\ include_stack_top > 0
  /\ include_stack_top' = include_stack_top - 1
  /\ Below \in Left
  /\ buffers' = [b \in Left |-> buffers[b]]
  /\ current' = Below
  /\ yyin' = buffers[Below].file
  /\ start' = "MACRO"
  /\ GoesOn
  /\ UNCHANGED <<bs, include_stack, back, history, broken>>

BelowIsGone(f) ==
  /\ AtEof(f) /\ start = "INITIAL" /\ include_stack_top > 0
  /\ include_stack_top' = include_stack_top - 1
  /\ Below \notin Left
  /\ status' = "wild"
  /\ UNCHANGED <<flex, include_stack, start, back, history, broken>>

-----------------------------------------------------------------------------
(***************************************************************************)
(* A scan: a cmplv2 object, from its constructor to its destructor.  It    *)
(* may be dropped between any two calls of yylex; the destructor deletes   *)
(* the buffer of the string it was given and the current one, no other.    *)
(***************************************************************************)
BufferOf(input) ==
  IF input.from = "string" THEN StringBuffer(input.text)
  ELSE FileBuffer(input.text, input.from = "terminal")

Init ==
  /\ \E input \in Inputs :
       /\ buffers = [b \in {1} |-> BufferOf(input)]
       /\ given = input.text
       /\ bs = IF input.from = "string" THEN 1 ELSE 0
       /\ yyin = (input.from # "string")
  /\ current = 1
  /\ include_stack = [i \in 0 .. MaxInclude - 1 |-> 0]
  /\ include_stack_top = 0
  /\ start = "INITIAL"
  /\ back = << >>
  /\ tokens = << >>
  /\ echoed = << >>
  /\ status = "ready"
  /\ scans = 1
  /\ broken = FALSE

NextScan ==
  /\ status \in {"ready", "end"} /\ scans < MaxScans
  /\ bs \in DOMAIN buffers \cup {0}
  /\ LET left == DOMAIN buffers \ {bs, current}
         id   == Fresh(left)
     IN  \E input \in Later :
           /\ buffers' = With([b \in left |-> buffers[b]], id, BufferOf(input))
           /\ given' = input.text
           /\ bs' = IF input.from = "string" THEN id ELSE 0
           /\ yyin' = (input.from # "string")
           /\ current' = id
  /\ start' = "INITIAL"
  /\ back' = << >>
  /\ tokens' = << >>
  /\ echoed' = << >>
  /\ status' = "ready"
  /\ scans' = scans + 1
  /\ broken' = (broken \/ include_stack_top > 0)
  /\ UNCHANGED include

(* The buffer of the string was already deleted when a text ended.         *)
DeletedTwice ==
  /\ status \in {"ready", "end"}
  /\ bs \notin DOMAIN buffers \cup {0}
  /\ status' = "wild"
  /\ UNCHANGED <<flex, include, start, back, history, broken>>

yylex ==
  /\ Running
  /\ \E f \in {Match(Pending)} :
       \/ Refill(f) \/ ReadNull(f)
       \/ \E m \in Ready(f) :
            \/ Rule(f, m) \/ Include(f, m) \/ IncludeFails(f, m)
            \/ TooManyIncludes(f, m) \/ IncludeAstray(m)
       \/ EndOfOther(f) \/ EndOfInitial(f) \/ EndOfInclude(f) \/ BelowIsGone(f)

Next == yylex \/ NextScan \/ DeletedTwice

(* A call of yylex that has begun goes on.                                 *)
Spec == Init /\ [][Next]_vars /\ WF_vars(status = "scan" /\ yylex)

-----------------------------------------------------------------------------
(***************************************************************************)
(* What must hold.                                                         *)
(***************************************************************************)
Statuses == {"ready", "scan", "end", "wild"}

Buffer(b) ==
  /\ b.pos \in 1 .. Len(b.ch) + 1
  /\ b.size \in Nat
  /\ b.status \in {"new", "normal", "eof_pending"}
  /\ {b.fill, b.tty, b.file} \subseteq BOOLEAN

(* Types of the state of the scanner and of the process.                   *)
TypeOK ==
  /\ \A b \in DOMAIN buffers : b \in Nat \ {0} /\ Buffer(buffers[b])
  /\ {current, bs} \subseteq Nat
  /\ yyin \in BOOLEAN /\ broken \in BOOLEAN
  /\ DOMAIN include_stack = 0 .. MaxInclude - 1
  /\ include_stack_top \in Int /\ include_stack_top <= MaxInclude
  /\ start \in StartConditions
  /\ status \in Statuses
  /\ scans \in 1 .. MaxScans

(* What was read into a buffer, with the two end-of-buffer characters,     *)
(* stays within what was allocated for it, and the text still to be        *)
(* matched leaves room for a character more.                               *)
BuffersFit ==
  \A b \in DOMAIN buffers :
    buffers[b].fill => Len(buffers[b].ch) < buffers[b].size

(* In the first scan, until an include fails, the buffers that are alive   *)
(* are the current one and those on the include stack, and no buffer is    *)
(* there twice: each is deleted once, by the text that ends.               *)
Open == {include_stack[i] : i \in 0 .. include_stack_top - 1}

BuffersOwned ==
  scans = 1 /\ ~broken =>
    /\ DOMAIN buffers = Open \cup {current}
    /\ current \notin Open
    /\ \A i, j \in 0 .. include_stack_top - 1 :
         include_stack[i] = include_stack[j] => i = j

(* Every buffer that is deleted or taken up is one that was made and not   *)
(* deleted since, whatever the scans before were given.                    *)
BuffersLive == status # "wild"

(* A call of yylex comes back.                                             *)
CallsReturn == (status = "scan") ~> (status # "scan")

(* The text still to be scanned in a buffer.                               *)
Remains(b) == SubSeq(b.ch, b.pos, Len(b.ch)) \o b.unread

Texts == {i.text : i \in Inputs \cup Later}

(* The texts that are open, the innermost first, and what is left of them. *)
Depth     == Max({include_stack_top, 0}) + 1
OpenAt(i) == IF i = 1 THEN current ELSE include_stack[include_stack_top + 1 - i]
Sources   == IF broken THEN << >> ELSE [i \in 1 .. Depth |-> Remains(buffers[OpenAt(i)])]

Result == IF broken THEN "error" ELSE IF Running THEN "more" ELSE status

Lexer == INSTANCE ZhvmLexer WITH
  sources <- Sources,
  result  <- Result,
  first   <- scans = 1

(* The tables, the buffers and the include stack do what the rules and the *)
(* includes of cmplv2.lex say.                                             *)
LexerSpec == Lexer!Spec
=============================================================================
