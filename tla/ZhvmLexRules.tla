---------------------------- MODULE ZhvmLexRules ----------------------------
(***************************************************************************)
(* The rules of cmplv2.lex: which text each of the 28 rules matches, which *)
(* rule wins, and the token its action returns.  Texts are sequences of    *)
(* one-character strings; NUL stands for the character 0.  A rule is named *)
(* by its number, which is its order in the file; 28 is the default rule,  *)
(* which flex adds to every start condition and which echoes a character.  *)
(***************************************************************************)
EXTENDS Integers, Sequences, FiniteSetsExt

CONSTANT WordMarks   \* characters of WORD besides letters and digits

StartConditions == {"INITIAL", "REGISTER", "COMMENT", "MACRO", "INCLUDE"}

NUL   == "NUL"
Digits == << "0", "1", "2", "3", "4", "5", "6", "7", "8", "9" >>
Digit  == {Digits[i] : i \in 1 .. 10}
Octal  == Digit \ {"8", "9"}
Space == {" ", "\t"}
Lower == {"a", "b", "c", "d", "e", "f", "g", "h", "i", "j", "k", "l", "m",
          "n", "o", "p", "q", "r", "s", "t", "u", "v", "w", "x", "y", "z"}
Upper == {"A", "B", "C", "D", "E", "F", "G", "H", "I", "J", "K", "L", "M",
          "N", "O", "P", "Q", "R", "S", "T", "U", "V", "W", "X", "Y", "Z"}
Alpha == Lower \cup Upper

RegChar == Octal \cup {"8"} \cup
  {"a", "b", "c", "z", "s", "d", "p", "A", "B", "C", "Z", "S", "D", "P"}

-----------------------------------------------------------------------------
(***************************************************************************)
(* Lengths of matches at the head of a text; 0 is no match.                *)
(***************************************************************************)
(* The characters of t from i on that are in set.                          *)
Run(t, i, set) ==
  Min({j \in i .. Len(t) : t[j] \notin set} \cup {Len(t) + 1}) - i

One(t, set) == IF Run(t, 1, set) > 0 THEN 1 ELSE 0

WordLen(t) ==
  IF One(t, Alpha \cup WordMarks) = 0 THEN 0
  ELSE Run(t, 1, Alpha \cup WordMarks \cup Digit)

(* (0x)*[0-9]+[slqSLQ]*: as many 0x as there are; without digits behind    *)
(* them the 0 of the last one is the number.                               *)
NumberLen(t) ==
  LET pairs == Max({n \in 0 .. Len(t) \div 2 :
                      \A i \in 1 .. n : t[2*i - 1] = "0" /\ t[2*i] = "x"})
      digits == Run(t, 2*pairs + 1, Digit)
      whole  == 2*pairs + digits
  IN  IF digits > 0
      THEN whole + Run(t, whole + 1, {"s", "l", "q", "S", "L", "Q"})
      ELSE IF pairs > 0 THEN 2*pairs - 1 ELSE 0

Keyword == << "i", "n", "c", "l", "u", "d", "e" >>
KeywordLen(t) == IF Len(t) >= 7 /\ SubSeq(t, 1, 7) = Keyword THEN 7 ELSE 0

NotNewline(t, i) == Min({j \in i .. Len(t) : t[j] = "\n"} \cup {Len(t) + 1}) - i
FileNameLen(t) ==
  Min({j \in 1 .. Len(t) : t[j] \in Space \cup {"\n"}} \cup {Len(t) + 1}) - 1

(* The rules of a start condition with what each matches.                  *)
Rules(start) ==
  CASE start = "INITIAL"  -> 1 .. 14
    [] start = "REGISTER" -> {15, 16}
    [] start = "INCLUDE"  -> {17, 18}
    [] start = "MACRO"    -> 19 .. 25
    [] start = "COMMENT"  -> {26, 27}

MatchLen(r, t) ==
  CASE r \in {1, 25}  -> One(t, {"#"})
    [] r = 2          -> One(t, {"!"})
    [] r \in {3, 21}  -> WordLen(t)
    [] r = 4          -> One(t, {"@"})
    [] r = 5          -> One(t, {"="})
    [] r = 6          -> One(t, {"["})
    [] r = 7          -> One(t, {"]"})
    [] r = 8          -> One(t, {"+", "-"})
    [] r \in {9, 23}  -> NumberLen(t)
    [] r \in {10, 17, 22} -> Run(t, 1, Space)
    [] r \in {11, 20} -> One(t, {"$"})
    [] r = 12         -> One(t, {","})
    [] r \in {13, 24, 26} -> One(t, {"\n"})
    [] r \in {14, 16} -> IF NotNewline(t, 1) > 0 THEN 1 ELSE 0
    [] r = 15         -> One(t, RegChar)
    [] r = 18         -> FileNameLen(t)
    [] r = 19         -> KeywordLen(t)
    [] r = 27         -> NotNewline(t, 1)
    [] r = 28         -> IF t = << >> THEN 0 ELSE 1

(* The longest match wins, and of the longest the rule that comes first.   *)
Matched(start, t) ==
  LET all == Rules(start) \cup {28}
      len == Max({MatchLen(r, t) : r \in all})
  IN  [rule |-> Min({r \in all : MatchLen(r, t) = len}), len |-> len]

-----------------------------------------------------------------------------
(***************************************************************************)
(* Tokens.                                                                 *)
(***************************************************************************)
LongMax == 2147483647     \* long has 32 bits in a 32-bit build
Value   == [c \in Digit |-> CHOOSE n \in 0 .. 9 : Digits[n + 1] = c]

(* fault: base 10 instead of 0                                             *)
StrTol_Ten(x) ==
  LET count == Run(x, 1, Digit)
      upTo[n \in 0 .. count] ==
        IF n = 0 THEN 0
        ELSE LET v == Value[x[n]]
             IN  IF upTo[n - 1] > (LongMax - v) \div 10 THEN LongMax
                 ELSE 10 * upTo[n - 1] + v
  IN  [num |-> upTo[count],
       end |-> IF count + 1 > Len(x) THEN "" ELSE x[count + 1]]

(* strtol with base 0 takes 0x for hexadecimal and 0 for octal, stops at   *)
(* the first character that is no digit and keeps to the range of long.    *)
StrTol(x) ==
  LET hex    == Len(x) > 2 /\ x[1] = "0" /\ x[2] = "x" /\ x[3] \in Digit
      octal  == ~hex /\ x[1] = "0"
      base   == IF hex THEN 16 ELSE IF octal THEN 8 ELSE 10
      first  == IF hex THEN 3 ELSE 1
      count  == Run(x, first, IF octal THEN Octal ELSE Digit)
      upTo[n \in 0 .. count] ==
        IF n = 0 THEN 0
        ELSE LET v == Value[x[first + n - 1]]
             IN  IF upTo[n - 1] > (LongMax - v) \div base THEN LongMax
                 ELSE base * upTo[n - 1] + v
  IN  [num |-> upTo[count],
       end |-> IF first + count > Len(x) THEN "" ELSE x[first + count]]

Token(type, text, num) == [type |-> type, text |-> text, num |-> num]
Sign(type)   == Token(type, << >>, 0)
ErrorAt(c)   == Token("error", << c >>, 0)

NumberToken(x) ==
  LET v == StrTol(x)
  IN  CASE v.end = ""           -> Token("byte", << >>, v.num)
        [] v.end \in {"s", "S"} -> Token("short", << >>, v.num)
        [] v.end \in {"l", "L"} -> Token("long", << >>, v.num)
        [] v.end \in {"q", "Q"} -> Token("quad", << >>, v.num)
        [] OTHER                -> ErrorAt(v.end)

(* The rules whose action returns a token, and the token for the lexeme.   *)
Returning == {2, 3, 4, 5, 6, 7, 8, 9, 12, 14, 15, 16, 21, 23}

TokenOf(r, x) ==
  CASE r = 2         -> Sign("macro")
    [] r \in {3, 21} -> Token("word", x, 0)
    [] r = 4         -> Sign("at")
    [] r = 5         -> Sign("set")
    [] r = 6         -> Sign("open")
    [] r = 7         -> Sign("close")
    [] r = 8         -> Sign(IF x[1] = "+" THEN "plus" ELSE "minus")
    [] r \in {9, 23} -> NumberToken(x)
    [] r = 12        -> Sign("comma")
    [] r = 15        -> Token("reg", x, 0)
    [] r \in {14, 16} -> ErrorAt(x[1])

(* What the action does to the start condition and to its stack.           *)
After(r, start, back) ==
  CASE r \in {1, 25}      -> [start |-> "COMMENT", back |-> back]
    [] r = 2              -> [start |-> "MACRO", back |-> back]
    [] r \in {11, 20}     -> [start |-> "REGISTER", back |-> << start >> \o back]
    [] r \in {15, 16}     -> [start |-> Head(back), back |-> Tail(back)]
    [] r = 19             -> [start |-> "INCLUDE", back |-> back]
    [] r \in {24, 26}     -> [start |-> "INITIAL", back |-> back]
    [] OTHER              -> [start |-> start, back |-> back]

(* fopen takes a file name up to its first NUL.                            *)
FileName(x) == SubSeq(x, 1, Min({j \in 1 .. Len(x) : x[j] = NUL} \cup {Len(x) + 1}) - 1)
=============================================================================
