------------------------------ MODULE ZhvmLexer ------------------------------
(***************************************************************************)
(* What cmplv2.lex promises of one scan after another: a text is cut into  *)
(* lexemes by the rules, an included file is read in place of the line     *)
(* that names it, and the end of the outermost text ends the scan.  There  *)
(* are no buffers here, no tables and no include stack but the texts that  *)
(* are open; ZhvmScanner, the scanner that flex makes of the file, is      *)
(* shown to implement this.                                                *)
(***************************************************************************)
EXTENDS ZhvmLexRules

CONSTANTS
  Texts,       \* the texts a scan may be asked for
  Files,       \* the files that can be opened: a function from name to text
  MaxInclude   \* ZHVM_MAX_INCLUDE

VARIABLES
  sources,   \* what is left of the texts that are open, the innermost first
  start,     \* the start condition
  back,      \* the stack of start conditions
  tokens,    \* the tokens returned so far
  echoed,    \* the characters written to standard output
  result,    \* "more", "end", or "error": nothing is promised any more
  first      \* is it the first scan of the process

vars == <<sources, start, back, tokens, echoed, result, first>>

(* A scan begins with one text.                                            *)
Single == {<< text >> : text \in Texts}

Init ==
  /\ sources \in Single
  /\ start = "INITIAL"
  /\ back = << >>
  /\ tokens = << >>
  /\ echoed = << >>
  /\ result = "more"
  /\ first = TRUE

Scanning == result = "more"
Text     == Head(sources)

(* The actions below are for a match m: a rule and the length of its text. *)
Lexeme(m) == SubSeq(Text, 1, m.len)
Rest(m)   == << SubSeq(Text, m.len + 1, Len(Text)) >> \o Tail(sources)

Rule(m) ==
  /\ m.rule # 18
  /\ sources' = Rest(m)
  /\ start' = After(m.rule, start, back).start
  /\ back' = After(m.rule, start, back).back
  /\ tokens' = IF m.rule \in Returning
               THEN Append(tokens, TokenOf(m.rule, Lexeme(m))) ELSE tokens
  /\ echoed' = IF m.rule = 28 THEN echoed \o Lexeme(m) ELSE echoed
  /\ UNCHANGED <<result, first>>

Include(m) ==
  /\ m.rule = 18 /\ first
  /\ Len(sources) <= MaxInclude
  /\ FileName(Lexeme(m)) \in DOMAIN Files
  /\ sources' = << Files[FileName(Lexeme(m))] >> \o Rest(m)
  /\ start' = "INITIAL"
  /\ UNCHANGED <<back, tokens, echoed, result, first>>

(* The file name is passed over and the token, whose type is not set, is   *)
(* said to be an error.                                                    *)
TooManyIncludes(m) ==
  /\ m.rule = 18 /\ first
  /\ Len(sources) > MaxInclude
  /\ sources' = Rest(m)
  /\ tokens' = Append(tokens, Sign("unset"))
  /\ UNCHANGED <<start, back, echoed, result, first>>

(* Nothing is promised behind an include of a file that cannot be opened,  *)
(* and behind any include of a scan that is not the first.                 *)
IncludeFails(m) ==
  /\ m.rule = 18
  /\ \/ ~first
     \/ Len(sources) <= MaxInclude /\ FileName(Lexeme(m)) \notin DOMAIN Files
  /\ result' = "error"
  /\ UNCHANGED first

(* The line behind an include is still a macro line.                       *)
EndOfFile ==
  /\ Scanning /\ Text = << >> /\ start = "INITIAL" /\ Len(sources) > 1
  /\ sources' = Tail(sources)
  /\ start' = "MACRO"
  /\ UNCHANGED <<back, tokens, echoed, result, first>>

(* Outside INITIAL the end of any text ends the scan.                      *)
End ==
  /\ Scanning /\ Text = << >>
  /\ start # "INITIAL" \/ Len(sources) = 1
  /\ result' = "end"
  /\ UNCHANGED <<sources, start, back, tokens, echoed, first>>

(* The caller may drop a scan at any time and begin another.  One dropped  *)
(* in an included file spoils those behind it.                             *)
NextScan ==
  /\ result # "error" /\ Len(sources) = 1
  /\ sources' \in Single
  /\ start' = "INITIAL"
  /\ back' = << >>
  /\ tokens' = << >>
  /\ echoed' = << >>
  /\ result' = "more"
  /\ first' = FALSE

NextScanSpoilt ==
  /\ result # "error" /\ Len(sources) > 1
  /\ result' = "error"
  /\ first' = FALSE

Unspecified == result = "error" /\ result' = "error"

Lex ==
  /\ Scanning /\ Text # << >>
  /\ \E m \in {Matched(start, Text)} :
       Rule(m) \/ Include(m) \/ TooManyIncludes(m) \/ IncludeFails(m)

Next ==
  \/ Lex \/ EndOfFile \/ End
  \/ NextScan \/ NextScanSpoilt \/ Unspecified

Spec == Init /\ [][Next]_vars
=============================================================================
