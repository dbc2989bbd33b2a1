---------------------------- MODULE MCZhvmScanner ----------------------------
(***************************************************************************)
(* Texts for ZhvmScanner: two characters of any class behind a beginning   *)
(* that leads to each start condition, and texts of lines whose tokens are *)
(* written down here by hand.                                              *)
(***************************************************************************)
EXTENDS ZhvmScanner, SequencesExt

Chars(s) == [i \in 1 .. Len(s) |-> SubSeq(s, i, i)]

(* A line, its tokens, and the file it includes or "".                     *)
Line(text, toks, file) == [text |-> Chars(text), toks |-> toks, file |-> file]

Word1(s) == Token("word", Chars(s), 0)
Reg1(s)  == Token("reg", Chars(s), 0)

AddLine   == Line("$p=add[$8, -09]\n",
  << Reg1("p"), Sign("set"), Word1("add"), Sign("open"), Reg1("8"), Sign("comma"),
     Sign("minus"), ErrorAt("9"), Sign("close") >>, "")
DataLine  == Line("!0x12l # l\n", << Sign("macro"), Token("long", << >>, 18) >>, "")
RegLine   == Line("!$S 017q\n",
  << Sign("macro"), Reg1("S"), Token("quad", << >>, 15) >>, "")
HugeLine  == Line("99999999999S+@b\n",
  << Token("short", << >>, 2147483647), Sign("plus"), Sign("at"), Word1("b") >>, "")
IncludeLine(name) == Line("!include \t" \o name \o "\n", << Sign("macro") >>, name)

(* Files: one that includes another, one that includes itself, ones that   *)
(* end in a comment, a macro and a register.                               *)
FileLines(name) ==
  CASE name = "f" -> << DataLine, AddLine >>
    [] name = "g" -> << IncludeLine("f"), RegLine >>
    [] name = "s" -> << RegLine, IncludeLine("s") >>
    [] name = "c" -> << Line("ad\n#s", << Word1("ad") >>, "") >>
    [] name = "e" -> << Line("x$", << Word1("x") >>, "") >>
    [] name = "o" -> << >>

Names == {"f", "g", "s", "c", "e", "o"}

TextOf(lines) == FlattenSeq([i \in DOMAIN lines |-> lines[i].text])

MCFiles == [n \in {Chars(m) : m \in Names} |-> TextOf(FileLines(n[1]))]

MCLines ==
  {AddLine, HugeLine} \cup {IncludeLine(n) : n \in Names \cup {"q"}}
LineTexts == {<< l >> : l \in MCLines} \cup (MCLines \X MCLines)

(* A character of every class, and NUL.                                    *)
Classes == {";", " ", "\n", "!", "#", "$", "-", ",", "0", "1", "9", "=", "@",
            "z", "k", "L", "S", "[", "]", "c", "d", "e", "i", "l", "n", "u", "x", NUL}
Beginnings == {"", "!", "#", "$", "!include ", "0x"}
CharTexts == {Chars(b) \o << c, d >> : b \in Beginnings, c \in Classes, d \in Classes}

Input(from, text) == [from |-> from, text |-> text]

MCInputs ==
  {Input("file", t) : t \in CharTexts} \cup
  {Input(from, TextOf(l)) : from \in {"file", "terminal", "string"}, l \in LineTexts}

MCLater ==
  {Input(from, TextOf(<< l >>)) : from \in {"file", "string"}, l \in {AddLine, IncludeLine("g")}}

(* Texts as Assemble gets them; the file can be opened.                    *)
MCIncludes == {Input("file", TextOf(<< l >>)) : l \in {AddLine, IncludeLine("f")}}

(* Texts of whole lines whose includes can be opened and end in INITIAL.   *)
Plain == {l \in MCLines : l.file \in {"", "f", "g", "o"}}

RECURSIVE TokensOf(_)
TokensOf(lines) ==
  FlattenSeq([i \in DOMAIN lines |->
    lines[i].toks \o IF lines[i].file = "" THEN << >> ELSE TokensOf(FileLines(lines[i].file))])

Written == {[text |-> TextOf(l), tokens |-> TokensOf(l)] :
              l \in {k \in LineTexts : \A i \in DOMAIN k : k[i] \in Plain}}

(* A text of such lines gives the tokens of its lines, each include those  *)
(* of the file in its place, whatever the input is read from.              *)
TokensAsWritten ==
  scans = 1 /\ status = "end" /\ ~broken =>
    \A w \in Written : w.text = given => tokens = w.tokens
=============================================================================
