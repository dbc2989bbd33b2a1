---------------------------- MODULE MCZhvmCmplv2 ----------------------------
(***************************************************************************)
(* Assembly texts of a few lines: commands of every shape, macros of every *)
(* kind, and lines that are neither.  Immediates have four bits, so that   *)
(* the offset 8 is the one that only just passes the range test.           *)
(***************************************************************************)
EXTENDS ZhvmCmplv2

Plain(type)  == [type |-> type, num |-> 0, reg |-> RZ, opr |-> ""]
Word2(w)     == [Plain("word") EXCEPT !.opr = w]
Register(r)  == [Plain("reg") EXCEPT !.reg = r]
Num(type, n) == [Plain(type) EXCEPT !.num = n]

Nothing == [kind |-> "other", opc |-> "", dst |-> RZ, s0 |-> RZ, s1 |-> RZ,
            imm |-> 0, label |-> NoLabel, width |-> 0]

Cmd(d, a, b, i, l) ==
  [Nothing EXCEPT !.kind = "cmd", !.opc = "add", !.dst = d, !.s0 = a, !.s1 = b,
                  !.imm = i, !.label = l]

Add    == Word2("add")
Bang   == Plain("macro")
Open1  == Plain("open")
Close1 == Plain("close")
Comma  == Plain("comma")
AtSign == Plain("at")
Minus  == Plain("minus")
Eq     == Plain("set")
A      == Register(1)
L      == Word2("l")

Line(text, means) == [text |-> text, means |-> means]

Commands == {
  Line(<< Add, Open1, Close1 >>, Cmd(0, 0, 0, 0, NoLabel)),
  Line(<< A, Eq, Add, Open1, A, Comma, A, Minus, Num("byte", 8), Close1 >>, Cmd(1, 1, 1, -8, NoLabel)),
  Line(<< Add, Open1, A, Comma, Num("short", 8), Close1 >>, Cmd(0, 1, 0, 8, NoLabel)),
  Line(<< Add, Open1, Comma, Num("byte", 9), Close1 >>, Cmd(0, 0, 0, 9, NoLabel)),
  Line(<< A, Eq, Add, Open1, Comma, AtSign, L, Close1 >>, Cmd(1, 0, 0, 0, "l")),
  Line(<< Add, Open1, A, Comma, A, AtSign, L, Close1 >>, Cmd(0, 1, 1, 0, "l")) }

Shapes == {
  Line(<< Add, Open1, A, Close1 >>, Cmd(0, 1, 0, 0, NoLabel)),
  Line(<< Add, Open1, A, Comma, Close1 >>, Cmd(0, 1, 0, 0, NoLabel)),
  Line(<< Add, Open1, A, Comma, A, Close1 >>, Cmd(0, 1, 1, 0, NoLabel)),
  Line(<< Add, Open1, A, Comma, A, Num("long", 2), Close1 >>, Cmd(0, 1, 1, 2, NoLabel)),
  Line(<< Add, Open1, Comma, Plain("plus"), Num("quad", 3), Close1 >>, Cmd(0, 0, 0, 3, NoLabel)) }

Macros == {
  Line(<< Bang, L >>, [Nothing EXCEPT !.kind = "label", !.label = "l"]),
  Line(<< Bang, Word2("code") >>, [Nothing EXCEPT !.kind = "code"]),
  Line(<< Bang, Word2("data") >>, [Nothing EXCEPT !.kind = "data"]),
  Line(<< Bang, Num("byte", -1) >>, [Nothing EXCEPT !.kind = "cell", !.width = 1, !.imm = -1]),
  Line(<< Bang, Num("quad", 300) >>, [Nothing EXCEPT !.kind = "cell", !.width = 8, !.imm = 300]),
  Line(<< Bang, A, Num("long", 7) >>, [Nothing EXCEPT !.kind = "set", !.dst = 1, !.imm = 7]),
  Line(<< Bang, A, L >>, [Nothing EXCEPT !.kind = "set", !.dst = 1, !.label = "l"]) }

(* Macros cut off, a word that is no opcode, tokens out of place, and a    *)
(* sign in front of a word, whose num the lexer has not set.               *)
Broken == {
  Line(<< Bang >>, Nothing),
  Line(<< Bang, A >>, Nothing),
  Line(<< Bang, Add >>, Nothing),
  Line(<< Plain("error") >>, Nothing),
  Line(<< A, Add >>, Nothing),
  Line(<< Add, Open1, Comma, Minus, L, Close1 >>, Nothing) }

MCLines == Commands \cup Shapes \cup Macros \cup Broken

MCStarts == {<< 0, 0 >>, << 8, 1 >>}

(* Macros that are wrong or cut off, and a command.                        *)
WrongMacros ==
  {l \in Broken : l.text[1] = Bang} \cup {Line(<< Add, Open1, Close1 >>, Cmd(0, 0, 0, 0, NoLabel))}
=============================================================================
