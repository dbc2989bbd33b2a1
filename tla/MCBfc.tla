------------------------------- MODULE MCBfc --------------------------------
(***************************************************************************)
(* Texts for Bfc: every one of up to three characters, loops around two    *)
(* characters, loops in and behind loops, and a text that does not fit.    *)
(***************************************************************************)
EXTENDS Bfc

MCReg    == {RZ, RA, RB, RC, RP}
MCInputs == {1, -2, 5}

Chars(s) == [i \in 1 .. Len(s) |-> SubSeq(s, i, i)]

Alphabet == Commands \cup {"x"}
Short == UNION {[1 .. n -> Alphabet] : n \in 0 .. 3}

Around == {Chars("+[") \o << c, d >> \o Chars("]") : c, d \in Alphabet}
Nested ==
  {Chars(s) : s \in {"[[-]>]+", "+[>[+]<-]", "++[>+[-<]]", "+[>-[-]<[-]].", "[+>,.<]",
                     "[>][<]+", "[[]", "[]]", "+[-[+]x[x-]]", "+++++.", "+[.+]"}}
Large == {Chars("........")}

MCTexts == Short \cup Around \cup Nested \cup Large

MCSegments == {[a \in DataAddr |-> 0], [a \in DataAddr |-> (a + 9) % Base]}
=============================================================================
