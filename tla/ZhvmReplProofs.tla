-------------------------- MODULE ZhvmReplProofs ---------------------------
(***************************************************************************)
(* First Load and Dump as functions on streams: Load undoes Dump, and      *)
(* accepts no proper prefix of a dump, for machines of every size and      *)
(* whatever the header held behind its four words.  Then the prompt: what  *)
(* ~load accepts is the machine of the last ~dump that opened the file,    *)
(* through every interleaving of the prompt with ~dumps that cannot open   *)
(* it, failing writes, kills and restarts.                                 *)
(***************************************************************************)
EXTENDS ZhvmRepl, SequenceTheorems, WellFoundedInduction, TLAPS

-----------------------------------------------------------------------------
(***************************************************************************)
(* Dump and Load.                                                          *)
(***************************************************************************)
(* A sequence of n cells, whatever the cells are.                          *)
HasLength(s, n) == \E S : s \in Seq(S) /\ Len(s) = n

Shaped(m) ==
  /\ m = [csize |-> m.csize, dsize |-> m.dsize, cdata |-> m.cdata,
          ddata |-> m.ddata, regs |-> m.regs, sflag |-> m.sflag, funcs |-> m.funcs]
  /\ m.csize \in Nat
  /\ m.dsize \in Nat
  /\ HasLength(m.cdata, m.csize)
  /\ HasLength(m.ddata, m.dsize)
  /\ HasLength(m.regs, NRegs)

(* Where the hash of a dump of m stands.                                   *)
DumpLength(m) == HeaderLen + m.csize + m.dsize + NRegs + 2

(* Two sequences with the same length and the same cells are the same.     *)
LEMMA SameCells ==
  ASSUME NEW S, NEW T, NEW s \in Seq(S), NEW t \in Seq(T),
         Len(s) = Len(t), \A i \in 1 .. Len(s) : s[i] = t[i]
  PROVE  s = t
<1>1. s \in Seq(S \cup T) /\ t \in Seq(S \cup T)
  BY SeqMonotonic
<1> QED
  BY <1>1, SeqEqual

(* A part of a sequence, cell by cell.                                     *)
LEMMA PartCells ==
  ASSUME NEW S, NEW f \in Seq(S), NEW k \in Nat, NEW n \in Nat, k + n <= Len(f)
  PROVE  /\ Part(f, k, n) \in Seq(S)
         /\ Len(Part(f, k, n)) = n
         /\ \A i \in 1 .. n : Part(f, k, n)[i] = f[k + i]
<1>1. \A i \in k + 1 .. k + n : f[i] \in S
  BY ElementOfSeq, LenProperties
<1>2. /\ SubSeq(f, k + 1, k + n) \in Seq(S)
      /\ Len(SubSeq(f, k + 1, k + n)) = IF k + 1 <= k + n THEN k + n - (k + 1) + 1 ELSE 0
      /\ \A i \in 1 .. k + n - (k + 1) + 1 :
           SubSeq(f, k + 1, k + n)[i] = f[k + 1 + i - 1]
  BY <1>1, SubSeqProperties
<1>3. k + n - (k + 1) + 1 = n
  OBVIOUS
<1>4. \A i \in 1 .. n : k + 1 + i - 1 = k + i
  OBVIOUS
<1> QED
  BY <1>2, <1>3, <1>4 DEF Part

(* f has the n cells of v behind its first k.                              *)
Holds(f, k, n, v) == \A i \in 1 .. n : f[k + i] = v[i]

(* Then that part of f is v.                                               *)
LEMMA PartIs ==
  ASSUME NEW S, NEW f \in Seq(S), NEW k \in Nat, NEW n \in Nat, k + n <= Len(f),
         NEW v, HasLength(v, n), Holds(f, k, n, v)
  PROVE  Part(f, k, n) = v
<1>1. PICK T : v \in Seq(T) /\ Len(v) = n
  BY DEF HasLength
<1>2. /\ Part(f, k, n) \in Seq(S)
      /\ Len(Part(f, k, n)) = n
      /\ \A i \in 1 .. n : Part(f, k, n)[i] = f[k + i]
  BY PartCells
<1>3. \A i \in 1 .. n : Part(f, k, n)[i] = v[i]
  BY <1>2 DEF Holds
<1> QED
  BY <1>1, <1>2, <1>3, SameCells

(* u is s with t behind it, cell by cell.                                  *)
Joined(S, s, t, u) ==
  /\ u \in Seq(S)
  /\ Len(u) = Len(s) + Len(t)
  /\ \A i \in 1 .. Len(s) : u[i] = s[i]
  /\ \A i \in 1 .. Len(t) : u[Len(s) + i] = t[i]

(* Concatenation joins.                                                    *)
LEMMA ConcatJoins ==
  ASSUME NEW S, NEW s \in Seq(S), NEW t \in Seq(S)
  PROVE  Joined(S, s, t, s \o t)
<1>1. /\ s \o t \in Seq(S)
      /\ Len(s \o t) = Len(s) + Len(t)
      /\ \A i \in 1 .. Len(s) + Len(t) :
           (s \o t)[i] = IF i <= Len(s) THEN s[i] ELSE t[i - Len(s)]
  BY ConcatProperties
<1>2. Len(s) \in Nat /\ Len(t) \in Nat
  BY LenProperties
<1>3. ASSUME NEW i \in 1 .. Len(s) PROVE (s \o t)[i] = s[i]
  BY <1>1, <1>2
<1>4. ASSUME NEW i \in 1 .. Len(t) PROVE (s \o t)[Len(s) + i] = t[i]
  <2>1. /\ Len(s) + i \in 1 .. Len(s) + Len(t)
        /\ ~(Len(s) + i <= Len(s))
        /\ Len(s) + i - Len(s) = i
    BY <1>2
  <2> QED
    BY <1>1, <2>1
<1> QED
  BY <1>1, <1>3, <1>4 DEF Joined

(* The cells of a dump.                                                    *)
LEMMA DumpCells ==
  ASSUME NEW m, Shaped(m), NEW junk \in Cells(HeaderExtra)
  PROVE  \E S :
           LET D == Dumped(m, junk)
               s == Header(m, junk) \o Body(m)
           IN /\ s \in Seq(S)
              /\ Len(s) = DumpLength(m) - 1
              /\ D \in Seq(S)
              /\ Len(D) = DumpLength(m)
              /\ \A i \in 1 .. DumpLength(m) - 1 : D[i] = s[i]
              /\ D[DumpLength(m)] = Sdbm(s)
              /\ D[1] = Magic /\ D[2] = Version /\ D[3] = m.csize /\ D[4] = m.dsize
              /\ \A i \in 1 .. m.csize : D[HeaderLen + i] = m.cdata[i]
              /\ \A i \in 1 .. m.dsize : D[HeaderLen + m.csize + i] = m.ddata[i]
              /\ \A i \in 1 .. NRegs :
                   D[HeaderLen + m.csize + m.dsize + i] = m.regs[i]
              /\ D[HeaderLen + m.csize + m.dsize + NRegs + 1] = m.sflag
<1> DEFINE s == Header(m, junk) \o Body(m)
           D == Dumped(m, junk)
           h == << Magic, Version, m.csize, m.dsize >>
<1>1. PICK A : m.cdata \in Seq(A) /\ Len(m.cdata) = m.csize
  BY DEF Shaped, HasLength
<1>2. PICK B : m.ddata \in Seq(B) /\ Len(m.ddata) = m.dsize
  BY DEF Shaped, HasLength
<1>3. PICK C : m.regs \in Seq(C) /\ Len(m.regs) = NRegs
  BY DEF Shaped, HasLength
<1> DEFINE S == A \cup B \cup C \cup Cell \cup Nat \cup {m.sflag, Sdbm(s)}
<1>n. m.csize \in Nat /\ m.dsize \in Nat /\ NRegs \in Nat /\ HeaderExtra \in Nat
      /\ Magic \in Nat /\ Version \in Nat
  BY CellAssumption DEF Shaped
<1>4. m.cdata \in Seq(S) /\ m.ddata \in Seq(S) /\ m.regs \in Seq(S)
  BY <1>1, <1>2, <1>3, SeqMonotonic
<1>5. junk \in Seq(S) /\ Len(junk) = HeaderExtra
  <2>1. junk \in Seq(Cell) /\ Len(junk) = HeaderExtra
    BY <1>n DEF Cells
  <2> QED
    BY <2>1, SeqMonotonic
<1>6. h \in Seq(S) /\ Len(h) = 4 /\ h[1] = Magic /\ h[2] = Version
      /\ h[3] = m.csize /\ h[4] = m.dsize
  <2>1. h \in Seq(Nat)
    BY <1>n
  <2> QED
    BY <2>1, SeqMonotonic
<1>7. << m.sflag >> \in Seq(S) /\ Len(<< m.sflag >>) = 1 /\ << m.sflag >>[1] = m.sflag
  <2>1. << m.sflag >> \in Seq({m.sflag})
    OBVIOUS
  <2> QED
    BY <2>1, SeqMonotonic
<1> HIDE DEF S, h
<1> DEFINE H == h \o junk
           B1 == m.cdata \o m.ddata
           B2 == B1 \o m.regs
           B3 == B2 \o << m.sflag >>
<1>8. /\ H \in Seq(S) /\ Len(H) = HeaderLen
      /\ H[1] = Magic /\ H[2] = Version /\ H[3] = m.csize /\ H[4] = m.dsize
  <2>1. Joined(S, h, junk, H)
    BY <1>5, <1>6, ConcatJoins
  <2> HIDE DEF H
  <2>2. H \in Seq(S) /\ Len(H) = HeaderLen
    BY <2>1, <1>5, <1>6 DEF Joined, HeaderLen
  <2>3. \A i \in 1 .. 4 : H[i] = h[i]
    BY <2>1, <1>6 DEF Joined
  <2> QED
    BY <2>2, <2>3, <1>6
<1>9. /\ B1 \in Seq(S) /\ Len(B1) = m.csize + m.dsize
      /\ \A i \in 1 .. m.csize : B1[i] = m.cdata[i]
      /\ \A i \in 1 .. m.dsize : B1[m.csize + i] = m.ddata[i]
  <2>1. Joined(S, m.cdata, m.ddata, B1)
    BY <1>4, ConcatJoins
  <2> HIDE DEF B1
  <2> QED
    BY <2>1, <1>1, <1>2 DEF Joined
<1> HIDE DEF B1
<1>10. /\ B2 \in Seq(S) /\ Len(B2) = m.csize + m.dsize + NRegs
       /\ \A i \in 1 .. m.csize + m.dsize : B2[i] = B1[i]
       /\ \A i \in 1 .. NRegs : B2[m.csize + m.dsize + i] = m.regs[i]
  <2>1. Joined(S, B1, m.regs, B2)
    BY <1>4, <1>9, ConcatJoins
  <2> HIDE DEF B2
  <2> QED
    BY <2>1, <1>3, <1>9 DEF Joined
<1> HIDE DEF B2
<1>11. /\ B3 \in Seq(S) /\ Len(B3) = m.csize + m.dsize + NRegs + 1
       /\ \A i \in 1 .. m.csize + m.dsize + NRegs : B3[i] = B2[i]
       /\ B3[m.csize + m.dsize + NRegs + 1] = m.sflag
  <2>1. Joined(S, B2, << m.sflag >>, B3)
    BY <1>7, <1>10, ConcatJoins
  <2> HIDE DEF B3
  <2>2. /\ B3 \in Seq(S) /\ Len(B3) = m.csize + m.dsize + NRegs + 1
        /\ \A i \in 1 .. m.csize + m.dsize + NRegs : B3[i] = B2[i]
        /\ \A i \in 1 .. 1 : B3[m.csize + m.dsize + NRegs + i] = << m.sflag >>[i]
    BY <2>1, <1>7, <1>10 DEF Joined
  <2> QED
    BY <2>2, <1>7
<1>12. s = H \o B3
  BY DEF Header, Body, h, B1, B2
<1>13. /\ s \in Seq(S) /\ Len(s) = HeaderLen + (m.csize + m.dsize + NRegs + 1)
       /\ \A i \in 1 .. HeaderLen : s[i] = H[i]
       /\ \A i \in 1 .. m.csize + m.dsize + NRegs + 1 : s[HeaderLen + i] = B3[i]
  <2> HIDE DEF H, B3, s
  <2>1. Joined(S, H, B3, s)
    BY <1>8, <1>11, <1>12, ConcatJoins
  <2> QED
    BY <2>1, <1>8, <1>11 DEF Joined
<1> HIDE DEF H, B3
<1>14. Sdbm(s) \in S
  BY DEF S
<1>15. /\ D \in Seq(S)
       /\ Len(D) = Len(s) + 1
       /\ \A i \in 1 .. Len(s) : D[i] = s[i]
       /\ D[Len(s) + 1] = Sdbm(s)
  <2>1. D = Append(s, Sdbm(s))
    BY DEF Dumped
  <2> HIDE DEF s, D
  <2> QED
    BY <2>1, <1>13, <1>14, AppendProperties
<1> HIDE DEF s, D
<1>16. HeaderLen \in Nat /\ HeaderLen >= 4
  BY <1>n DEF HeaderLen
<1>17. D[1] = Magic /\ D[2] = Version /\ D[3] = m.csize /\ D[4] = m.dsize
  <2> DEFINE x == m.csize + m.dsize + NRegs + 1
  <2>0. Len(s) = HeaderLen + x /\ x \in Nat
    BY <1>13, <1>n
  <2> HIDE DEF x
  <2>1. \A i \in 1 .. HeaderLen : i \in 1 .. Len(s)
    BY <2>0, <1>16
  <2>2. \A i \in 1 .. HeaderLen : D[i] = H[i]
    BY <1>13, <1>15, <2>1
  <2> QED
    BY <1>8, <2>2, <1>16
<1>18. \A i \in 1 .. m.csize + m.dsize + NRegs + 1 : D[HeaderLen + i] = B3[i]
  <2>1. \A i \in 1 .. m.csize + m.dsize + NRegs + 1 : HeaderLen + i \in 1 .. Len(s)
    BY <1>13, <1>16, <1>n
  <2> QED
    BY <1>13, <1>15, <2>1
<1>19. \A i \in 1 .. m.csize : D[HeaderLen + i] = m.cdata[i]
  <2> SUFFICES ASSUME NEW i \in 1 .. m.csize
               PROVE  D[HeaderLen + i] = m.cdata[i]
    OBVIOUS
  <2>1. /\ i \in 1 .. m.csize + m.dsize
        /\ i \in 1 .. m.csize + m.dsize + NRegs
        /\ i \in 1 .. m.csize + m.dsize + NRegs + 1
    BY <1>n
  <2> QED
    BY <2>1, <1>9, <1>10, <1>11, <1>18
<1>20. \A i \in 1 .. m.dsize : D[HeaderLen + m.csize + i] = m.ddata[i]
  <2> SUFFICES ASSUME NEW i \in 1 .. m.dsize
               PROVE  D[HeaderLen + m.csize + i] = m.ddata[i]
    OBVIOUS
  <2>1. /\ m.csize + i \in 1 .. m.csize + m.dsize
        /\ m.csize + i \in 1 .. m.csize + m.dsize + NRegs
        /\ m.csize + i \in 1 .. m.csize + m.dsize + NRegs + 1
    BY <1>n
  <2>2. D[HeaderLen + (m.csize + i)] = m.ddata[i]
    BY <2>1, <1>9, <1>10, <1>11, <1>18
  <2>3. HeaderLen + (m.csize + i) = HeaderLen + m.csize + i
    BY <1>n, <1>16
  <2> QED
    BY <2>2, <2>3
<1>21. \A i \in 1 .. NRegs : D[HeaderLen + m.csize + m.dsize + i] = m.regs[i]
  <2> SUFFICES ASSUME NEW i \in 1 .. NRegs
               PROVE  D[HeaderLen + m.csize + m.dsize + i] = m.regs[i]
    OBVIOUS
  <2>1. /\ m.csize + m.dsize + i \in 1 .. m.csize + m.dsize + NRegs
        /\ m.csize + m.dsize + i \in 1 .. m.csize + m.dsize + NRegs + 1
    BY <1>n
  <2>2. D[HeaderLen + (m.csize + m.dsize + i)] = m.regs[i]
    BY <2>1, <1>10, <1>11, <1>18
  <2>3. HeaderLen + (m.csize + m.dsize + i) = HeaderLen + m.csize + m.dsize + i
    BY <1>n, <1>16
  <2> QED
    BY <2>2, <2>3
<1>22. D[HeaderLen + m.csize + m.dsize + NRegs + 1] = m.sflag
  <2>1. m.csize + m.dsize + NRegs + 1 \in 1 .. m.csize + m.dsize + NRegs + 1
    BY <1>n
  <2>2. HeaderLen + (m.csize + m.dsize + NRegs + 1)
          = HeaderLen + m.csize + m.dsize + NRegs + 1
    BY <1>n, <1>16
  <2> QED
    BY <2>1, <2>2, <1>11, <1>18
<1>23. Len(s) = DumpLength(m) - 1 /\ Len(D) = DumpLength(m) /\ Len(s) + 1 = DumpLength(m)
  <2> DEFINE y == HeaderLen + m.csize + m.dsize + NRegs
  <2>1. Len(s) = HeaderLen + (m.csize + m.dsize + NRegs + 1) /\ Len(D) = Len(s) + 1
    BY <1>13, <1>15
  <2>2. HeaderLen + (m.csize + m.dsize + NRegs + 1) = y + 1 /\ y \in Nat
    BY <1>n, <1>16
  <2>3. DumpLength(m) = y + 2
    BY DEF DumpLength
  <2> HIDE DEF y
  <2> QED
    BY <2>1, <2>2, <2>3
<1> QED
  BY <1>13, <1>15, <1>17, <1>19, <1>20, <1>21, <1>22, <1>23 DEF s, D

-----------------------------------------------------------------------------
(* The offsets of a dump's parts lie in it, in order.                      *)
LEMMA Offsets ==
  ASSUME NEW h \in Nat, NEW c \in Nat, NEW d \in Nat, NEW n \in Nat
  PROVE  /\ h + c \in Nat /\ h + c + d \in Nat /\ h + c + d + n + 2 \in Nat
         /\ h + c <= h + c + d + n + 2
         /\ h + c + d <= h + c + d + n + 2
         /\ h + c + d + n <= h + c + d + n + 2
OBVIOUS

(* Load undoes Dump: what Dump wrote is accepted, and gives back the       *)
(* machine, whatever its sizes and whatever the header held behind its     *)
(* four words; only the callbacks do not come back.                        *)
THEOREM RoundTrip ==
  ASSUME NEW m, Shaped(m), NEW junk \in Cells(HeaderExtra)
  PROVE  /\ Loadable(Dumped(m, junk))
         /\ Loaded(Dumped(m, junk)) = [m EXCEPT !.funcs = NoFuncs]
<1> DEFINE D == Dumped(m, junk)
           s == Header(m, junk) \o Body(m)
<1>1. PICK S :
        /\ s \in Seq(S)
        /\ Len(s) = DumpLength(m) - 1
        /\ D \in Seq(S)
        /\ Len(D) = DumpLength(m)
        /\ \A i \in 1 .. DumpLength(m) - 1 : D[i] = s[i]
        /\ D[DumpLength(m)] = Sdbm(s)
        /\ D[1] = Magic /\ D[2] = Version /\ D[3] = m.csize /\ D[4] = m.dsize
        /\ \A i \in 1 .. m.csize : D[HeaderLen + i] = m.cdata[i]
        /\ \A i \in 1 .. m.dsize : D[HeaderLen + m.csize + i] = m.ddata[i]
        /\ \A i \in 1 .. NRegs : D[HeaderLen + m.csize + m.dsize + i] = m.regs[i]
        /\ D[HeaderLen + m.csize + m.dsize + NRegs + 1] = m.sflag
  BY DumpCells
<1> HIDE DEF D, s
<1>n. /\ m.csize \in Nat /\ m.dsize \in Nat /\ NRegs \in Nat
      /\ HeaderLen \in Nat /\ HeaderLen >= 4
  <2>1. m.csize \in Nat /\ m.dsize \in Nat
    BY DEF Shaped
  <2>2. NRegs \in Nat /\ HeaderExtra \in Nat
    BY CellAssumption
  <2>3. HeaderLen \in Nat /\ HeaderLen >= 4
    BY <2>2 DEF HeaderLen
  <2> QED
    BY <2>1, <2>2, <2>3
<1>2. HashAt(D) = DumpLength(m) /\ DumpLength(m) \in Nat /\ DumpLength(m) - 1 \in Nat
  BY <1>1, <1>n DEF HashAt, DumpLength
<1>l. D \in Seq(S) /\ Len(D) = DumpLength(m)
  BY <1>1
<1>3. SubSeq(D, 1, HashAt(D) - 1) = s
  <2>1. 0 \in Nat /\ 0 + (DumpLength(m) - 1) <= Len(D)
    BY <1>1, <1>2
  <2>2. HasLength(s, DumpLength(m) - 1) /\ Holds(D, 0, DumpLength(m) - 1, s)
    BY <1>1, <1>2 DEF HasLength, Holds
  <2>3. Part(D, 0, DumpLength(m) - 1) = s
    BY <1>1, <1>2, <2>1, <2>2, PartIs
  <2>4. Part(D, 0, DumpLength(m) - 1) = SubSeq(D, 1, HashAt(D) - 1)
    BY <1>2 DEF Part
  <2> QED
    BY <2>3, <2>4
<1>4. Loadable(D)
  <2>1. Len(D) >= HeaderLen /\ Len(D) >= HashAt(D)
    BY <1>1, <1>2, <1>n, SMTT(30) DEF DumpLength
  <2> QED
    BY <2>1, <1>1, <1>2, <1>3 DEF Loadable
<1>5. Part(D, HeaderLen, m.csize) = m.cdata
  <2>1. HeaderLen \in Nat /\ HeaderLen + m.csize <= Len(D)
    BY <1>l, <1>n, Offsets DEF DumpLength
  <2>2. HasLength(m.cdata, m.csize) /\ Holds(D, HeaderLen, m.csize, m.cdata)
    BY <1>1 DEF Shaped, Holds
  <2> QED
    BY <1>l, <1>n, <2>1, <2>2, PartIs
<1>6. Part(D, HeaderLen + m.csize, m.dsize) = m.ddata
  <2> DEFINE k == HeaderLen + m.csize
  <2>1. k \in Nat /\ k + m.dsize <= Len(D)
    BY <1>l, <1>n, Offsets DEF DumpLength
  <2>2. HasLength(m.ddata, m.dsize) /\ Holds(D, k, m.dsize, m.ddata)
    BY <1>1 DEF Shaped, Holds
  <2> HIDE DEF k
  <2>3. Part(D, k, m.dsize) = m.ddata
    BY <1>l, <1>n, <2>1, <2>2, PartIs
  <2> QED
    BY <2>3 DEF k
<1>7. Part(D, HeaderLen + m.csize + m.dsize, NRegs) = m.regs
  <2> DEFINE k == HeaderLen + m.csize + m.dsize
  <2>1. k \in Nat /\ k + NRegs <= Len(D)
    BY <1>l, <1>n, Offsets DEF DumpLength
  <2>2. HasLength(m.regs, NRegs) /\ Holds(D, k, NRegs, m.regs)
    BY <1>1 DEF Shaped, Holds
  <2> HIDE DEF k
  <2>3. Part(D, k, NRegs) = m.regs
    BY <1>l, <1>n, <2>1, <2>2, PartIs
  <2> QED
    BY <2>3 DEF k
<1>8. Loaded(D) = [csize |-> m.csize, dsize |-> m.dsize, cdata |-> m.cdata,
                   ddata |-> m.ddata, regs |-> m.regs, sflag |-> m.sflag,
                   funcs |-> NoFuncs]
  BY <1>1, <1>5, <1>6, <1>7 DEF Loaded
<1>9. [m EXCEPT !.funcs = NoFuncs]
        = [csize |-> m.csize, dsize |-> m.dsize, cdata |-> m.cdata,
           ddata |-> m.ddata, regs |-> m.regs, sflag |-> m.sflag, funcs |-> NoFuncs]
  BY DEF Shaped
<1> QED
  BY <1>4, <1>8, <1>9 DEF D

(* No proper prefix of a dump is accepted.                                 *)
THEOREM PrefixRefused ==
  ASSUME NEW m, Shaped(m), NEW junk \in Cells(HeaderExtra),
         NEW k \in Nat, k < Len(Dumped(m, junk))
  PROVE  ~Loadable(SubSeq(Dumped(m, junk), 1, k))
<1> DEFINE D == Dumped(m, junk)
           p == SubSeq(D, 1, k)
<1>1. PICK S : D \in Seq(S) /\ Len(D) = DumpLength(m) /\ D[3] = m.csize /\ D[4] = m.dsize
  BY DumpCells
<1> HIDE DEF D
<1>n. /\ m.csize \in Nat /\ m.dsize \in Nat /\ NRegs \in Nat
      /\ HeaderLen \in Nat /\ HeaderLen >= 4
  <2>1. m.csize \in Nat /\ m.dsize \in Nat
    BY DEF Shaped
  <2>2. NRegs \in Nat /\ HeaderExtra \in Nat
    BY CellAssumption
  <2>3. HeaderLen \in Nat /\ HeaderLen >= 4
    BY <2>2 DEF HeaderLen
  <2> QED
    BY <2>1, <2>2, <2>3
<1>2. Len(p) = k /\ \A i \in 1 .. k : p[i] = D[i]
  <2>1. 0 \in Nat /\ 1 <= k + 1 /\ 0 + k <= Len(D)
    BY <1>1, <1>n DEF DumpLength, D
  <2>2. \A i \in 1 .. k : D[i] \in S
    BY <1>1, <2>1, ElementOfSeq
  <2>3. Len(p) = (IF 1 <= k THEN k - 1 + 1 ELSE 0) /\ \A i \in 1 .. k - 1 + 1 : p[i] = D[1 + i - 1]
    BY <2>2, SubSeqProperties
  <2> HIDE DEF p
  <2> QED
    BY <2>3
<1> HIDE DEF p
<1>3. SUFFICES ASSUME Loadable(p) PROVE FALSE
  BY DEF p, D
<1>4. k >= HeaderLen /\ k >= HashAt(p)
  BY <1>2, <1>3 DEF Loadable
<1>5. p[3] = m.csize /\ p[4] = m.dsize
  BY <1>1, <1>2, <1>4, <1>n
<1>6. HashAt(p) = DumpLength(m)
  BY <1>5 DEF HashAt, DumpLength
<1>7. k < DumpLength(m)
  BY <1>1 DEF D
<1>8. DumpLength(m) \in Nat
  BY <1>n, Offsets DEF DumpLength
<1> QED
  BY <1>4, <1>6, <1>7, <1>8

-----------------------------------------------------------------------------
(* Induction, for a set of numbers.                                        *)
LEMMA AllNumbers ==
  ASSUME NEW E, 0 \in E, \A k \in Nat : k \in E => k + 1 \in E
  PROVE  \A n \in Nat : n \in E
<1> SUFFICES ASSUME Nat \ E # {} PROVE FALSE
  OBVIOUS
<1>1. PICK x \in Nat \ E : \A y \in Nat \ E : ~(<<y, x>> \in OpToRel(<, Nat))
  <2>1. IsWellFoundedOn(OpToRel(<, Nat), Nat)
    BY NatLessThanWellFounded
  <2>2. Nat \ E \in SUBSET Nat
    OBVIOUS
  <2> QED
    BY <2>1, <2>2, WFMin
<1>2. x # 0 /\ x \in Nat
  OBVIOUS
<1>3. x - 1 \in Nat /\ (x - 1) + 1 = x /\ x - 1 < x
  BY <1>2
<1>4. x - 1 \notin E
  BY <1>1, <1>3
<1>5. <<x - 1, x>> \in OpToRel(<, Nat)
  BY <1>2, <1>3 DEF OpToRel
<1> QED
  BY <1>1, <1>3, <1>4, <1>5, Zenon

-----------------------------------------------------------------------------
(***************************************************************************)
(* The hash.                                                               *)
(***************************************************************************)
(* The hashes of the first n cells of s, in f.                             *)
Hashes(s, n, f) ==
  /\ DOMAIN f = 0 .. n
  /\ f[0] = 0
  /\ \A i \in 1 .. n : f[i] = Hashed(f[i - 1], s[i])

LEMMA HashesExist ==
  ASSUME NEW s, NEW n \in Nat
  PROVE  \E f : Hashes(s, n, f)
<1> DEFINE E == {k \in Nat : \E f : Hashes(s, k, f)}
<1>1. 0 \in E
  <2>1. Hashes(s, 0, [i \in 0 .. 0 |-> 0])
    BY DEF Hashes
  <2> QED
    BY <2>1
<1>2. ASSUME NEW k \in Nat, k \in E PROVE k + 1 \in E
  <2>1. PICK f : Hashes(s, k, f)
    BY <1>2
  <2> DEFINE g == [i \in 0 .. k + 1 |-> IF i = k + 1 THEN Hashed(f[k], s[k + 1]) ELSE f[i]]
  <2>2. Hashes(s, k + 1, g)
    BY <2>1 DEF Hashes
  <2> QED
    BY <2>2
<1> HIDE DEF E
<1>3. n \in E
  BY <1>1, <1>2, AllNumbers
<1> QED
  BY <1>3 DEF E

LEMMA SdbmIs ==
  ASSUME NEW S, NEW s \in Seq(S)
  PROVE  \E f : Hashes(s, Len(s), f) /\ Sdbm(s) = f[Len(s)]
<1> DEFINE n == Len(s)
           step(f) == [i \in 0 .. n |-> IF i = 0 THEN 0 ELSE Hashed(f[i - 1], s[i])]
           hash == CHOOSE f : f = step(f)
<1>1. n \in Nat
  OBVIOUS
<1>2. PICK f : Hashes(s, n, f)
  BY <1>1, HashesExist
<1> DEFINE e == [i \in 0 .. n |-> f[i]]
<1>3. e = step(e)
  <2> HIDE DEF n
  <2>1. \A i \in 0 .. n : e[i] = IF i = 0 THEN 0 ELSE Hashed(e[i - 1], s[i])
    BY <1>1, <1>2 DEF Hashes
  <2> QED
    BY <2>1
<1>4. Sdbm(s) = hash[n]
  BY DEF Sdbm
<1>5. hash = step(hash)
  <2> HIDE DEF e
  <2> QED
    BY <1>3
<1> HIDE DEF hash, n
<1>6. Hashes(s, n, hash)
  <2>1. DOMAIN hash = 0 .. n /\ \A i \in 0 .. n :
          hash[i] = IF i = 0 THEN 0 ELSE Hashed(hash[i - 1], s[i])
    <3> DEFINE h == hash
    <3>1. h = step(h)
      BY <1>5
    <3>2. \A g : g = step(h) => DOMAIN g = 0 .. n /\ \A i \in 0 .. n :
             g[i] = IF i = 0 THEN 0 ELSE Hashed(h[i - 1], s[i])
      OBVIOUS
    <3> HIDE DEF h, step
    <3>3. DOMAIN h = 0 .. n /\ \A i \in 0 .. n :
             h[i] = IF i = 0 THEN 0 ELSE Hashed(h[i - 1], s[i])
      BY <3>1, <3>2, Zenon
    <3> QED
      BY <3>3 DEF h
  <2> HIDE DEF step
  <2> QED
    BY <1>1, <2>1 DEF Hashes
<1> QED
  BY <1>4, <1>6 DEF n

LEMMA CellBelow == Cell \subseteq 0 .. HashMod - 1
BY HashAssumption

LEMMA HashRange ==
  ASSUME NEW h \in Int, NEW c \in Int
  PROVE  Hashed(h, c) \in 0 .. HashMod - 1
BY CellAssumption DEF Hashed

LEMMA Undone ==
  ASSUME NEW m \in Int, NEW k \in Int, NEW v \in Int, NEW x \in Int, NEW t \in Int, NEW q \in Int,
         k * x = t * m, k * v - 1 = q * m
  PROVE  x = (v * t - q * x) * m
<1>1. k * v = 1 + q * m /\ q * m \in Int
  OBVIOUS
<1>2. v * (k * x) = (k * v) * x
  OBVIOUS
<1>3. (1 + q * m) * x = x + (q * x) * m
  OBVIOUS
<1>4. v * (t * m) = (v * t) * m
  OBVIOUS
<1>5. (v * t - q * x) * m = (v * t) * m - (q * x) * m
  OBVIOUS
<1> DEFINE y == (q * x) * m
           z == (v * t) * m
<1>6. y \in Int /\ z \in Int
  OBVIOUS
<1>7. v * (k * x) = v * (t * m)
  OBVIOUS
<1>8. (k * v) * x = (1 + q * m) * x
  BY <1>1
<1>9. x + y = z
  BY <1>2, <1>3, <1>4, <1>7, <1>8, Zenon
<1> HIDE DEF y, z
<1>10. x = z - y
  BY <1>6, <1>9
<1> QED
  BY <1>5, <1>10 DEF y, z

(* The factor can be divided by: equal hashes of equal cells come from     *)
(* equal hashes.                                                           *)
LEMMA HashedApart ==
  ASSUME NEW g \in 0 .. HashMod - 1, NEW h \in 0 .. HashMod - 1, NEW c \in Int,
         Hashed(g, c) = Hashed(h, c)
  PROVE  g = h
<1> DEFINE m == HashMod
           x == g - h
<1>1. m \in Nat \ {0}
  BY CellAssumption
<1>2. PICK v \in 0 .. m - 1 : (65599 * v) % m = 1 % m
  BY HashAssumption
<1> HIDE DEF m
<1>m. \A a, b \in Int : a % m = b % m => \E t \in Int : a - b = t * m
  <2> SUFFICES ASSUME NEW a \in Int, NEW b \in Int, a % m = b % m
               PROVE  \E t \in Int : a - b = t * m
    OBVIOUS
  <2>1. a = m * (a \div m) + (a % m) /\ b = m * (b \div m) + (b % m)
        /\ a \div m \in Int /\ b \div m \in Int
    BY <1>1
  <2> DEFINE p == a \div m
             q == b \div m
  <2>2. p \in Int /\ q \in Int /\ a - b = m * p - m * q
    BY <1>1, <2>1
  <2> HIDE DEF p, q
  <2>3. m * p - m * q = (p - q) * m
    BY <1>1, <2>2
  <2>4. a - b = (p - q) * m /\ p - q \in Int
    BY <2>2, <2>3
  <2> QED
    BY <2>4
<1>3. g \in Int /\ h \in Int /\ v \in Int /\ x \in Int /\ -m < x /\ x < m
  BY <1>1 DEF m
<1> HIDE DEF x
<1>4. PICK t \in Int : 65599 * x = t * m
  <2>1. (c + 65599 * g) % m = (c + 65599 * h) % m
    BY DEF Hashed, m
  <2>2. c + 65599 * g \in Int /\ c + 65599 * h \in Int
        /\ (c + 65599 * g) - (c + 65599 * h) = 65599 * x
    BY <1>3 DEF x
  <2> QED
    BY <1>m, <2>1, <2>2
<1>5. PICK q \in Int : 65599 * v - 1 = q * m
  <2>1. 65599 * v \in Int /\ 1 \in Int
    BY <1>3
  <2> QED
    BY <1>2, <1>m, <2>1
<1>6. x = (v * t - q * x) * m
  <2>1. m \in Int /\ 65599 \in Int
    BY <1>1
  <2> QED
    BY <1>3, <1>4, <1>5, <2>1, Undone
<1>7. x = 0
  <2> DEFINE k == v * t - q * x
  <2>1. k \in Int /\ x = k * m
    BY <1>3, <1>6
  <2> HIDE DEF k
  <2>2. k >= 1 => k * m >= m
    BY <1>1, <2>1
  <2>3. k <= -1 => k * m <= -m
    BY <1>1, <2>1
  <2>4. k = 0
    BY <1>1, <1>3, <2>1, <2>2, <2>3
  <2> QED
    BY <1>1, <2>1, <2>4
<1> QED
  BY <1>3, <1>7 DEF x

(* Different cells keep equal hashes apart.                                *)
LEMMA CellsApart ==
  ASSUME NEW h \in Int, NEW a \in 0 .. HashMod - 1, NEW b \in 0 .. HashMod - 1,
         Hashed(h, a) = Hashed(h, b)
  PROVE  a = b
<1> DEFINE m == HashMod
           y == 65599 * h
<1>1. m \in Nat \ {0} /\ y \in Int
  BY CellAssumption
<1>2. (a + y) % m = (b + y) % m
  BY DEF Hashed
<1> HIDE DEF m, y
<1> DEFINE p == (a + y) \div m
           q == (b + y) \div m
<1>3. p \in Int /\ q \in Int /\ a - b = m * p - m * q
  <2>1. a + y = m * p + ((a + y) % m) /\ b + y = m * q + ((b + y) % m)
        /\ p \in Int /\ q \in Int
    BY <1>1 DEF m
  <2> QED
    BY <1>1, <1>2, <2>1 DEF m
<1> HIDE DEF p, q
<1>4. m * p - m * q = m * (p - q)
  BY <1>1, <1>3
<1> DEFINE k == p - q
<1>5. k \in Int /\ a - b = m * k /\ -m < a - b /\ a - b < m /\ a \in Int /\ b \in Int
  BY <1>1, <1>3, <1>4 DEF m
<1> HIDE DEF k
<1>6. k >= 1 => m * k >= m
  BY <1>1, <1>5
<1>7. k <= -1 => m * k <= -m
  BY <1>1, <1>5
<1>8. k = 0
  BY <1>1, <1>5, <1>6, <1>7
<1> QED
  BY <1>1, <1>5, <1>8

(* One changed cell changes the hash, whatever surrounds it.               *)
LEMMA OneCellHash ==
  ASSUME NEW s \in Seq(Nat), NEW t \in Seq(Nat), Len(s) = Len(t), NEW j \in 1 .. Len(s),
         \A i \in 1 .. Len(s) : i # j => s[i] = t[i],
         s[j] \in 0 .. HashMod - 1, t[j] \in 0 .. HashMod - 1, s[j] # t[j]
  PROVE  Sdbm(s) # Sdbm(t)
<1> DEFINE n == Len(s)
<1>1. n \in Nat /\ j \in Nat /\ 1 <= j /\ j <= n
  OBVIOUS
<1>2. PICK f : Hashes(s, n, f) /\ Sdbm(s) = f[n]
  BY SdbmIs
<1>3. PICK g : Hashes(t, n, g) /\ Sdbm(t) = g[n]
  BY SdbmIs
<1>c. \A i \in 1 .. n : s[i] \in Nat /\ t[i] \in Nat
  BY SMTT(30)
<1>s. \A i \in 1 .. n : i # j => s[i] = t[i]
  OBVIOUS
<1> HIDE DEF n
<1>m. HashMod \in Nat \ {0}
  BY CellAssumption
<1>4. \A i \in 0 .. n : f[i] \in 0 .. HashMod - 1 /\ g[i] \in 0 .. HashMod - 1
  <2> DEFINE E == {k \in Nat : k <= n => f[k] \in 0 .. HashMod - 1 /\ g[k] \in 0 .. HashMod - 1}
  <2>1. 0 \in E
    BY <1>2, <1>3, <1>m DEF Hashes
  <2>2. ASSUME NEW k \in Nat, k \in E PROVE k + 1 \in E
    <3> SUFFICES ASSUME k + 1 <= n
                 PROVE  f[k + 1] \in 0 .. HashMod - 1 /\ g[k + 1] \in 0 .. HashMod - 1
      OBVIOUS
    <3>1. f[k] \in Int /\ g[k] \in Int /\ k + 1 \in 1 .. n /\ (k + 1) - 1 = k
      BY <1>1, <2>2
    <3>2. f[k + 1] = Hashed(f[(k + 1) - 1], s[k + 1]) /\ g[k + 1] = Hashed(g[(k + 1) - 1], t[k + 1])
      BY <1>2, <1>3, <3>1 DEF Hashes
    <3>3. s[k + 1] \in Int /\ t[k + 1] \in Int
      BY <1>c, <3>1, SMTT(30)
    <3> QED
      BY <3>1, <3>2, <3>3, HashRange
  <2> HIDE DEF E
  <2>3. \A k \in Nat : k \in E
    BY <2>1, <2>2, AllNumbers
  <2> QED
    BY <1>1, <2>3 DEF E
<1>5. \A i \in 0 .. n : i < j => f[i] = g[i]
  <2> DEFINE E == {k \in Nat : k < j => f[k] = g[k]}
  <2>1. 0 \in E
    BY <1>2, <1>3 DEF Hashes
  <2>2. ASSUME NEW k \in Nat, k \in E PROVE k + 1 \in E
    <3> SUFFICES ASSUME k + 1 < j PROVE f[k + 1] = g[k + 1]
      OBVIOUS
    <3>1. f[k] = g[k] /\ k + 1 \in 1 .. n /\ (k + 1) - 1 = k /\ k + 1 # j
      BY <1>1, <2>2
    <3>2. f[k + 1] = Hashed(f[(k + 1) - 1], s[k + 1]) /\ g[k + 1] = Hashed(g[(k + 1) - 1], t[k + 1])
      BY <1>2, <1>3, <3>1 DEF Hashes
    <3>3. s[k + 1] = t[k + 1]
      BY <1>s, <3>1
    <3> QED
      BY <3>1, <3>2, <3>3
  <2> HIDE DEF E
  <2>3. \A k \in Nat : k \in E
    BY <2>1, <2>2, AllNumbers
  <2> QED
    BY <1>1, <2>3 DEF E
<1>6. f[j] # g[j]
  <2>1. f[j - 1] = g[j - 1] /\ f[j - 1] \in Int /\ j - 1 \in 0 .. n /\ j \in 1 .. n
    BY <1>1, <1>4, <1>5, <1>m
  <2>2. f[j] = Hashed(f[j - 1], s[j]) /\ g[j] = Hashed(g[j - 1], t[j])
    BY <1>2, <1>3, <2>1 DEF Hashes
  <2> QED
    BY <2>1, <2>2, CellsApart
<1>7. \A i \in 0 .. n : i >= j => f[i] # g[i]
  <2> DEFINE E == {k \in Nat : k >= j /\ k <= n => f[k] # g[k]}
  <2>1. 0 \in E
    BY <1>1
  <2>2. ASSUME NEW k \in Nat, k \in E PROVE k + 1 \in E
    <3> SUFFICES ASSUME k + 1 >= j, k + 1 <= n PROVE f[k + 1] # g[k + 1]
      OBVIOUS
    <3>1. CASE k + 1 = j
      BY <1>6, <3>1
    <3>2. CASE k >= j
      <4>0. k + 1 \in 1 .. n /\ (k + 1) - 1 = k /\ k + 1 # j /\ k \in 0 .. n /\ k <= n
        BY <1>1, <2>2, <3>2
      <4>1. f[k] # g[k] /\ k + 1 \in 1 .. n /\ (k + 1) - 1 = k /\ k + 1 # j /\ k \in 0 .. n
        BY <2>2, <3>2, <4>0, Zenon
      <4>2. f[k + 1] = Hashed(f[(k + 1) - 1], s[k + 1]) /\ g[k + 1] = Hashed(g[(k + 1) - 1], t[k + 1])
        BY <1>2, <1>3, <4>1 DEF Hashes
      <4>3. s[k + 1] = t[k + 1] /\ s[k + 1] \in Int
        BY <1>c, <1>s, <4>1, SMTT(30)
      <4>4. f[k] \in 0 .. HashMod - 1 /\ g[k] \in 0 .. HashMod - 1
        BY <1>4, <4>1
      <4>5. f[k + 1] = Hashed(f[k], s[k + 1]) /\ g[k + 1] = Hashed(g[k], s[k + 1])
        BY <4>1, <4>2, <4>3
      <4> QED
        BY <4>1, <4>3, <4>4, <4>5, HashedApart
    <3> QED
      BY <1>1, <3>1, <3>2
  <2> HIDE DEF E
  <2>3. \A k \in Nat : k \in E
    BY <2>1, <2>2, AllNumbers
  <2> QED
    BY <1>1, <2>3 DEF E
<1>8. f[n] # g[n]
  BY <1>1, <1>7
<1> QED
  BY <1>2, <1>3, <1>8

-----------------------------------------------------------------------------
(***************************************************************************)
(* The prompt.                                                             *)
(***************************************************************************)
(* A stream whose size words, when it has them, are numbers.               *)
Sized(f) == \E S : f \in Seq(S) /\ (Len(f) >= 4 => f[3] \in Nat /\ f[4] \in Nat)

(* f is what had been written of a dump of m when it was cut off.          *)
CutDump(f, m) ==
  \E junk \in Cells(HeaderExtra) :
    \E k \in 0 .. Len(Dumped(m, junk)) : f = SubSeq(Dumped(m, junk), 1, k)

(* f and p are what has been written, and what is left, of a dump of m.    *)
Split(f, p, m) ==
  \E junk \in Cells(HeaderExtra) :
    \E k \in 0 .. Len(Dumped(m, junk)) :
      /\ f = SubSeq(Dumped(m, junk), 1, k)
      /\ p = SubSeq(Dumped(m, junk), k + 1, Len(Dumped(m, junk)))

ReplInv ==
  /\ Shaped(mem)
  /\ Shaped(saved)
  /\ file # NoFile => Sized(file)
  /\ file # NoFile /\ harm = "none" => CutDump(file, saved)
  /\ phase = "dump" => harm = "none" /\ Split(file, pending, saved)

-----------------------------------------------------------------------------
(***************************************************************************)
(* Machines.                                                               *)
(***************************************************************************)
LEMMA CellsLength ==
  ASSUME NEW n \in Nat, NEW v \in Cells(n)
  PROVE  HasLength(v, n)
<1>1. v \in Seq(Cell) /\ Len(v) = n
  BY DEF Cells
<1> QED
  BY <1>1 DEF HasLength

LEMMA ShapedRecord ==
  ASSUME NEW c \in Nat, NEW d \in Nat, NEW cd, NEW dd, NEW rg, NEW fl, NEW fu,
         HasLength(cd, c), HasLength(dd, d), HasLength(rg, NRegs)
  PROVE  Shaped([csize |-> c, dsize |-> d, cdata |-> cd, ddata |-> dd,
                 regs |-> rg, sflag |-> fl, funcs |-> fu])
BY DEF Shaped

(* New segments and zeroed registers have the length they should.          *)
LEMMA FreshShaped ==
  ASSUME NEW m \in Fresh
  PROVE  Shaped(m)
<1>1. PICK u \in NewMachine(Size, Size) : m = Install(u)
  BY DEF Fresh
<1>2. PICK code \in Cells(Size), data \in Cells(Size) :
        u = [csize |-> Size, dsize |-> Size, cdata |-> code, ddata |-> data,
             regs |-> [i \in 1 .. NRegs |-> 0], sflag |-> 0, funcs |-> NoFuncs]
  BY <1>1 DEF NewMachine
<1> DEFINE fu == [k \in Slots |->
              CASE k = 0 -> "put" [] k = 1 -> "get" [] k = 2 -> "putc" [] k = 3 -> "getc"
                [] OTHER -> u.funcs[k]]
           rg == [i \in 1 .. NRegs |-> 0]
<1>3. m = [u EXCEPT !.funcs = fu]
  BY <1>1 DEF Install
<1> HIDE DEF fu
<1>4. m = [csize |-> Size, dsize |-> Size, cdata |-> code, ddata |-> data,
           regs |-> rg, sflag |-> 0, funcs |-> fu]
  BY <1>2, <1>3
<1>5. Size \in Nat /\ NRegs \in Nat
  BY SizeAssumption, CellAssumption
<1>6. rg \in Cells(NRegs)
  BY CellAssumption DEF Cells
<1>7. HasLength(code, Size) /\ HasLength(data, Size) /\ HasLength(rg, NRegs)
  BY <1>5, <1>6, CellsLength
<1> HIDE DEF rg
<1> QED
  BY <1>4, <1>5, <1>7, ShapedRecord

(* The machine an assembled line, and running code, leave, field by field.  *)
Fielded(m) ==
  m = [csize |-> m.csize, dsize |-> m.dsize, cdata |-> m.cdata,
       ddata |-> m.ddata, regs |-> m.regs, sflag |-> m.sflag, funcs |-> m.funcs]

LEMMA CompiledIs ==
  ASSUME NEW m, Fielded(m), NEW c, NEW d, NEW r, NEW s
  PROVE  Compiled(m, c, d, r, s) =
           [csize |-> m.csize, dsize |-> m.dsize, cdata |-> c,
            ddata |-> d, regs |-> r, sflag |-> s, funcs |-> m.funcs]
<1> DEFINE m1 == [m EXCEPT !.cdata = c]
           m2 == [m1 EXCEPT !.ddata = d]
           m3 == [m2 EXCEPT !.regs = r]
           m4 == [m3 EXCEPT !.sflag = s]
<1>2. m1 = [csize |-> m.csize, dsize |-> m.dsize, cdata |-> c,
            ddata |-> m.ddata, regs |-> m.regs, sflag |-> m.sflag, funcs |-> m.funcs]
  BY DEF Fielded
<1> HIDE DEF m1
<1>3. m2 = [csize |-> m.csize, dsize |-> m.dsize, cdata |-> c,
            ddata |-> d, regs |-> m.regs, sflag |-> m.sflag, funcs |-> m.funcs]
  BY <1>2
<1> HIDE DEF m2
<1>4. m3 = [csize |-> m.csize, dsize |-> m.dsize, cdata |-> c,
            ddata |-> d, regs |-> r, sflag |-> m.sflag, funcs |-> m.funcs]
  BY <1>3
<1> HIDE DEF m3
<1>5. m4 = [csize |-> m.csize, dsize |-> m.dsize, cdata |-> c,
            ddata |-> d, regs |-> r, sflag |-> s, funcs |-> m.funcs]
  BY <1>4
<1>6. Compiled(m, c, d, r, s) = m4
  BY DEF Compiled, m1, m2, m3
<1> HIDE DEF m4
<1> QED
  BY <1>5, <1>6

LEMMA RanIs ==
  ASSUME NEW m, Fielded(m), NEW r, NEW s, NEW d
  PROVE  Ran(m, r, s, d) =
           [csize |-> m.csize, dsize |-> m.dsize, cdata |-> m.cdata,
            ddata |-> d, regs |-> r, sflag |-> s, funcs |-> m.funcs]
<1> DEFINE m1 == [m EXCEPT !.regs = r]
           m2 == [m1 EXCEPT !.sflag = s]
           m3 == [m2 EXCEPT !.ddata = d]
<1>2. m1 = [csize |-> m.csize, dsize |-> m.dsize, cdata |-> m.cdata,
            ddata |-> m.ddata, regs |-> r, sflag |-> m.sflag, funcs |-> m.funcs]
  BY DEF Fielded
<1> HIDE DEF m1
<1>3. m2 = [csize |-> m.csize, dsize |-> m.dsize, cdata |-> m.cdata,
            ddata |-> m.ddata, regs |-> r, sflag |-> s, funcs |-> m.funcs]
  BY <1>2
<1> HIDE DEF m2
<1>4. m3 = [csize |-> m.csize, dsize |-> m.dsize, cdata |-> m.cdata,
            ddata |-> d, regs |-> r, sflag |-> s, funcs |-> m.funcs]
  BY <1>3
<1>5. Ran(m, r, s, d) = m3
  BY DEF Ran, m1, m2
<1> HIDE DEF m3
<1> QED
  BY <1>4, <1>5

(* What running code, ~reset or an assembled line leaves has the lengths   *)
(* the machine had.                                                        *)
LEMMA LineShaped ==
  ASSUME NEW m, Shaped(m), NEW c \in Cells(m.csize), NEW d \in Cells(m.dsize),
         NEW r \in Cells(NRegs), NEW s
  PROVE  Shaped(Compiled(m, c, d, r, s))
<1>1. Fielded(m) /\ m.csize \in Nat /\ m.dsize \in Nat
  BY DEF Shaped, Fielded
<1>2. NRegs \in Nat
  BY CellAssumption
<1>3. HasLength(c, m.csize) /\ HasLength(d, m.dsize) /\ HasLength(r, NRegs)
  BY <1>1, <1>2, CellsLength
<1>4. Shaped([csize |-> m.csize, dsize |-> m.dsize, cdata |-> c,
              ddata |-> d, regs |-> r, sflag |-> s, funcs |-> m.funcs])
  BY <1>1, <1>3, ShapedRecord
<1> QED
  BY <1>1, <1>4, CompiledIs

LEMMA RunsShaped ==
  ASSUME NEW m, Shaped(m), NEW r \in Cells(NRegs), NEW s, NEW d \in Cells(m.dsize)
  PROVE  Shaped(Ran(m, r, s, d))
<1>1. Fielded(m) /\ m.csize \in Nat /\ m.dsize \in Nat /\ HasLength(m.cdata, m.csize)
  BY DEF Shaped, Fielded
<1>2. NRegs \in Nat
  BY CellAssumption
<1>3. HasLength(d, m.dsize) /\ HasLength(r, NRegs)
  BY <1>1, <1>2, CellsLength
<1>4. Shaped([csize |-> m.csize, dsize |-> m.dsize, cdata |-> m.cdata,
              ddata |-> d, regs |-> r, sflag |-> s, funcs |-> m.funcs])
  BY <1>1, <1>3, ShapedRecord
<1> QED
  BY <1>1, <1>4, RanIs

LEMMA ResetShaped ==
  ASSUME NEW m, Shaped(m), NEW s
  PROVE  Shaped(Zeroed(m, s))
<1> DEFINE z == [i \in 1 .. NRegs |-> 0]
<1>1. m = [csize |-> m.csize, dsize |-> m.dsize, cdata |-> m.cdata,
           ddata |-> m.ddata, regs |-> m.regs, sflag |-> m.sflag, funcs |-> m.funcs]
      /\ m.csize \in Nat /\ m.dsize \in Nat
      /\ HasLength(m.cdata, m.csize) /\ HasLength(m.ddata, m.dsize)
  BY DEF Shaped
<1>2. HasLength(z, NRegs)
  <2>1. z \in Cells(NRegs) /\ NRegs \in Nat
    BY CellAssumption DEF Cells
  <2> HIDE DEF z
  <2> QED
    BY <2>1, CellsLength
<1>3. Zeroed(m, s) = [m EXCEPT !.regs = z, !.sflag = s]
  BY DEF Zeroed
<1> HIDE DEF z
<1>4. Zeroed(m, s) = [csize |-> m.csize, dsize |-> m.dsize, cdata |-> m.cdata,
           ddata |-> m.ddata, regs |-> z, sflag |-> s, funcs |-> m.funcs]
  BY <1>1, <1>3
<1>5. Shaped([csize |-> m.csize, dsize |-> m.dsize, cdata |-> m.cdata,
              ddata |-> m.ddata, regs |-> z, sflag |-> s, funcs |-> m.funcs])
  BY <1>1, <1>2, ShapedRecord
<1> QED
  BY <1>4, <1>5

(* So has what Load moves into place.                                      *)
LEMMA LoadedShaped ==
  ASSUME NEW f, Sized(f), Loadable(f)
  PROVE  Shaped(Loaded(f))
<1>1. PICK S : f \in Seq(S) /\ (Len(f) >= 4 => f[3] \in Nat /\ f[4] \in Nat)
  BY DEF Sized
<1> DEFINE c == f[3]
           d == f[4]
<1>2. /\ HeaderLen \in Nat /\ HeaderLen >= 4 /\ NRegs \in Nat
  BY CellAssumption DEF HeaderLen
<1>3. Len(f) \in Nat /\ Len(f) >= HeaderLen /\ Len(f) >= HeaderLen + c + d + NRegs + 2
  BY <1>1, LenProperties DEF Loadable, HashAt
<1>4. c \in Nat /\ d \in Nat
  BY <1>1, <1>2, <1>3
<1> HIDE DEF c, d
<1>5. /\ HeaderLen + c \in Nat /\ HeaderLen + c + d \in Nat
      /\ HeaderLen + c <= Len(f) /\ HeaderLen + c + d <= Len(f)
      /\ HeaderLen + c + d + NRegs <= Len(f)
  BY <1>2, <1>3, <1>4, Offsets
<1>s. f \in Seq(S)
  BY <1>1
<1> DEFINE k1 == HeaderLen + c
           k2 == HeaderLen + c + d
<1>k. /\ k1 \in Nat /\ k1 + d <= Len(f)
      /\ k2 \in Nat /\ k2 + NRegs <= Len(f)
  BY <1>5
<1> HIDE DEF k1, k2
<1>6. HasLength(Part(f, HeaderLen, c), c)
  <2>1. Part(f, HeaderLen, c) \in Seq(S) /\ Len(Part(f, HeaderLen, c)) = c
    BY <1>s, <1>2, <1>4, <1>5, PartCells
  <2> QED
    BY <2>1 DEF HasLength
<1>7. HasLength(Part(f, k1, d), d)
  <2>1. Part(f, k1, d) \in Seq(S) /\ Len(Part(f, k1, d)) = d
    BY <1>s, <1>k, <1>4, PartCells
  <2> QED
    BY <2>1 DEF HasLength
<1>8. HasLength(Part(f, k2, NRegs), NRegs)
  <2>1. Part(f, k2, NRegs) \in Seq(S) /\ Len(Part(f, k2, NRegs)) = NRegs
    BY <1>s, <1>k, <1>2, PartCells
  <2> QED
    BY <2>1 DEF HasLength
<1>9. Loaded(f) = [csize |-> c, dsize |-> d,
                   cdata |-> Part(f, HeaderLen, c),
                   ddata |-> Part(f, HeaderLen + c, d),
                   regs  |-> Part(f, HeaderLen + c + d, NRegs),
                   sflag |-> f[HeaderLen + c + d + NRegs + 1],
                   funcs |-> NoFuncs]
  BY DEF Loaded, c, d
<1> QED
  BY <1>4, <1>6, <1>7, <1>8, <1>9, ShapedRecord DEF k1, k2

-----------------------------------------------------------------------------
(***************************************************************************)
(* Streams.                                                                *)
(***************************************************************************)
(* Writing n cells more moves the cut by n.                                *)
LEMMA CutFurther ==
  ASSUME NEW S, NEW D \in Seq(S), NEW k \in 0 .. Len(D),
         NEW p, p = SubSeq(D, k + 1, Len(D)), NEW n \in 1 .. Len(p)
  PROVE  /\ k + n \in 0 .. Len(D)
         /\ SubSeq(D, 1, k) \o SubSeq(p, 1, n) = SubSeq(D, 1, k + n)
         /\ SubSeq(p, n + 1, Len(p)) = SubSeq(D, k + n + 1, Len(D))
<1>1. Len(D) \in Nat /\ \A i \in 1 .. Len(D) : D[i] \in S
  BY ElementOfSeq, LenProperties
<1>2. p \in Seq(S) /\ Len(p) = Len(D) - k
  <2>1. \A i \in k + 1 .. Len(D) : D[i] \in S
    BY <1>1
  <2>2. p \in Seq(S) /\ Len(p) = IF k + 1 <= Len(D) THEN Len(D) - (k + 1) + 1 ELSE 0
    BY <1>1, <2>1, SubSeqProperties
  <2> QED
    BY <1>1, <2>2
<1>n. k \in Nat /\ n \in Nat /\ n <= Len(p) /\ Len(p) \in Nat
  BY <1>1, <1>2
<1>3. k + n \in 0 .. Len(D) /\ k + 1 \in 1 .. Len(D)
  BY <1>1, <1>2
<1>4. SubSeq(p, 1, n) = SubSeq(D, k + 1, k + n)
  <2>1. /\ Len(D) \in 1 .. Len(D)
        /\ 1 \in 1 .. Len(D) - (k + 1) + 1
        /\ n \in 1 .. Len(D) - (k + 1) + 1
    BY <1>1, <1>2, <1>3
  <2>2. SubSeq(SubSeq(D, k + 1, Len(D)), 1, n) = SubSeq(D, k + 1 + 1 - 1, k + 1 + n - 1)
    BY <1>3, <2>1, SubSeqOfSubSeq
  <2>3. k + 1 + 1 - 1 = k + 1 /\ k + 1 + n - 1 = k + n
    BY <1>2
  <2> QED
    BY <2>2, <2>3
<1>5. SubSeq(D, 1, k) \o SubSeq(D, k + 1, k + n) = SubSeq(D, 1, k + n)
  <2>1. 1 \in 1 .. Len(D) + 1 /\ k \in 1 - 1 .. Len(D) /\ k + n \in k .. Len(D)
    BY <1>1, <1>2, <1>3
  <2> QED
    BY <2>1, ConcatAdjacentSubSeq
<1>6. SubSeq(p, n + 1, Len(p)) = SubSeq(D, k + n + 1, Len(D))
  <2>1. CASE n = Len(p)
    <3>1. k + n + 1 > Len(D) /\ n + 1 > Len(p)
          /\ k + n + 1 \in Int /\ n + 1 \in Int /\ Len(p) \in Int /\ Len(D) \in Int
      BY <1>1, <1>2, <2>1
    <3> QED
      BY <3>1, SubSeqEmpty
  <2>2. CASE n < Len(p)
    <3>1. /\ Len(D) \in 1 .. Len(D)
          /\ n + 1 \in 1 .. Len(D) - (k + 1) + 1
          /\ Len(p) \in 1 .. Len(D) - (k + 1) + 1
      BY <1>1, <1>2, <1>3, <2>2
    <3>2. SubSeq(SubSeq(D, k + 1, Len(D)), n + 1, Len(p))
            = SubSeq(D, k + 1 + (n + 1) - 1, k + 1 + Len(p) - 1)
      BY <1>3, <3>1, SubSeqOfSubSeq
    <3>3. k + 1 + (n + 1) - 1 = k + n + 1
      BY <1>n
    <3>4. k + 1 + Len(p) - 1 = Len(D)
      <4> DEFINE L == Len(D)
                 l == Len(p)
      <4>1. L \in Nat /\ l \in Nat /\ l = L - k
        BY <1>1, <1>2, <1>n
      <4> HIDE DEF L, l
      <4>2. k + 1 + l - 1 = L
        BY <4>1, <1>n
      <4> QED
        BY <4>2 DEF L, l
    <3> QED
      BY <3>2, <3>3, <3>4
  <2> QED
    BY <1>n, <2>1, <2>2
<1> QED
  BY <1>3, <1>4, <1>5, <1>6

(* What has been written of a dump has its size words, or not yet.         *)
LEMMA CutSized ==
  ASSUME NEW m, Shaped(m), NEW f, CutDump(f, m)
  PROVE  Sized(f)
<1>0. PICK junk \in Cells(HeaderExtra) :
        \E k \in 0 .. Len(Dumped(m, junk)) : f = SubSeq(Dumped(m, junk), 1, k)
  BY DEF CutDump
<1>1. PICK k \in 0 .. Len(Dumped(m, junk)) : f = SubSeq(Dumped(m, junk), 1, k)
  BY <1>0
<1> DEFINE D == Dumped(m, junk)
<1>2. PICK S : D \in Seq(S) /\ D[3] = m.csize /\ D[4] = m.dsize
  BY DumpCells
<1> HIDE DEF D
<1>3. Len(D) \in Nat /\ \A i \in 1 .. Len(D) : D[i] \in S
  BY <1>2, ElementOfSeq, LenProperties
<1>4. k \in Nat /\ k <= Len(D)
  BY <1>3 DEF D
<1>5. /\ f \in Seq(S)
      /\ Len(f) = (IF 1 <= k THEN k - 1 + 1 ELSE 0)
      /\ \A i \in 1 .. k - 1 + 1 : f[i] = D[1 + i - 1]
  <2>1. \A i \in 1 .. k : D[i] \in S
    BY <1>3, <1>4
  <2>2. f = SubSeq(D, 1, k)
    BY <1>1 DEF D
  <2> QED
    BY <1>4, <2>1, <2>2, SubSeqProperties
<1>6. Len(f) >= 4 => f[3] = D[3] /\ f[4] = D[4]
  BY <1>4, <1>5
<1> QED
  BY <1>2, <1>5, <1>6 DEF Sized, Shaped

(* A cut dump that can be loaded is the whole dump.                        *)
LEMMA CutWhole ==
  ASSUME NEW m, Shaped(m), NEW f, CutDump(f, m), Loadable(f)
  PROVE  \E junk \in Cells(HeaderExtra) : f = Dumped(m, junk)
<1>0. PICK junk \in Cells(HeaderExtra) :
        \E k \in 0 .. Len(Dumped(m, junk)) : f = SubSeq(Dumped(m, junk), 1, k)
  BY DEF CutDump
<1>1. PICK k \in 0 .. Len(Dumped(m, junk)) : f = SubSeq(Dumped(m, junk), 1, k)
  BY <1>0
<1>2. PICK S : Dumped(m, junk) \in Seq(S)
  BY DumpCells
<1>3. Len(Dumped(m, junk)) \in Nat
  BY <1>2, LenProperties
<1>4. k = Len(Dumped(m, junk))
  BY <1>1, <1>3, PrefixRefused
<1>5. f = Dumped(m, junk)
  BY <1>1, <1>2, <1>4, SubSeqFull
<1> QED
  BY <1>5

LEMMA CutLoads ==
  ASSUME NEW m, Shaped(m), NEW f, CutDump(f, m), Loadable(f)
  PROVE  Loaded(f) = [m EXCEPT !.funcs = NoFuncs]
BY CutWhole, RoundTrip

-----------------------------------------------------------------------------
(***************************************************************************)
(* The invariant.                                                          *)
(***************************************************************************)
LEMMA ReplInit ==
  ASSUME Init
  PROVE  ReplInv
<1>1. Shaped(mem) /\ Shaped(saved)
  BY FreshShaped DEF Init
<1> QED
  BY <1>1 DEF Init, ReplInv

(* Opening dump.bin empties it, with all of the dump still to be written.  *)
LEMMA OpenKeeps ==
  ASSUME ReplInv, DumpOpen
  PROVE  ReplInv'
<1>1. PICK junk \in Cells(HeaderExtra) : pending' = Dumped(mem, junk)
  BY DEF DumpOpen
<1> DEFINE D == Dumped(mem, junk)
<1>2. Shaped(mem)
  BY DEF ReplInv
<1>3. PICK S : D \in Seq(S)
  BY <1>2, DumpCells
<1>4. Len(D) \in Nat
  BY <1>3, LenProperties
<1>5. SubSeq(D, 1, 0) = << >> /\ SubSeq(D, 0 + 1, Len(D)) = D /\ 0 \in 0 .. Len(D)
  <2>1. SubSeq(D, 1, 0) = << >>
    BY SubSeqEmpty
  <2>2. SubSeq(D, 1, Len(D)) = D
    BY <1>3, SubSeqFull
  <2>3. 0 + 1 = 1
    OBVIOUS
  <2> QED
    BY <1>4, <2>1, <2>2, <2>3
<1>6. file' = << >> /\ phase' = "dump" /\ saved' = mem /\ harm' = "none"
      /\ mem' = mem
  BY DEF DumpOpen
<1>7. CutDump(file', saved') /\ Split(file', pending', saved')
  BY <1>1, <1>5, <1>6 DEF CutDump, Split
<1>8. Sized(file')
  BY <1>2, <1>6, <1>7, CutSized
<1> QED
  BY <1>2, <1>6, <1>7, <1>8 DEF ReplInv

(* A piece written moves the cut.                                          *)
LEMMA WriteKeeps ==
  ASSUME ReplInv, DumpWrite
  PROVE  ReplInv'
<1>1. Split(file, pending, saved) /\ Shaped(saved) /\ Shaped(mem) /\ harm = "none"
  BY DEF ReplInv, DumpWrite
<1>2. PICK junk \in Cells(HeaderExtra) :
        \E k \in 0 .. Len(Dumped(saved, junk)) :
          /\ file = SubSeq(Dumped(saved, junk), 1, k)
          /\ pending = SubSeq(Dumped(saved, junk), k + 1, Len(Dumped(saved, junk)))
  BY <1>1 DEF Split
<1> DEFINE D == Dumped(saved, junk)
<1>3. PICK k \in 0 .. Len(D) :
        file = SubSeq(D, 1, k) /\ pending = SubSeq(D, k + 1, Len(D))
  BY <1>2
<1>4. PICK S : D \in Seq(S)
  BY <1>1, DumpCells
<1>5. PICK n \in 1 .. Len(pending) :
        /\ file' = file \o SubSeq(pending, 1, n)
        /\ pending' = SubSeq(pending, n + 1, Len(pending))
  BY DEF DumpWrite
<1>6. /\ k + n \in 0 .. Len(D)
      /\ SubSeq(D, 1, k) \o SubSeq(pending, 1, n) = SubSeq(D, 1, k + n)
      /\ SubSeq(pending, n + 1, Len(pending)) = SubSeq(D, k + n + 1, Len(D))
  <2> HIDE DEF D
  <2>1. pending = SubSeq(D, k + 1, Len(D))
    BY <1>3
  <2> DEFINE p == pending
  <2>2. p = SubSeq(D, k + 1, Len(D)) /\ n \in 1 .. Len(p)
    BY <2>1
  <2> HIDE DEF p
  <2>3. /\ k + n \in 0 .. Len(D)
        /\ SubSeq(D, 1, k) \o SubSeq(p, 1, n) = SubSeq(D, 1, k + n)
        /\ SubSeq(p, n + 1, Len(p)) = SubSeq(D, k + n + 1, Len(D))
    BY <1>4, <2>2, CutFurther
  <2> QED
    BY <2>3 DEF p
<1>7. saved' = saved /\ mem' = mem /\ harm' = harm /\ phase' = phase
  BY DEF DumpWrite
<1>8. CutDump(file', saved') /\ Split(file', pending', saved')
  BY <1>3, <1>5, <1>6, <1>7 DEF CutDump, Split
<1>9. Sized(file')
  BY <1>1, <1>7, <1>8, CutSized
<1> QED
  BY <1>1, <1>7, <1>8, <1>9 DEF ReplInv

(* What leaves the file alone, does not begin a dump and leaves the        *)
(* machine shaped keeps the invariant.                                     *)
LEMMA FileAlone ==
  ASSUME ReplInv, file' = file, saved' = saved, harm' = harm,
         phase' # "dump", Shaped(mem')
  PROVE  ReplInv'
BY DEF ReplInv

(* A changed cell leaves the size words alone; a foreign file has numbers. *)
LEMMA DamageKeeps ==
  ASSUME ReplInv, Damage
  PROVE  ReplInv'
<1>1. PICK S : file \in Seq(S) /\ (Len(file) >= 4 => file[3] \in Nat /\ file[4] \in Nat)
  BY DEF ReplInv, Damage, Sized
<1>2. PICK i \in DOMAIN file \ {3, 4}, v \in DamageValues : file' = [file EXCEPT ![i] = v]
  BY DEF Damage
<1>3. file' \in Seq(S \cup {v}) /\ Len(file') = Len(file)
  <2>1. file \in Seq(S \cup {v}) /\ i \in 1 .. Len(file)
    BY <1>1, <1>2, SeqMonotonic, LenProperties
  <2>2. v \in S \cup {v}
    OBVIOUS
  <2> QED
    BY <1>2, <2>1, <2>2, ExceptSeq
<1>4. Len(file) >= 4 => file'[3] = file[3] /\ file'[4] = file[4]
  BY <1>1, <1>2, LenProperties
<1>5. Sized(file')
  BY <1>1, <1>3, <1>4 DEF Sized
<1>6. mem' = mem /\ saved' = saved /\ phase' = phase /\ phase # "dump" /\ harm' = "cell"
  BY DEF Damage
<1> QED
  BY <1>5, <1>6 DEF ReplInv

LEMMA ReplStep ==
  ASSUME ReplInv, [Next]_vars
  PROVE  ReplInv'
<1>s. Shaped(mem)
  BY DEF ReplInv
<1>r. ASSUME Runs PROVE Shaped(mem')
  <2>1. PICK r \in Cells(NRegs), s \in Cell, d \in Cells(mem.dsize) :
          mem' = Ran(mem, r, s, d)
    BY <1>r DEF Runs
  <2> QED
    BY <1>s, <2>1, RunsShaped
<1>1. CASE DumpOpen
  BY <1>1, OpenKeeps
<1>2. CASE DumpWrite
  BY <1>2, WriteKeeps
<1>o. CASE DumpOpenFails
  BY <1>o DEF DumpOpenFails, ReplInv
<1>3. CASE DumpFails \/ DumpClose
  BY <1>3, <1>s, FileAlone DEF DumpFails, DumpClose
<1>4. CASE LoadNothing \/ UNCHANGED vars
  BY <1>4 DEF LoadNothing, vars, ReplInv
<1>5. CASE LoadThrows
  BY <1>5, <1>s, FileAlone DEF LoadThrows
<1>6. CASE LoadMoves
  <2>1. Shaped(mem')
    BY <1>6, LoadedShaped DEF LoadMoves, ReplInv
  <2> QED
    BY <1>6, <2>1, FileAlone DEF LoadMoves
<1>7. CASE Start \/ Halts \/ Unknown \/ Faults \/ Exit
  BY <1>7, <1>s, FileAlone DEF Start, Halts, Unknown, Faults, Exit, Kept
<1>8. CASE Running
  BY <1>8, <1>r, FileAlone DEF Running, Kept
<1>9. CASE StepOne
  BY <1>9, <1>r, FileAlone DEF StepOne, Kept
<1>10. CASE Reset
  <2>1. PICK s \in Cell \ {0} :
          mem' = Zeroed(mem, s)
    BY <1>10 DEF Reset
  <2>2. Shaped(mem')
    BY <1>s, <2>1, ResetShaped
  <2> QED
    BY <1>10, <2>2, FileAlone DEF Reset, Kept
<1>11. CASE Line
  <2>1. PICK c \in Cells(mem.csize), d \in Cells(mem.dsize), r \in Cells(NRegs), s \in Cell :
          mem' = Compiled(mem, c, d, r, s)
    BY <1>11 DEF Line
  <2>2. Shaped(mem')
    BY <1>s, <2>1, LineShaped
  <2> QED
    BY <1>11, <2>2, FileAlone DEF Line, Kept
<1>12. CASE Kill
  BY <1>12, <1>s, FileAlone DEF Kill
<1>13. CASE Restart
  BY <1>13, FreshShaped, FileAlone DEF Restart
<1>14. CASE Replace
  <2>1. file' \in Seq(Nat)
    BY <1>14, ForeignAssumption DEF Replace
  <2>2. Sized(file')
    <3>1. Len(file') >= 4 => file'[3] \in Nat /\ file'[4] \in Nat
      BY <2>1, ElementOfSeq, LenProperties
    <3> QED
      BY <2>1, <3>1 DEF Sized
  <2> QED
    BY <1>14, <1>s, <2>2 DEF Replace, ReplInv
<1>15. CASE Damage
  BY <1>15, DamageKeeps
<1> QED
  BY <1>1, <1>2, <1>o, <1>3, <1>4, <1>5, <1>6, <1>7, <1>8, <1>9, <1>10, <1>11, <1>12,
     <1>13, <1>14, <1>15 DEF Next

THEOREM ReplInvariant == Spec => []ReplInv
BY ReplInit, ReplStep, PTL DEF Spec

(* Whatever the moment at which a dump was cut off, and whatever ~dumps    *)
(* could not open the file since, what Load accepts is the whole machine   *)
(* of the last ~dump that did open it, but for its callbacks: for segments *)
(* of every size, and every modulus of the hash.                           *)
THEOREM OnlyWholeDumps == Spec => []OnlyWholeDumpsLoad
<1>1. ReplInv => OnlyWholeDumpsLoad
  BY CutLoads DEF ReplInv, OnlyWholeDumpsLoad
<1> QED
  BY <1>1, ReplInvariant, PTL

(* A dump whose writes all succeeded can be loaded, whatever was on the    *)
(* stack when its header was written.                                      *)
THEOREM WholeDumps == Spec => WholeDumpsLoad
<1>1. ASSUME ReplInv, DumpClose PROVE Loadable(file)
  <2>1. Split(file, << >>, saved) /\ Shaped(saved)
    BY <1>1 DEF ReplInv, DumpClose
  <2>2. PICK junk \in Cells(HeaderExtra) :
          \E k \in 0 .. Len(Dumped(saved, junk)) :
            /\ file = SubSeq(Dumped(saved, junk), 1, k)
            /\ << >> = SubSeq(Dumped(saved, junk), k + 1, Len(Dumped(saved, junk)))
    BY <2>1 DEF Split
  <2> DEFINE D == Dumped(saved, junk)
  <2>3. PICK k \in 0 .. Len(D) :
          file = SubSeq(D, 1, k) /\ << >> = SubSeq(D, k + 1, Len(D))
    BY <2>2
  <2>4. PICK S : D \in Seq(S)
    BY <2>1, DumpCells
  <2>5. k = Len(D)
    <3> HIDE DEF D
    <3>1. Len(D) \in Nat /\ \A i \in k + 1 .. Len(D) : D[i] \in S
      BY <2>4, ElementOfSeq, LenProperties
    <3>2. Len(SubSeq(D, k + 1, Len(D)))
            = IF k + 1 <= Len(D) THEN Len(D) - (k + 1) + 1 ELSE 0
      BY <3>1, SubSeqProperties
    <3>3. Len(<< >>) = 0 /\ << >> = SubSeq(D, k + 1, Len(D))
      BY <2>3
    <3>4. Len(SubSeq(D, k + 1, Len(D))) = 0
      BY <3>3
    <3> QED
      BY <2>3, <3>1, <3>2, <3>4
  <2>6. file = D
    BY <2>3, <2>4, <2>5, SubSeqFull
  <2> QED
    BY <2>1, <2>6, RoundTrip
<1>2. ReplInv /\ [Next]_vars => [DumpClose => Loadable(file)]_vars
  BY <1>1
<1> QED
  BY <1>2, ReplInvariant, PTL DEF Spec, WholeDumpsLoad

-----------------------------------------------------------------------------
(***************************************************************************)
(* Damage.                                                                 *)
(***************************************************************************)
(* A machine with numbers for sizes and cells of the right values.         *)
Typed(m) == m.csize \in Nat /\ m.dsize \in Nat /\ m \in Machine(m.csize, m.dsize)

LEMMA TypedShaped ==
  ASSUME NEW m, Typed(m)
  PROVE  Shaped(m)
<1>1. /\ m = [csize |-> m.csize, dsize |-> m.dsize, cdata |-> m.cdata,
              ddata |-> m.ddata, regs |-> m.regs, sflag |-> m.sflag, funcs |-> m.funcs]
      /\ m.cdata \in Cells(m.csize) /\ m.ddata \in Cells(m.dsize) /\ m.regs \in Cells(NRegs)
  BY DEF Typed, Machine
<1>2. NRegs \in Nat
  BY CellAssumption
<1> QED
  BY <1>1, <1>2, CellsLength DEF Typed, Shaped

LEMMA NumbersAssociate ==
  ASSUME NEW x \in Seq(Nat), NEW y \in Seq(Nat), NEW z \in Seq(Nat)
  PROVE  (x \o y) \o z = x \o (y \o z)
OBVIOUS

(* What is hashed of a dump: numbers, and cells behind the fourth.         *)
LEMMA HashedCells ==
  ASSUME NEW m, Typed(m), NEW junk \in Cells(HeaderExtra)
  PROVE  LET s == Header(m, junk) \o Body(m)
         IN s \in Seq(Nat) /\ \A i \in 5 .. Len(s) : s[i] \in Cell
<1> DEFINE h == << Magic, Version, m.csize, m.dsize >>
           b == Body(m)
           r == junk \o b
           s == Header(m, junk) \o Body(m)
<1>1. /\ m.cdata \in Cells(m.csize) /\ m.ddata \in Cells(m.dsize) /\ m.regs \in Cells(NRegs)
      /\ m.sflag \in Cell /\ m.csize \in Nat /\ m.dsize \in Nat
      /\ NRegs \in Nat /\ HeaderExtra \in Nat /\ Magic \in Nat /\ Version \in Nat
      /\ Cell \subseteq Nat
  BY CellAssumption DEF Typed, Machine
<1>2. /\ m.cdata \in Seq(Cell) /\ m.ddata \in Seq(Cell) /\ m.regs \in Seq(Cell)
      /\ junk \in Seq(Cell)
  <2>1. \A n \in Nat : \A v \in Cells(n) : v \in Seq(Cell)
    BY DEF Cells
  <2> QED
    BY <1>1, <2>1
<1>3. << m.sflag >> \in Seq(Cell)
  BY <1>1
<1>4. b \in Seq(Cell)
  <2>1. m.cdata \o m.ddata \in Seq(Cell)
    BY <1>2, ConcatProperties
  <2>2. m.cdata \o m.ddata \o m.regs \in Seq(Cell)
    BY <1>2, <2>1, ConcatProperties
  <2> QED
    BY <1>3, <2>2, ConcatProperties DEF Body
<1> HIDE DEF b
<1>5. r \in Seq(Cell)
  BY <1>2, <1>4, ConcatProperties
<1>6. h \in Seq(Nat) /\ Len(h) = 4
  BY <1>1
<1>7. junk \in Seq(Nat) /\ b \in Seq(Nat) /\ r \in Seq(Nat)
  BY <1>1, <1>2, <1>4, <1>5, SeqMonotonic
<1>8. s = h \o r
  <2>1. s = (h \o junk) \o b
    BY DEF Header, b
  <2> HIDE DEF h, s
  <2>2. \A x, y, z \in Seq(Nat) : (x \o y) \o z = x \o (y \o z)
    BY NumbersAssociate
  <2> QED
    BY <1>6, <1>7, <2>1, <2>2, Zenon
<1> HIDE DEF h, r, s
<1>9. Joined(Nat, h, r, s)
  BY <1>6, <1>7, <1>8, ConcatJoins
<1>10. s \in Seq(Nat) /\ Len(s) = 4 + Len(r) /\ Len(r) \in Nat
       /\ \A i \in 1 .. Len(r) : s[4 + i] = r[i]
  BY <1>5, <1>6, <1>9, SMTT(30) DEF Joined
<1>11. \A i \in 1 .. Len(r) : r[i] \in Cell
  BY <1>5
<1>12. ASSUME NEW i \in 5 .. Len(s) PROVE s[i] \in Cell
  <2>1. i - 4 \in 1 .. Len(r) /\ 4 + (i - 4) = i
    BY <1>10
  <2> QED
    BY <1>10, <1>11, <2>1
<1> QED
  BY <1>10, <1>12 DEF s

(* A dump with one cell changed, the sizes excepted, is refused.           *)
LEMMA ChangedRefused ==
  ASSUME NEW m, Typed(m), NEW junk \in Cells(HeaderExtra),
         NEW i \in DOMAIN Dumped(m, junk) \ {3, 4}, NEW v \in 0 .. HashMod - 1,
         v # Dumped(m, junk)[i]
  PROVE  ~Loadable([Dumped(m, junk) EXCEPT ![i] = v])
<1> DEFINE D == Dumped(m, junk)
           s == Header(m, junk) \o Body(m)
           f == [D EXCEPT ![i] = v]
           L == DumpLength(m)
<1>0. Shaped(m)
  BY TypedShaped
<1>1. PICK S :
        /\ s \in Seq(S)
        /\ Len(s) = DumpLength(m) - 1
        /\ D \in Seq(S)
        /\ Len(D) = DumpLength(m)
        /\ \A j \in 1 .. DumpLength(m) - 1 : D[j] = s[j]
        /\ D[DumpLength(m)] = Sdbm(s)
        /\ D[1] = Magic /\ D[2] = Version /\ D[3] = m.csize /\ D[4] = m.dsize
  BY <1>0, DumpCells
<1>2. L \in Nat /\ L >= 6 /\ HashMod \in Nat \ {0}
  <2>1. m.csize \in Nat /\ m.dsize \in Nat
    BY DEF Typed
  <2> QED
    BY <2>1, CellAssumption DEF DumpLength, HeaderLen
<1>3. s \in Seq(Nat) /\ \A j \in 5 .. Len(s) : s[j] \in Cell
  BY HashedCells
<1> HIDE DEF L, s, D
<1>4. i \in 1 .. L /\ i \notin {3, 4} /\ v # D[i]
  BY <1>1 DEF L, D
<1>5. \A j \in 1 .. L : f[j] = IF j = i THEN v ELSE D[j]
  BY <1>1, <1>4 DEF L
<1>6. f \in Seq(S \cup {v}) /\ Len(f) = L
  <2>1. D \in Seq(S \cup {v}) /\ i \in 1 .. Len(D) /\ v \in S \cup {v}
    BY <1>1, <1>4, SeqMonotonic DEF L
  <2> QED
    BY <1>1, <2>1, ExceptSeq DEF L
<1> HIDE DEF f
<1>7. f[3] = m.csize /\ f[4] = m.dsize
  BY <1>1, <1>2, <1>4, <1>5
<1>8. HashAt(f) = L
  BY <1>7 DEF HashAt, L, DumpLength
<1>9. SUFFICES ASSUME f[1] = Magic, f[2] = Version, f[L] = Sdbm(SubSeq(f, 1, L - 1)) PROVE FALSE
  BY <1>8 DEF Loadable, f, D
<1>10. i # 1 /\ i # 2
  BY <1>1, <1>2, <1>4, <1>5, <1>9
<1> DEFINE t == SubSeq(f, 1, L - 1)
<1>11. Len(t) = L - 1 /\ \A j \in 1 .. L - 1 : t[j] = f[j]
  <2>1. L - 1 \in Nat /\ 0 \in Nat /\ 0 + (L - 1) <= Len(f) /\ 0 + 1 = 1 /\ 0 + (L - 1) = L - 1
    BY <1>2, <1>6
  <2>2. t = Part(f, 0, L - 1)
    BY <2>1 DEF Part
  <2> HIDE DEF t
  <2>3. Len(Part(f, 0, L - 1)) = L - 1
        /\ \A j \in 1 .. L - 1 : Part(f, 0, L - 1)[j] = f[0 + j]
    BY <1>6, <2>1, PartCells
  <2> QED
    BY <2>1, <2>2, <2>3
<1>12. CASE i = L
  <2>1. t \in Seq(Nat) /\ Len(s) = Len(t) /\ \A j \in 1 .. Len(s) : t[j] = s[j]
    <3>1. \A j \in 1 .. L - 1 : j \in 1 .. L /\ j # i
      BY <1>2, <1>12
    <3>2. \A j \in 1 .. L - 1 : t[j] = s[j]
      BY <1>1, <1>5, <1>11, <3>1 DEF L
    <3>3. \A j \in 1 .. L - 1 : t[j] \in Nat
      BY <1>1, <1>3, <3>2 DEF L
    <3>4. t \in Seq(Nat)
      <4>1. t \in Seq(S \cup {v})
        <5>1. \A j \in 1 .. L - 1 : f[j] \in S \cup {v}
          BY <1>2, <1>6
        <5> QED
          BY <1>2, <5>1, SubSeqProperties
      <4> HIDE DEF t
      <4> QED
        BY <1>2, <1>11, <3>3, <4>1
    <3> QED
      BY <1>1, <1>11, <3>2, <3>4 DEF L
  <2>2. t = s
    <3> HIDE DEF t
    <3> QED
      BY <1>3, <2>1, SeqEqual
  <2>3. f[L] = v /\ D[L] = Sdbm(s) /\ v # D[L] /\ f[L] = Sdbm(t)
    BY <1>1, <1>2, <1>4, <1>5, <1>9, <1>12 DEF L
  <2> HIDE DEF t
  <2> QED
    BY <2>2, <2>3
<1>13. CASE i # L
  <2>1. i \in 5 .. L - 1 /\ i \in 1 .. Len(s) /\ Len(s) = L - 1
    BY <1>1, <1>2, <1>4, <1>10, <1>13 DEF L
  <2>2. \A j \in 1 .. L - 1 : j \in 1 .. L
    BY <1>2
  <2>3. \A j \in 1 .. L - 1 : t[j] = IF j = i THEN v ELSE s[j]
    BY <1>1, <1>5, <1>11, <2>2 DEF L
  <2>4. t \in Seq(Nat)
    <3>1. t \in Seq(S \cup {v})
      <4>1. \A j \in 1 .. L - 1 : f[j] \in S \cup {v}
        BY <1>2, <1>6
      <4> QED
        BY <1>2, <4>1, SubSeqProperties
    <3>2. \A j \in 1 .. L - 1 : t[j] \in Nat
      BY <1>2, <1>3, <2>1, <2>3
    <3> HIDE DEF t
    <3> QED
      BY <1>2, <1>11, <3>1, <3>2
  <2>5. s[i] \in 0 .. HashMod - 1 /\ t[i] = v /\ s[i] # t[i]
    <3>1. s[i] \in Cell /\ D[i] = s[i]
      BY <1>1, <1>3, <2>1 DEF L
    <3>2. t[i] = v
      BY <2>1, <2>3
    <3>3. s[i] \in 0 .. HashMod - 1
      BY <3>1, CellBelow
    <3> QED
      BY <1>4, <3>1, <3>2, <3>3
  <2>6. \A j \in 1 .. Len(s) : j # i => s[j] = t[j]
    BY <2>1, <2>3
  <2> HIDE DEF t
  <2>7. Sdbm(s) # Sdbm(t)
    BY <1>3, <1>11, <2>1, <2>4, <2>5, <2>6, OneCellHash
  <2>8. f[L] = Sdbm(s)
    BY <1>1, <1>2, <1>5, <1>13 DEF L
  <2> QED
    BY <1>9, <2>7, <2>8 DEF t
<1> QED
  BY <1>12, <1>13

-----------------------------------------------------------------------------
(***************************************************************************)
(* The cells of the machine, and the damaged file.                         *)
(***************************************************************************)
(* Where DamageRefused fails the type of the machine goes with it, since a *)
(* damaged file may then be loaded; and the other way round.               *)
WholeInv ==
  /\ ReplInv
  /\ Typed(mem)
  /\ Typed(saved)
  /\ phase \in Phase
  /\ harm \in {"none", "cell", "foreign"}
  /\ missed \in BOOLEAN
  /\ pending # << >> => phase = "dump"
  /\ harm = "foreign" => file \in Foreign
  /\ harm = "cell" => ~Loadable(file)

LEMMA TypedRecord ==
  ASSUME NEW c \in Nat, NEW d \in Nat, NEW cd \in Cells(c), NEW dd \in Cells(d),
         NEW rg \in Cells(NRegs), NEW fl \in Cell, NEW fu \in [Slots -> Callback]
  PROVE  Typed([csize |-> c, dsize |-> d, cdata |-> cd, ddata |-> dd,
                regs |-> rg, sflag |-> fl, funcs |-> fu])
BY DEF Typed, Machine

LEMMA TypedFields ==
  ASSUME NEW m, Typed(m)
  PROVE  /\ m = [csize |-> m.csize, dsize |-> m.dsize, cdata |-> m.cdata,
                 ddata |-> m.ddata, regs |-> m.regs, sflag |-> m.sflag, funcs |-> m.funcs]
         /\ m.csize \in Nat /\ m.dsize \in Nat
         /\ m.cdata \in Cells(m.csize) /\ m.ddata \in Cells(m.dsize)
         /\ m.regs \in Cells(NRegs) /\ m.sflag \in Cell /\ m.funcs \in [Slots -> Callback]
BY DEF Typed, Machine

LEMMA ZeroCells == [i \in 1 .. NRegs |-> 0] \in Cells(NRegs) /\ 0 \in Cell
BY CellAssumption DEF Cells

LEMMA NoFuncsType == NoFuncs \in [Slots -> Callback]
BY DEF NoFuncs, Callback

(* A new machine.                                                          *)
LEMMA FreshTyped ==
  ASSUME NEW m \in Fresh
  PROVE  Typed(m)
<1>1. PICK u \in NewMachine(Size, Size) : m = Install(u)
  BY DEF Fresh
<1>2. PICK code \in Cells(Size), data \in Cells(Size) :
        u = [csize |-> Size, dsize |-> Size, cdata |-> code, ddata |-> data,
             regs |-> [i \in 1 .. NRegs |-> 0], sflag |-> 0, funcs |-> NoFuncs]
  BY <1>1 DEF NewMachine
<1> DEFINE fu == [k \in Slots |->
              CASE k = 0 -> "put" [] k = 1 -> "get" [] k = 2 -> "putc" [] k = 3 -> "getc"
                [] OTHER -> u.funcs[k]]
           rg == [i \in 1 .. NRegs |-> 0]
<1>3. m = [u EXCEPT !.funcs = fu]
  BY <1>1 DEF Install
<1>4. fu \in [Slots -> Callback]
  <2>1. \A k \in Slots : u.funcs[k] \in Callback
    BY <1>2, NoFuncsType
  <2>2. {"put", "get", "putc", "getc"} \subseteq Callback
    BY DEF Callback
  <2> QED
    BY <2>1, <2>2
<1> HIDE DEF fu
<1>5. m = [csize |-> Size, dsize |-> Size, cdata |-> code, ddata |-> data,
           regs |-> rg, sflag |-> 0, funcs |-> fu]
  BY <1>2, <1>3
<1>6. rg \in Cells(NRegs) /\ 0 \in Cell
  BY ZeroCells
<1> HIDE DEF rg
<1> QED
  BY <1>4, <1>5, <1>6, SizeAssumption, TypedRecord

(* What running code, ~reset or an assembled line leaves.                  *)
LEMMA ChangedTyped ==
  ASSUME NEW m, Typed(m), NEW c \in Cells(m.csize), NEW d \in Cells(m.dsize),
         NEW r \in Cells(NRegs), NEW s \in Cell
  PROVE  Typed(Compiled(m, c, d, r, s)) /\ Typed(Ran(m, r, s, d)) /\ Typed(Zeroed(m, s))
<1> DEFINE z == [i \in 1 .. NRegs |-> 0]
<1>1. /\ m = [csize |-> m.csize, dsize |-> m.dsize, cdata |-> m.cdata,
              ddata |-> m.ddata, regs |-> m.regs, sflag |-> m.sflag, funcs |-> m.funcs]
      /\ m.csize \in Nat /\ m.dsize \in Nat
      /\ m.cdata \in Cells(m.csize) /\ m.ddata \in Cells(m.dsize)
      /\ m.funcs \in [Slots -> Callback]
  BY TypedFields
<1>2. z \in Cells(NRegs)
  BY ZeroCells
<1>3. Zeroed(m, s) = [m EXCEPT !.regs = z, !.sflag = s]
  BY DEF Zeroed
<1> HIDE DEF z
<1>4. Compiled(m, c, d, r, s) = [csize |-> m.csize, dsize |-> m.dsize, cdata |-> c,
        ddata |-> d, regs |-> r, sflag |-> s, funcs |-> m.funcs]
  BY <1>1, CompiledIs DEF Fielded
<1>5. Ran(m, r, s, d) = [csize |-> m.csize, dsize |-> m.dsize, cdata |-> m.cdata,
        ddata |-> d, regs |-> r, sflag |-> s, funcs |-> m.funcs]
  BY <1>1, RanIs DEF Fielded
<1>6. Zeroed(m, s) = [csize |-> m.csize, dsize |-> m.dsize, cdata |-> m.cdata,
        ddata |-> m.ddata, regs |-> z, sflag |-> s, funcs |-> m.funcs]
  BY <1>1, <1>3
<1>7. Typed(Compiled(m, c, d, r, s))
  BY <1>1, <1>4, TypedRecord
<1>8. Typed(Ran(m, r, s, d))
  BY <1>1, <1>5, TypedRecord
<1>9. Typed(Zeroed(m, s))
  BY <1>1, <1>2, <1>6, TypedRecord
<1> QED
  BY <1>7, <1>8, <1>9

(* What Load moves into place.                                             *)
LEMMA LoadTyped ==
  ASSUME WholeInv, file # NoFile, Loadable(file)
  PROVE  Typed(Loaded(file))
<1>1. harm = "none" \/ harm = "foreign"
  BY DEF WholeInv
<1>2. CASE harm = "none"
  <2>1. Loaded(file) = [saved EXCEPT !.funcs = NoFuncs]
    BY <1>2, CutLoads DEF WholeInv, ReplInv
  <2>2. /\ saved = [csize |-> saved.csize, dsize |-> saved.dsize, cdata |-> saved.cdata,
              ddata |-> saved.ddata, regs |-> saved.regs, sflag |-> saved.sflag,
              funcs |-> saved.funcs]
        /\ saved.csize \in Nat /\ saved.dsize \in Nat
        /\ saved.cdata \in Cells(saved.csize) /\ saved.ddata \in Cells(saved.dsize)
        /\ saved.regs \in Cells(NRegs) /\ saved.sflag \in Cell
    BY TypedFields DEF WholeInv
  <2>3. Loaded(file) = [csize |-> saved.csize, dsize |-> saved.dsize, cdata |-> saved.cdata,
              ddata |-> saved.ddata, regs |-> saved.regs, sflag |-> saved.sflag,
              funcs |-> NoFuncs]
    BY <2>1, <2>2
  <2> QED
    BY <2>2, <2>3, NoFuncsType, TypedRecord
<1>3. CASE harm = "foreign"
  <2>1. file \in Seq(Nat) /\ Loaded(file) \in Machine(file[3], file[4])
    BY <1>3, ForeignAssumption DEF WholeInv
  <2>2. Loaded(file).csize = file[3] /\ Loaded(file).dsize = file[4]
    BY DEF Loaded
  <2>3. file[3] \in Nat /\ file[4] \in Nat
    <3>1. Len(file) >= 4 /\ Len(file) \in Nat
      BY <2>1, CellAssumption, SMTT(30) DEF Loadable, HeaderLen
    <3> QED
      BY <2>1, <3>1
  <2> QED
    BY <2>1, <2>2, <2>3 DEF Typed
<1> QED
  BY <1>1, <1>2, <1>3

LEMMA DamageIsRefused ==
  ASSUME WholeInv, Damage
  PROVE  ~Loadable(file')
<1>1. CutDump(file, saved) /\ Shaped(saved) /\ Typed(saved) /\ Loadable(file)
  BY DEF Damage, WholeInv, ReplInv
<1>2. PICK junk \in Cells(HeaderExtra) : file = Dumped(saved, junk)
  BY <1>1, CutWhole
<1>3. PICK i \in DOMAIN file \ {3, 4}, v \in DamageValues :
        v # file[i] /\ file' = [file EXCEPT ![i] = v]
  BY DEF Damage
<1>4. v \in 0 .. HashMod - 1
  BY DamageAssumption
<1> DEFINE D == Dumped(saved, junk)
<1>5. i \in DOMAIN D \ {3, 4} /\ v # D[i] /\ file' = [D EXCEPT ![i] = v]
  BY <1>2, <1>3
<1>6. ~Loadable([D EXCEPT ![i] = v])
  BY <1>1, <1>4, <1>5, ChangedRefused
<1> QED
  BY <1>5, <1>6

LEMMA WholeStart ==
  ASSUME Init
  PROVE  WholeInv
BY ReplInit, FreshTyped DEF Init, WholeInv, Phase

(* What leaves the file alone or makes the machine another one.            *)
LEMMA WholeAlone ==
  ASSUME WholeInv, ReplInv', file' = file, harm' = harm, saved' = saved, missed' \in BOOLEAN,
         Typed(mem'), phase' \in Phase, pending' # << >> => phase' = "dump"
  PROVE  WholeInv'
BY DEF WholeInv, Typed

LEMMA WholeStep ==
  ASSUME WholeInv, [Next]_vars
  PROVE  WholeInv'
<1>1. ReplInv'
  BY ReplStep DEF WholeInv
<1>2. Typed(mem)
  BY DEF WholeInv
<1>3. ASSUME Runs PROVE Typed(mem')
  <2>1. PICK r \in Cells(NRegs), s \in Cell, d \in Cells(mem.dsize) :
          mem' = Ran(mem, r, s, d)
    BY <1>3 DEF Runs
  <2>2. mem.cdata \in Cells(mem.csize)
    BY <1>2, TypedFields
  <2>3. Typed(Ran(mem, r, s, d))
    BY <1>2, <2>2, ChangedTyped
  <2> QED
    BY <2>1, <2>3
<1>p. (pending # << >> => phase = "dump") /\ missed \in BOOLEAN
  BY DEF WholeInv
<1>4. CASE DumpOpen
  <2>1. /\ saved' = mem /\ mem' = mem /\ harm' = "none" /\ phase' = "dump"
        /\ missed' = FALSE
    BY <1>4 DEF DumpOpen
  <2> QED
    BY <1>1, <1>2, <2>1 DEF WholeInv, Phase
<1>o. CASE DumpOpenFails
  <2>1. /\ file' = file /\ harm' = harm /\ saved' = saved /\ mem' = mem
        /\ phase' \in Phase /\ (pending' # << >> => phase' = "dump")
        /\ missed' \in BOOLEAN
    BY <1>o, <1>p DEF DumpOpenFails, Phase
  <2> QED
    BY <1>1, <1>2, <2>1, WholeAlone
<1>5. CASE DumpWrite
  <2>1. /\ saved' = saved /\ mem' = mem /\ harm' = harm /\ phase' = phase /\ phase = "dump"
        /\ missed' = missed
    BY <1>5 DEF DumpWrite
  <2>2. harm = "none"
    BY <2>1 DEF WholeInv, ReplInv
  <2> QED
    BY <1>1, <2>1, <2>2 DEF WholeInv
<1>6. CASE DumpFails \/ DumpClose
  <2>1. /\ file' = file /\ harm' = harm /\ saved' = saved /\ mem' = mem
        /\ phase' \in Phase /\ pending' = << >> /\ missed' \in BOOLEAN
    BY <1>6, <1>p DEF DumpFails, DumpClose, Phase
  <2> QED
    BY <1>1, <1>2, <2>1, WholeAlone
<1>7. CASE LoadNothing \/ UNCHANGED vars
  BY <1>1, <1>7 DEF LoadNothing, vars, WholeInv
<1>8. CASE LoadThrows
  <2>1. /\ file' = file /\ harm' = harm /\ saved' = saved /\ mem' = mem
        /\ phase' \in Phase /\ pending' = << >> /\ missed' \in BOOLEAN
    BY <1>8, <1>p DEF LoadThrows, Phase
  <2> QED
    BY <1>1, <1>2, <2>1, WholeAlone
<1>9. CASE LoadMoves
  <2>1. /\ file' = file /\ harm' = harm /\ saved' = saved /\ missed' \in BOOLEAN
        /\ phase' \in Phase /\ pending' = << >> /\ mem' = Loaded(file)
    BY <1>9, <1>p DEF LoadMoves, Phase
  <2>2. Typed(Loaded(file))
    BY <1>9, LoadTyped DEF LoadMoves
  <2> QED
    BY <1>1, <2>1, <2>2, WholeAlone
<1>10. CASE Start \/ Halts \/ Unknown \/ Faults \/ Exit
  <2>1. /\ file' = file /\ harm' = harm /\ saved' = saved /\ mem' = mem
        /\ phase' \in Phase /\ pending' = << >> /\ missed' \in BOOLEAN
    BY <1>10, <1>p DEF Start, Halts, Unknown, Faults, Exit, Kept, Phase
  <2> QED
    BY <1>1, <1>2, <2>1, WholeAlone
<1>11. CASE Running \/ StepOne
  <2>1. /\ file' = file /\ harm' = harm /\ saved' = saved /\ missed' \in BOOLEAN
        /\ phase' \in Phase /\ pending' = << >> /\ Runs
    BY <1>11, <1>p DEF Running, StepOne, Kept, Phase
  <2> QED
    BY <1>1, <1>3, <2>1, WholeAlone
<1>12. CASE Reset
  <2>1. /\ file' = file /\ harm' = harm /\ saved' = saved /\ missed' \in BOOLEAN
        /\ phase' \in Phase /\ pending' = << >>
    BY <1>12, <1>p DEF Reset, Kept, Phase
  <2>2. PICK s \in Cell \ {0} : mem' = Zeroed(mem, s)
    BY <1>12 DEF Reset
  <2>3. mem.cdata \in Cells(mem.csize) /\ mem.ddata \in Cells(mem.dsize) /\ mem.regs \in Cells(NRegs)
    BY <1>2, TypedFields
  <2>4. Typed(Zeroed(mem, s))
    BY <1>2, <2>3, ChangedTyped
  <2>5. Typed(mem')
    BY <2>2, <2>4
  <2> QED
    BY <1>1, <2>1, <2>5, WholeAlone
<1>13. CASE Line
  <2>1. /\ file' = file /\ harm' = harm /\ saved' = saved /\ missed' \in BOOLEAN
        /\ phase' \in Phase /\ pending' = << >>
    BY <1>13, <1>p DEF Line, Kept, Phase
  <2>2. PICK c \in Cells(mem.csize), d \in Cells(mem.dsize), r \in Cells(NRegs), s \in Cell :
          mem' = Compiled(mem, c, d, r, s)
    BY <1>13 DEF Line
  <2>3. Typed(Compiled(mem, c, d, r, s))
    BY <1>2, ChangedTyped
  <2>4. Typed(mem')
    BY <2>2, <2>3
  <2> QED
    BY <1>1, <2>1, <2>4, WholeAlone
<1>14. CASE Kill
  <2>1. /\ file' = file /\ harm' = harm /\ saved' = saved /\ mem' = mem
        /\ phase' \in Phase /\ pending' = << >> /\ missed' \in BOOLEAN
    BY <1>14, <1>p DEF Kill, Phase
  <2> QED
    BY <1>1, <1>2, <2>1, WholeAlone
<1>15. CASE Restart
  <2>1. /\ file' = file /\ harm' = harm /\ saved' = saved /\ missed' \in BOOLEAN
        /\ phase' \in Phase /\ pending' = << >> /\ mem' \in Fresh
    BY <1>15, <1>p DEF Restart, Phase
  <2>2. Typed(mem')
    BY <2>1, FreshTyped
  <2> QED
    BY <1>1, <2>1, <2>2, WholeAlone
<1>16. CASE Replace
  BY <1>1, <1>16 DEF Replace, WholeInv
<1>17. CASE Damage
  <2>1. ~Loadable(file')
    BY <1>17, DamageIsRefused
  <2>2. /\ mem' = mem /\ pending' = pending /\ phase' = phase /\ saved' = saved
        /\ harm' = "cell" /\ missed' = missed
    BY <1>17 DEF Damage
  <2> QED
    BY <1>1, <2>1, <2>2 DEF WholeInv
<1> QED
  BY <1>4, <1>o, <1>5, <1>6, <1>7, <1>8, <1>9, <1>10, <1>11, <1>12, <1>13, <1>14, <1>15, <1>16,
     <1>17 DEF Next

LEMMA WholeInvariant == Spec => []WholeInv
BY WholeStart, WholeStep, PTL DEF Spec

(* Whatever is dumped, killed, loaded, run or put in the file's place, the *)
(* machine's segments have the sizes it says, and its cells the values of  *)
(* cells: no damaged byte gets past Load into a machine.                   *)
THEOREM ReplTyped == Spec => []TypeOK
<1>1. WholeInv => TypeOK
  BY DEF WholeInv, TypeOK, Typed
<1> QED
  BY <1>1, WholeInvariant, PTL

(* One changed cell, wherever it is but in the sizes, makes Load throw:    *)
(* for every size of machine, because the factor of sdbm is odd.           *)
THEOREM DamageIsSeen == Spec => []DamageRefused
<1>1. WholeInv => DamageRefused
  BY DEF WholeInv, DamageRefused
<1> QED
  BY <1>1, WholeInvariant, PTL
=============================================================================
