--------------------------- MODULE ZlgCodegenProofs ---------------------------
(***************************************************************************)
(* For every syntax tree, however deep, and every number of registers: the *)
(* allocator's books balance (ContextTyped, ResultsHeld), it loses no      *)
(* register (NoneLost), the code leaves the reserved registers alone       *)
(* (ReservedKept), and every jump of it has one place to go (JumpsLand).   *)
(***************************************************************************)
EXTENDS ZlgCodegen, FiniteSetTheorems, SequenceTheorems, TLAPS

(* How often a register is among those that wait.                          *)
Places(v, r) == {i \in DOMAIN v : v[i] = r}
Occ(v, r) == Cardinality(Places(v, r))

One(x, r) == IF x = r THEN 1 ELSE 0

(* A context that has lost no register and keeps the reserved ones.        *)
Good(m) ==
  /\ m \in Context
  /\ \A r \in Reg : m.count[r] = 0 \/ r \in Reserved => r \in InQueue(m)
  /\ \A r \in Reserved : m.count[r] >= 1 /\ m.stat[r] = NoTag

(* The context has a reference for each of the results v.                  *)
Held(m, v) ==
  /\ v \in Seq(Reg)
  /\ \A r \in Reg : m.count[r] >= Occ(v, r)
  /\ \A i \in DOMAIN v : v[i] \notin Reserved

(* m with one more reference, on a register that may be written.           *)
Took(m, g) ==
  /\ g.reg \in Reg \ Reserved
  /\ Good(g.map)
  /\ g.map.count = [m.count EXCEPT ![g.reg] = @ + 1]

LEMMA RegFacts ==
  /\ RZ \in Reg /\ RA \in Reg /\ RS \in Reg /\ RD \in Reg /\ RP \in Reg
  /\ RA \notin Reserved
  /\ Reserved \subseteq Reg
  /\ NReg \in Nat
BY NRegAssumption DEF Reg, RZ, RA, RS, RD, RP, Reserved

-----------------------------------------------------------------------------
(***************************************************************************)
(* Counting results.                                                       *)
(***************************************************************************)
LEMMA PlacesFinite ==
  ASSUME NEW v \in Seq(Reg), NEW r
  PROVE  IsFiniteSet(Places(v, r)) /\ Occ(v, r) \in Nat
<1>1. IsFiniteSet(1 .. Len(v))
  BY FS_Interval
<1>2. Places(v, r) \subseteq 1 .. Len(v)
  BY DEF Places
<1>3. IsFiniteSet(Places(v, r))
  BY <1>1, <1>2, FS_Subset
<1> QED
  BY <1>3, FS_CardinalityType DEF Occ

(* One result more.                                                        *)
LEMMA OccCons ==
  ASSUME NEW v \in Seq(Reg), NEW x \in Reg, NEW r \in Reg
  PROVE  /\ <<x>> \o v \in Seq(Reg)
         /\ Occ(<<x>> \o v, r) = Occ(v, r) + One(x, r)
<1> DEFINE w == <<x>> \o v
           Up == {i + 1 : i \in Places(v, r)}
           f == [i \in Places(v, r) |-> i + 1]
<1>1. /\ w \in Seq(Reg)
      /\ Len(w) = Len(v) + 1
      /\ w[1] = x
      /\ \A i \in 1 .. Len(v) : w[i + 1] = v[i]
  OBVIOUS
<1>2. Places(v, r) \subseteq 1 .. Len(v) /\ Len(v) \in Nat
  BY DEF Places
<1>3. IsFiniteSet(Up) /\ Cardinality(Up) = Occ(v, r)
  <2>1. f \in [Places(v, r) -> Up]
    OBVIOUS
  <2>2. IsInjective(f)
    BY <1>2 DEF IsInjective
  <2>3. \A t \in Up : \E i \in Places(v, r) : f[i] = t
    OBVIOUS
  <2>4. ExistsBijection(Places(v, r), Up)
    BY <2>1, <2>2, <2>3 DEF ExistsBijection, Bijection, Injection, Surjection
  <2> QED
    BY <2>4, PlacesFinite, FS_Bijection DEF Occ
<1>4. 1 \notin Up
  BY <1>2
<1>5. \A i \in 2 .. Len(v) + 1 : w[i] = v[i - 1]
  BY <1>1, <1>2
<1>6. Places(w, r) = IF x = r THEN Up \cup {1} ELSE Up
  <2>1. DOMAIN w = 1 .. Len(v) + 1
    BY <1>1
  <2>2. Places(w, r) \subseteq Up \cup {1}
    <3>1. SUFFICES ASSUME NEW i \in Places(w, r), i # 1 PROVE i \in Up
      OBVIOUS
    <3>2. i \in 2 .. Len(v) + 1 /\ w[i] = r
      BY <2>1, <3>1, <1>2 DEF Places
    <3>3. i - 1 \in Places(v, r)
      BY <3>2, <1>5, <1>2 DEF Places
    <3> QED
      BY <3>2, <3>3
  <2>3. Up \subseteq Places(w, r)
    BY <2>1, <1>1, <1>2 DEF Places
  <2>4. 1 \in Places(w, r) <=> x = r
    BY <2>1, <1>1, <1>2 DEF Places
  <2> QED
    BY <2>2, <2>3, <2>4
<1>7. Cardinality(Places(w, r)) = Occ(v, r) + One(x, r)
  <2>1. CASE x = r
    <3>1. Cardinality(Up \cup {1}) = Cardinality(Up) + 1
      BY <1>3, <1>4, FS_AddElement
    <3> HIDE DEF Up
    <3> QED
      BY <2>1, <3>1, <1>3, <1>6 DEF One
  <2>2. CASE x # r
    <3> HIDE DEF Up
    <3> QED
      BY <2>2, <1>3, <1>6, PlacesFinite DEF One
  <2> QED
    BY <2>1, <2>2
<1> QED
  BY <1>1, <1>7 DEF Occ

LEMMA ConsOfTail ==
  ASSUME NEW v \in Seq(Reg), v # << >>
  PROVE  Head(v) \in Reg /\ Tail(v) \in Seq(Reg) /\ v = <<Head(v)>> \o Tail(v)
OBVIOUS

LEMMA OccTail ==
  ASSUME NEW v \in Seq(Reg), v # << >>, NEW r \in Reg
  PROVE  Occ(v, r) = Occ(Tail(v), r) + One(Head(v), r)
<1>1. Head(v) \in Reg /\ Tail(v) \in Seq(Reg) /\ v = <<Head(v)>> \o Tail(v)
  BY ConsOfTail
<1>2. Occ(<<Head(v)>> \o Tail(v), r) = Occ(Tail(v), r) + One(Head(v), r)
  BY <1>1, OccCons
<1> QED
  BY <1>1, <1>2

-----------------------------------------------------------------------------
(***************************************************************************)
(* What the methods of the context do to its books.                        *)
(***************************************************************************)
LEMMA AsRecord ==
  ASSUME NEW m \in Context
  PROVE  /\ m = [count |-> m.count, stat |-> m.stat, queue |-> m.queue]
         /\ m.count \in [Reg -> Nat] /\ m.stat \in [Reg -> Tag] /\ m.queue \in Seq(Reg)
BY DEF Context

LEMMA AddRefGood ==
  ASSUME NEW m, Good(m), NEW r \in Reg
  PROVE  /\ Good(AddRef(m, r))
         /\ AddRef(m, r).count = [m.count EXCEPT ![r] = @ + 1]
<1> DEFINE n == [m.count EXCEPT ![r] = @ + 1]
           w == AddRef(m, r)
<1>1. w = [m EXCEPT !.count = n]
  BY DEF AddRef
<1>2. w = [count |-> n, stat |-> m.stat, queue |-> m.queue]
  BY <1>1, AsRecord DEF Good
<1>3. n \in [Reg -> Nat] /\ \A x \in Reg : n[x] >= m.count[x]
  BY AsRecord DEF Good
<1>4. n[r] # 0 /\ \A x \in Reg \ {r} : n[x] = m.count[x]
  BY AsRecord DEF Good
<1> HIDE DEF n
<1>5. w \in Context
  BY <1>2, <1>3, AsRecord DEF Good, Context
<1>6. \A x \in Reg : n[x] = 0 \/ x \in Reserved => x \in InQueue(m)
  BY <1>4 DEF Good
<1>7. \A x \in Reserved : n[x] >= 1 /\ m.stat[x] = NoTag
  BY <1>3, AsRecord, RegFacts DEF Good
<1> QED
  BY <1>2, <1>5, <1>6, <1>7 DEF Good, InQueue, n

LEMMA ReleaseGood ==
  ASSUME NEW m, Good(m), NEW r \in Reg \ Reserved, m.count[r] >= 1
  PROVE  /\ Good(Release(m, r))
         /\ Release(m, r).count = [m.count EXCEPT ![r] = @ - 1]
<1> DEFINE n == [m.count EXCEPT ![r] = @ - 1]
           q == IF n[r] = 0 THEN Append(m.queue, r) ELSE m.queue
           w == Release(m, r)
<1>0. w = [m EXCEPT !.count = n, !.queue = q]
  BY DEF Release
<1>1. w = [count |-> n, stat |-> m.stat, queue |-> q]
  BY <1>0, AsRecord DEF Good
<1>2. n \in [Reg -> Nat] /\ q \in Seq(Reg)
  BY DEF Good, Context
<1>3. \A x \in InQueue(m) : x \in InQueue(w)
  <2>1. \A i \in DOMAIN m.queue : i \in DOMAIN q /\ q[i] = m.queue[i]
    <3>1. m.queue \in Seq(Reg)
      BY AsRecord DEF Good
    <3>2. ASSUME NEW u \in Seq(Reg)
          PROVE  \A i \in DOMAIN u : i \in DOMAIN Append(u, r) /\ Append(u, r)[i] = u[i]
      OBVIOUS
    <3> QED
      BY <3>1, <3>2
  <2>2. w.queue = q
    BY <1>1
  <2> HIDE DEF q, w
  <2> QED
    BY <2>1, <2>2 DEF InQueue
<1>4. n[r] = 0 => r \in InQueue(w)
  <2>1. CASE n[r] = 0
    <3>1. q[Len(m.queue) + 1] = r /\ Len(m.queue) + 1 \in DOMAIN q
      BY <2>1 DEF Good, Context
    <3> QED
      BY <1>1, <3>1 DEF InQueue
  <2> QED
    BY <2>1
<1>5. \A x \in Reg \ {r} : n[x] = m.count[x]
  BY DEF Good, Context
<1>6. ASSUME NEW x \in Reg, n[x] = 0 \/ x \in Reserved PROVE x \in InQueue(w)
  BY <1>3, <1>4, <1>5, <1>6 DEF Good
<1> HIDE DEF n, q
<1>7. w \in Context
  BY <1>1, <1>2, AsRecord DEF Good, Context
<1>8. \A x \in Reserved : n[x] >= 1 /\ m.stat[x] = NoTag
  BY <1>5, RegFacts DEF Good
<1>9. Good(w)
  BY <1>1, <1>6, <1>7, <1>8 DEF Good
<1>10. w.count = n
  BY <1>1
<1> QED
  BY <1>9, <1>10 DEF n

LEMMA MarkGood ==
  ASSUME NEW m, Good(m), NEW tag \in Tag, NEW r \in Reg \ Reserved
  PROVE  /\ Good(MarkRegister(m, tag, r))
         /\ MarkRegister(m, tag, r).count = m.count
BY RegFacts DEF MarkRegister, Good, Context, InQueue

(* Going round the queue keeps what is in it.                              *)
LEMMA TurnedQueue ==
  ASSUME NEW q \in Seq(Reg), q # << >>, NEW k \in Nat
  PROVE  /\ Turned(q, k) \in Seq(Reg)
         /\ Turned(q, k) # << >>
         /\ \A i \in DOMAIN q : \E j \in DOMAIN Turned(q, k) : Turned(q, k)[j] = q[i]
<1> DEFINE n == k % Len(q)
           a == SubSeq(q, n + 1, Len(q))
           b == SubSeq(q, 1, n)
<1>1. Len(q) \in Nat \ {0} /\ n \in 0 .. Len(q) - 1
  OBVIOUS
<1>2. /\ a \in Seq(Reg) /\ Len(a) = Len(q) - n
      /\ \A j \in 1 .. Len(q) - n : a[j] = q[n + j]
  <2> HIDE DEF n
  <2> QED
    BY <1>1
<1>3. /\ b \in Seq(Reg) /\ Len(b) = n
      /\ \A j \in 1 .. n : b[j] = q[j]
  <2> HIDE DEF n
  <2> QED
    BY <1>1
<1>4. Turned(q, k) = a \o b
  BY DEF Turned
<1> HIDE DEF n, a, b
<1>5. /\ a \o b \in Seq(Reg)
      /\ Len(a \o b) = Len(q)
      /\ \A j \in 1 .. Len(q) - n : (a \o b)[j] = a[j]
      /\ \A j \in Len(q) - n + 1 .. Len(q) : (a \o b)[j] = b[j - (Len(q) - n)]
  <2>1. /\ a \o b \in Seq(Reg)
        /\ Len(a \o b) = Len(a) + Len(b)
        /\ \A j \in 1 .. Len(a) : (a \o b)[j] = a[j]
        /\ \A j \in Len(a) + 1 .. Len(a) + Len(b) : (a \o b)[j] = b[j - Len(a)]
    BY <1>2, <1>3
  <2>2. Len(a) + Len(b) = Len(q)
    BY <1>1, <1>2, <1>3
  <2> QED
    BY <2>1, <2>2, <1>2
<1> DEFINE c == a \o b
<1>7. DOMAIN c = 1 .. Len(q) /\ DOMAIN q = 1 .. Len(q)
  BY <1>5
<1> HIDE DEF c
<1>6. ASSUME NEW i \in DOMAIN q PROVE \E j \in DOMAIN c : c[j] = q[i]
  <2>1. CASE i <= n
    <3>1. Len(q) - n + i \in Len(q) - n + 1 .. Len(q)
      BY <2>1, <1>1, <1>7
    <3>2. c[Len(q) - n + i] = b[i]
      <4>1. c[Len(q) - n + i] = b[(Len(q) - n + i) - (Len(q) - n)]
        BY <3>1, <1>5 DEF c
      <4>2. (Len(q) - n + i) - (Len(q) - n) = i
        BY <1>1, <1>7
      <4> QED
        BY <4>1, <4>2
    <3>3. b[i] = q[i]
      BY <2>1, <1>1, <1>3, <1>7
    <3> QED
      BY <3>1, <3>2, <3>3, <1>1, <1>7
  <2>2. CASE i > n
    <3>1. i - n \in 1 .. Len(q) - n
      BY <2>2, <1>1, <1>7
    <3>2. c[i - n] = a[i - n]
      BY <3>1, <1>5 DEF c
    <3>3. a[i - n] = q[i]
      BY <3>1, <1>1, <1>2, <1>7
    <3> QED
      BY <3>1, <3>2, <3>3, <1>1, <1>7
  <2> QED
    BY <2>1, <2>2, <1>1, <1>7
<1>8. c \in Seq(Reg) /\ c # << >>
  BY <1>1, <1>5, <1>7 DEF c
<1> QED
  BY <1>4, <1>6, <1>8 DEF c

LEMMA FoundQueue ==
  ASSUME NEW q \in Seq(Reg), q # << >>, NEW S, NEW p \in Found(q, S)
  PROVE  /\ p \in Seq(Reg) /\ p # << >> /\ Head(p) \in S
         /\ \A i \in DOMAIN q : \E j \in DOMAIN p : p[j] = q[i]
<1>1. PICK k \in 0 .. NReg - 1 : p = Turned(q, k) /\ Head(p) \in S
  BY DEF Found
<1> QED
  BY <1>1, TurnedQueue, RegFacts

(* A register from the queue had no reference and is not a reserved one.   *)
LEMMA TakenGood ==
  ASSUME NEW m, Good(m), NEW g \in Taken(m)
  PROVE  Took(m, g)
<1> DEFINE q == m.queue
<1>1. q \in Seq(Reg) /\ q # << >>
  <2>1. RZ \in InQueue(m)
    BY RegFacts DEF Good, Reserved
  <2> QED
    BY <2>1, AsRecord DEF Good, InQueue
<1>2. PICK p : p \in Queues(m) /\ g = [reg |-> Head(p), map |-> AddRef([m EXCEPT !.queue = Tail(p)], Head(p))]
  BY DEF Taken
<1>3. /\ p \in Seq(Reg) /\ p # << >> /\ Head(p) \in Free(m)
      /\ \A i \in DOMAIN q : \E j \in DOMAIN p : p[j] = q[i]
  <2>1. CASE p \in Found(q, Clean(m))
    BY <2>1, <1>1, FoundQueue DEF Clean
  <2>2. CASE p \in Found(Turned(q, NReg), Free(m))
    <3> DEFINE t == Turned(q, NReg)
    <3>1. /\ t \in Seq(Reg) /\ t # << >>
          /\ \A i \in DOMAIN q : \E j \in DOMAIN t : t[j] = q[i]
      BY <1>1, TurnedQueue, RegFacts
    <3> HIDE DEF t
    <3>2. /\ p \in Seq(Reg) /\ p # << >> /\ Head(p) \in Free(m)
          /\ \A i \in DOMAIN t : \E j \in DOMAIN p : p[j] = t[i]
      BY <2>2, <3>1, FoundQueue DEF t
    <3>3. ASSUME NEW i \in DOMAIN q PROVE \E j \in DOMAIN p : p[j] = q[i]
      <4>1. PICK j \in DOMAIN t : t[j] = q[i]
        BY <3>1
      <4>2. PICK l \in DOMAIN p : p[l] = t[j]
        BY <3>2
      <4> QED
        BY <4>1, <4>2
    <3> QED
      BY <3>2, <3>3
  <2> QED
    BY <1>2, <2>1, <2>2 DEF Queues
<1> DEFINE r == Head(p)
           n == [m.count EXCEPT ![r] = @ + 1]
           w == [count |-> n, stat |-> m.stat, queue |-> Tail(p)]
<1>4. r \in Reg /\ m.count[r] = 0 /\ r \notin Reserved
  BY <1>3, RegFacts DEF Free, Good
<1>5. g.reg = r /\ g.map = w
  <2>0. ASSUME NEW u PROVE [m EXCEPT !.queue = u] = [count |-> m.count, stat |-> m.stat, queue |-> u]
    BY AsRecord DEF Good
  <2>1. [m EXCEPT !.queue = Tail(p)] = [count |-> m.count, stat |-> m.stat, queue |-> Tail(p)]
    BY <2>0
  <2> QED
    BY <1>2, <2>1 DEF AddRef
<1>6. n \in [Reg -> Nat] /\ n[r] = 1 /\ \A x \in Reg \ {r} : n[x] = m.count[x]
  BY <1>4, AsRecord DEF Good
<1>7. w \in Context
  BY <1>3, <1>6, AsRecord, ConsOfTail DEF Good, Context
<1>8. ASSUME NEW x \in Reg, n[x] = 0 \/ x \in Reserved PROVE x \in InQueue(w)
  <2>1. x # r /\ x \in InQueue(m)
    BY <1>4, <1>6, <1>8 DEF Good
  <2>2. PICK j \in DOMAIN p : p[j] = x
    BY <1>3, <2>1 DEF InQueue
  <2>3. j - 1 \in DOMAIN Tail(p) /\ Tail(p)[j - 1] = x
    BY <1>3, <2>1, <2>2
  <2> QED
    BY <2>3 DEF InQueue
<1>9. \A x \in Reserved : n[x] >= 1 /\ m.stat[x] = NoTag
  BY <1>4, <1>6, RegFacts DEF Good
<1> HIDE DEF n
<1>10. Good(w)
  BY <1>7, <1>8, <1>9 DEF Good
<1> HIDE DEF w
<1> QED
  BY <1>4, <1>5, <1>10 DEF Took, w, n

LEMMA GetRegBinOpGood ==
  ASSUME NEW m, Good(m), NEW g \in GetRegBinOp(m)
  PROVE  Took(m, g)
<1>1. PICK h \in Taken(m) : g = [reg |-> h.reg, map |-> MarkRegister(h.map, NoTag, h.reg)]
  BY DEF GetRegBinOp
<1>2. Took(m, h)
  BY <1>1, TakenGood
<1>3. /\ Good(MarkRegister(h.map, NoTag, h.reg))
      /\ MarkRegister(h.map, NoTag, h.reg).count = h.map.count
  <2>1. NoTag \in Tag
    BY DEF Tag
  <2>2. h.reg \in Reg \ Reserved /\ Good(h.map)
    BY <1>2 DEF Took
  <2> QED
    BY <2>1, <2>2, MarkGood
<1> QED
  BY <1>1, <1>2, <1>3 DEF Took

LEMMA GetRegConstGood ==
  ASSUME NEW m, Good(m), NEW tag, tag # NoTag, NEW g \in GetRegConst(m, tag)
  PROVE  Took(m, g)
<1>1. CASE Holding(m, tag) = {}
  BY <1>1, TakenGood DEF GetRegConst
<1>2. CASE Holding(m, tag) # {}
  <2>1. PICK r \in Holding(m, tag) : g = [reg |-> r, map |-> AddRef(m, r)]
    BY <1>2 DEF GetRegConst
  <2>2. r \in Reg \ Reserved
    BY <2>1 DEF Holding, Good
  <2> QED
    BY <2>1, <2>2, AddRefGood DEF Took
<1> QED
  BY <1>1, <1>2

-----------------------------------------------------------------------------
(***************************************************************************)
(* The books and the results that wait.                                    *)
(***************************************************************************)
LEMMA HeldTook ==
  ASSUME NEW m, Good(m), NEW v, Held(m, v), NEW g, Took(m, g)
  PROVE  Held(g.map, v) /\ Held(g.map, <<g.reg>> \o v)
<1>1. v \in Seq(Reg) /\ g.reg \in Reg /\ g.reg \notin Reserved
  BY DEF Held, Took
<1>2. ASSUME NEW r \in Reg
      PROVE  g.map.count[r] = m.count[r] + One(g.reg, r) /\ m.count[r] \in Nat
  BY AsRecord DEF Took, Good, One
<1>3. ASSUME NEW r \in Reg
      PROVE  g.map.count[r] >= Occ(v, r) /\ g.map.count[r] >= Occ(<<g.reg>> \o v, r)
  <2>1. Occ(v, r) \in Nat /\ Occ(<<g.reg>> \o v, r) = Occ(v, r) + One(g.reg, r)
    BY <1>1, PlacesFinite, OccCons
  <2>2. m.count[r] >= Occ(v, r)
    BY DEF Held
  <2>3. One(g.reg, r) \in {0, 1}
    BY DEF One
  <2> QED
    BY <1>2, <2>1, <2>2, <2>3
<1> DEFINE w == <<g.reg>> \o v
<1>4. w \in Seq(Reg) /\ \A i \in DOMAIN w : w[i] \notin Reserved
  <2>1. w \in Seq(Reg) /\ Len(w) = Len(v) + 1 /\ w[1] = g.reg /\ \A i \in 2 .. Len(v) + 1 : w[i] = v[i - 1]
    BY <1>1
  <2> HIDE DEF w
  <2>2. ASSUME NEW i \in DOMAIN w PROVE w[i] \notin Reserved
    <3>1. CASE i = 1
      BY <3>1, <2>1, <1>1
    <3>2. CASE i # 1
      <4>1. i \in 2 .. Len(v) + 1 /\ i - 1 \in DOMAIN v
        BY <3>2, <2>1, <1>1
      <4> QED
        BY <4>1, <2>1 DEF Held
    <3> QED
      BY <3>1, <3>2
  <2> QED
    BY <2>1, <2>2
<1> QED
  BY <1>1, <1>3, <1>4 DEF Held

(* The newest result is used.                                              *)
LEMMA HeldRelease ==
  ASSUME NEW m, Good(m), NEW v, Held(m, v), v # << >>
  PROVE  /\ Good(Release(m, Head(v)))
         /\ Held(Release(m, Head(v)), Tail(v))
<1> DEFINE x == Head(v)
           w == Release(m, x)
<1>1. v \in Seq(Reg) /\ x \in Reg \ Reserved /\ Tail(v) \in Seq(Reg)
  BY ConsOfTail DEF Held
<1>2. ASSUME NEW r \in Reg
      PROVE  /\ Occ(v, r) = Occ(Tail(v), r) + One(x, r) /\ Occ(Tail(v), r) \in Nat
             /\ m.count[r] >= Occ(v, r) /\ m.count[r] \in Nat
  BY <1>1, OccTail, PlacesFinite, AsRecord DEF Held, Good
<1>3. m.count[x] >= 1
  BY <1>1, <1>2 DEF One
<1>4. Good(w) /\ w.count = [m.count EXCEPT ![x] = @ - 1]
  BY <1>1, <1>3, ReleaseGood
<1>5. ASSUME NEW r \in Reg PROVE w.count[r] >= Occ(Tail(v), r)
  <2>1. w.count[r] = m.count[r] - One(x, r)
    BY <1>4, AsRecord DEF Good, One
  <2> QED
    BY <2>1, <1>2 DEF One
<1>6. \A i \in DOMAIN Tail(v) : Tail(v)[i] \notin Reserved
  BY <1>1 DEF Held
<1> QED
  BY <1>1, <1>4, <1>5, <1>6 DEF Held

(* The order of two results does not matter to the books.                  *)
LEMMA HeldSwap ==
  ASSUME NEW m, NEW v \in Seq(Reg), NEW a \in Reg, NEW b \in Reg,
         Held(m, <<a>> \o (<<b>> \o v))
  PROVE  Held(m, <<b>> \o (<<a>> \o v))
<1> DEFINE s == <<a>> \o (<<b>> \o v)
           t == <<b>> \o (<<a>> \o v)
<1>1. ASSUME NEW r \in Reg PROVE Occ(s, r) = Occ(t, r)
  <2>1. Occ(v, r) \in Nat /\ One(a, r) \in Nat /\ One(b, r) \in Nat
    BY PlacesFinite DEF One
  <2>2. /\ <<b>> \o v \in Seq(Reg) /\ Occ(<<b>> \o v, r) = Occ(v, r) + One(b, r)
        /\ <<a>> \o v \in Seq(Reg) /\ Occ(<<a>> \o v, r) = Occ(v, r) + One(a, r)
    BY OccCons
  <2>3. /\ Occ(s, r) = Occ(<<b>> \o v, r) + One(a, r)
        /\ Occ(t, r) = Occ(<<a>> \o v, r) + One(b, r)
    BY <2>2, OccCons
  <2> QED
    BY <2>1, <2>2, <2>3
<1>2. /\ s \in Seq(Reg) /\ Len(s) = Len(v) + 2 /\ s[1] = a /\ s[2] = b
      /\ \A i \in 3 .. Len(v) + 2 : s[i] = v[i - 2]
  OBVIOUS
<1>3. /\ t \in Seq(Reg) /\ Len(t) = Len(v) + 2 /\ t[1] = b /\ t[2] = a
      /\ \A i \in 3 .. Len(v) + 2 : t[i] = v[i - 2]
  OBVIOUS
<1> HIDE DEF s, t
<1>4. ASSUME NEW i \in DOMAIN t PROVE t[i] \notin Reserved
  <2>1. \A j \in DOMAIN s : s[j] \notin Reserved
    BY DEF Held, s
  <2>2. 1 \in DOMAIN s /\ 2 \in DOMAIN s /\ i \in DOMAIN s
    BY <1>2, <1>3
  <2>3. i = 1 \/ i = 2 \/ i \in 3 .. Len(v) + 2
    BY <1>3
  <2> QED
    BY <2>1, <2>2, <2>3, <1>2, <1>3
<1> QED
  BY <1>1, <1>3, <1>4 DEF Held, s, t

LEMMA HeldMore ==
  ASSUME NEW m, NEW v, Good(m), Held(m, v), NEW n, Good(n),
         \A r \in Reg : n.count[r] >= m.count[r]
  PROVE  Held(n, v)
<1>1. ASSUME NEW r \in Reg
      PROVE  /\ m.count[r] \in Nat /\ n.count[r] \in Nat /\ n.count[r] >= m.count[r]
             /\ m.count[r] >= Occ(v, r) /\ Occ(v, r) \in Nat
  BY AsRecord, PlacesFinite DEF Good, Held
<1>2. ASSUME NEW r \in Reg PROVE n.count[r] >= Occ(v, r)
  BY <1>1
<1> QED
  BY <1>2 DEF Held

(* Two results are used, the older one first, and g is taken in between.   *)
LEMMA HeldTwo ==
  ASSUME NEW m, NEW v, Good(m), Held(m, v), Len(v) >= 2
  PROVE  /\ Good(Release(m, v[2]))
         /\ \A g : Took(Release(m, v[2]), g) =>
              /\ Good(Release(g.map, v[1]))
              /\ Held(Release(g.map, v[1]), <<g.reg>> \o Tail(Tail(v)))
         /\ Good(Release(Release(m, v[2]), v[1]))
         /\ Held(Release(Release(m, v[2]), v[1]), Tail(Tail(v)))
<1> DEFINE a == v[2]
           b == v[1]
           w == Tail(Tail(v))
           n == Release(m, a)
<1>0. v \in Seq(Reg)
  BY DEF Held
<1>1. a \in Reg /\ b \in Reg /\ w \in Seq(Reg) /\ v = <<b>> \o (<<a>> \o w)
  <2>0. /\ Len(v) \in Nat /\ Tail(v) \in Seq(Reg) /\ Len(Tail(v)) = Len(v) - 1
        /\ Tail(v)[1] = v[2]
    BY <1>0
  <2>1. v # << >> /\ Tail(v) # << >> /\ Head(v) = b /\ Head(Tail(v)) = a
    <3>1. ASSUME NEW u \in Seq(Reg), Len(u) >= 1 PROVE u # << >> /\ Head(u) = u[1]
      BY <3>1
    <3>2. Len(v) >= 1 /\ Len(Tail(v)) >= 1
      BY <2>0
    <3>3. v # << >> /\ Head(v) = v[1]
      BY <1>0, <3>1, <3>2
    <3>4. Tail(v) # << >> /\ Head(Tail(v)) = Tail(v)[1]
      BY <2>0, <3>1, <3>2
    <3> QED
      BY <2>0, <3>3, <3>4
  <2>2. /\ b \in Reg /\ Tail(v) \in Seq(Reg) /\ v = <<b>> \o Tail(v)
        /\ a \in Reg /\ w \in Seq(Reg) /\ Tail(v) = <<a>> \o w
    <3> HIDE DEF a, b
    <3> QED
      BY <1>0, <2>1, ConsOfTail
  <2> QED
    BY <2>2
<1> HIDE DEF a, b, w, n
<1>2. ASSUME NEW x \in Reg, NEW u \in Seq(Reg)
      PROVE  <<x>> \o u # << >> /\ Head(<<x>> \o u) = x /\ Tail(<<x>> \o u) = u
  OBVIOUS
<1>3. <<b>> \o w \in Seq(Reg)
  BY <1>1
<1>4. Held(m, <<a>> \o (<<b>> \o w))
  BY <1>1, HeldSwap
<1>5. Good(n) /\ Held(n, <<b>> \o w)
  <2> DEFINE u == <<a>> \o (<<b>> \o w)
  <2>1. u # << >> /\ Head(u) = a /\ Tail(u) = <<b>> \o w
    BY <1>1, <1>2, <1>3
  <2> HIDE DEF u
  <2> QED
    BY <1>4, <2>1, HeldRelease DEF n, u
<1>6. Good(Release(n, b)) /\ Held(Release(n, b), w)
  <2> DEFINE u == <<b>> \o w
  <2>1. u # << >> /\ Head(u) = b /\ Tail(u) = w
    BY <1>1, <1>2
  <2> HIDE DEF u
  <2> QED
    BY <1>5, <2>1, HeldRelease DEF u
<1>7. ASSUME NEW g, Took(n, g)
      PROVE  Good(Release(g.map, b)) /\ Held(Release(g.map, b), <<g.reg>> \o w)
  <2> DEFINE u == <<b>> \o (<<g.reg>> \o w)
  <2>1. g.reg \in Reg /\ Good(g.map)
    BY <1>7 DEF Took
  <2>2. Held(g.map, <<g.reg>> \o (<<b>> \o w))
    BY <1>3, <1>5, <1>7, HeldTook
  <2>3. Held(g.map, u)
    BY <1>1, <2>1, <2>2, HeldSwap
  <2>4. u # << >> /\ Head(u) = b /\ Tail(u) = <<g.reg>> \o w
    BY <1>1, <1>2, <2>1
  <2> HIDE DEF u
  <2> QED
    BY <2>1, <2>3, <2>4, HeldRelease
<1> QED
  BY <1>5, <1>6, <1>7 DEF a, b, w, n

-----------------------------------------------------------------------------
(***************************************************************************)
(* The code.                                                               *)
(***************************************************************************)
(* An instruction that leaves the reserved registers alone.                *)
Safe(i) ==
  \/ i.op \in Silent
  \/ i.dst \notin Reserved
  \/ i.op \in {"cmz", "jump"} /\ i.dst = RP

SafeCode(c) == \E S : c \in Seq(S) /\ \A i \in S : Safe(i)

LEMMA SeqJoin ==
  ASSUME NEW S, NEW T, NEW c \in Seq(S), NEW d \in Seq(T)
  PROVE  c \o d \in Seq(S \cup T)
<1>1. c \in Seq(S \cup T) /\ d \in Seq(S \cup T)
  <2>1. Len(c) \in Nat /\ DOMAIN c = 1 .. Len(c) /\ \A k \in 1 .. Len(c) : c[k] \in S
    OBVIOUS
  <2>2. Len(d) \in Nat /\ DOMAIN d = 1 .. Len(d) /\ \A k \in 1 .. Len(d) : d[k] \in T
    OBVIOUS
  <2> QED
    BY <2>1, <2>2
<1> QED
  BY <1>1

LEMMA CodeJoin ==
  ASSUME NEW c, NEW d, SafeCode(c), SafeCode(d)
  PROVE  SafeCode(c \o d)
<1>1. PICK S : c \in Seq(S) /\ \A i \in S : Safe(i)
  BY DEF SafeCode
<1>2. PICK T : d \in Seq(T) /\ \A i \in T : Safe(i)
  BY DEF SafeCode
<1>3. c \o d \in Seq(S \cup T)
  BY <1>1, <1>2, SeqJoin
<1> QED
  BY <1>1, <1>2, <1>3 DEF SafeCode

LEMMA CodeShort ==
  ASSUME NEW i, NEW j, NEW k, Safe(i), Safe(j), Safe(k)
  PROVE  /\ SafeCode(<< >>) /\ SafeCode(<<i>>)
         /\ SafeCode(<<i, j>>) /\ SafeCode(<<i, j, k>>)
<1> DEFINE S == {i, j, k}
<1>1. << >> \in Seq(S) /\ <<i>> \in Seq(S) /\ <<i, j>> \in Seq(S) /\ <<i, j, k>> \in Seq(S)
  OBVIOUS
<1>2. \A x \in S : Safe(x)
  OBVIOUS
<1> HIDE DEF S
<1>3. ASSUME NEW c \in Seq(S) PROVE SafeCode(c)
  BY <1>2 DEF SafeCode
<1> QED
  BY <1>1, <1>3

LEMMA CodeAppend ==
  ASSUME NEW c, SafeCode(c), NEW i, Safe(i)
  PROVE  SafeCode(Append(c, i))
<1>1. PICK S : c \in Seq(S) /\ \A x \in S : Safe(x)
  BY DEF SafeCode
<1>2. c \in Seq(S \cup {i})
  BY <1>1
<1>3. Append(c, i) \in Seq(S \cup {i})
  BY <1>2
<1> QED
  BY <1>1, <1>3 DEF SafeCode

(* Every instruction the walk writes.                                      *)
LEMMA InsSafe ==
  ASSUME NEW l, NEW r \in Reg \ Reserved, NEW d, NEW s, NEW t, NEW n, NEW op
  PROVE  /\ Safe(SetTo(r, n)) /\ Safe(Move(r, s)) /\ Safe(LoadQ(r, s))
         /\ Safe(Compute(op, r, s, t)) /\ Safe(StoreQ(d, s))
         /\ Safe(IfZero(d, l)) /\ Safe(Jump(l)) /\ Safe(Label(l))
         /\ Safe(CallPrint) /\ Safe(Nop)
BY DEF Safe, SetTo, Move, LoadQ, Compute, StoreQ, IfZero, Jump, Label, CallPrint, Nop, Ins, Silent

-----------------------------------------------------------------------------
(***************************************************************************)
(* What is still to be done.                                               *)
(***************************************************************************)
OkTask(t) ==
  /\ t.do \in {"produce", "finish"} => t.node \in Trees
  /\ t.do = "emit" => SafeCode(t.code)

TodoOk(q) == \E T : q \in Seq(T) /\ \A t \in T : OkTask(t)

LEMMA TodoNext ==
  ASSUME NEW q, TodoOk(q), q # << >>, NEW T, NEW p \in Seq(T), \A t \in T : OkTask(t)
  PROVE  TodoOk(p \o Tail(q))
<1>1. PICK U : q \in Seq(U) /\ \A t \in U : OkTask(t)
  BY DEF TodoOk
<1>2. Tail(q) \in Seq(U)
  BY <1>1
<1>3. p \o Tail(q) \in Seq(T \cup U)
  BY <1>2, SeqJoin
<1> QED
  BY <1>1, <1>3 DEF TodoOk

LEMMA TodoHead ==
  ASSUME NEW q, TodoOk(q), q # << >>
  PROVE  OkTask(Head(q)) /\ TodoOk(<< >> \o Tail(q))
<1>1. PICK U : q \in Seq(U) /\ \A t \in U : OkTask(t)
  BY DEF TodoOk
<1>2. Head(q) \in U /\ << >> \in Seq(U)
  BY <1>1
<1> QED
  BY <1>1, <1>2, TodoNext

-----------------------------------------------------------------------------
(***************************************************************************)
(* The inductive invariant.                                                *)
(***************************************************************************)
IInv == Good(map) /\ Held(map, vals) /\ TodoOk(todo) /\ SafeCode(out)

(* A tree's node, and what is below it.                                    *)
LEMMA KidOf ==
  ASSUME NEW n \in Trees, NEW i \in 1 .. Len(n.kids)
  PROVE  n.kids[i] \in Trees
BY TreeAssumption

LEMMA TagsOf ==
  ASSUME NEW n \in Trees
  PROVE  /\ ConstTag(n.num) \in Tag \ {NoTag}
         /\ n.kind = "var" => VarTag(n.var) \in Tag \ {NoTag}
<1>1. n.num \in Int /\ (n.kind = "var" => n.var \in Var)
  BY TreeAssumption
<1> DEFINE C == {"const"} \X Int \X {""}
           V == {"var"} \X {0} \X Var
<1>2. ASSUME NEW x \in Int PROVE <<"const", x, "">> \in C
  BY Zenon
<1>3. ASSUME NEW x \in Var PROVE <<"var", 0, x>> \in V
  BY Zenon
<1>5. ASSUME NEW x, NEW y, NEW z PROVE <<x, y, z>> # << >>
  OBVIOUS
<1>4. Tag = {NoTag} \cup C \cup V
  BY DEF Tag
<1> HIDE DEF C, V
<1> QED
  BY <1>1, <1>2, <1>3, <1>4, <1>5, Zenon DEF ConstTag, VarTag, NoTag

LEMMA PreparedGood ==
  ASSUME NEW n \in Trees
  PROVE  Good(Prepared(n)) /\ Held(Prepared(n), << >>)
<1> DEFINE c == [r \in Reg |-> IF r \in Reserved THEN 1 ELSE IF r = RA THEN n.prevs ELSE 0]
           q == [i \in 1 .. NReg |-> i - 1]
           m == Prepared(n)
<1>1. n.prevs \in Nat
  BY TreeAssumption
<1>2. c \in [Reg -> Nat] /\ q \in Seq(Reg)
  BY <1>1, NRegAssumption DEF Reg
<1>3. m = [count |-> c, stat |-> [r \in Reg |-> NoTag], queue |-> q]
  <2>1. Fresh = [count |-> [r \in Reg |-> 0], stat |-> [r \in Reg |-> NoTag], queue |-> q]
    BY DEF Fresh
  <2>2. m = [Fresh EXCEPT !.count = c]
    BY DEF Prepared
  <2> HIDE DEF c, q, m
  <2> QED
    BY <2>1, <2>2
<1>4. m \in Context
  <2> HIDE DEF c, q, m
  <2> QED
    BY <1>2, <1>3 DEF Context, Tag
<1>5. \A r \in Reg : r \in InQueue(m)
  <2>1. \A r \in Reg : r + 1 \in DOMAIN q /\ q[r + 1] = r
    BY NRegAssumption DEF Reg
  <2> HIDE DEF c, q, m
  <2> QED
    BY <1>3, <2>1 DEF InQueue
<1>6. \A r \in Reserved : m.count[r] >= 1 /\ m.stat[r] = NoTag
  BY <1>3, RegFacts
<1>7. ASSUME NEW r \in Reg PROVE Occ(<< >>, r) = 0
  <2>1. Places(<< >>, r) = {}
    BY DEF Places
  <2> QED
    BY <2>1, FS_EmptySet DEF Occ
<1>8. \A r \in Reg : m.count[r] >= 0
  BY <1>2, <1>3
<1> HIDE DEF m
<1> QED
  BY <1>4, <1>5, <1>6, <1>7, <1>8 DEF Good, Held, m

LEMMA InitIInv == Init => IInv
<1> SUFFICES ASSUME Init PROVE IInv
  OBVIOUS
<1>1. tree \in Trees
  BY TreeAssumption DEF Init
<1>2. TodoOk(todo)
  <2> DEFINE p == Produce(tree, TRUE)
  <2>1. OkTask(p)
    BY <1>1 DEF OkTask, Produce
  <2>2. todo = <<p>>
    BY DEF Init
  <2> HIDE DEF p
  <2>3. todo \in Seq({p}) /\ \A t \in {p} : OkTask(t)
    BY <2>1, <2>2
  <2> QED
    BY <2>3 DEF TodoOk
<1>3. SafeCode(out)
  <2>1. Safe(Nop)
    BY DEF Safe, Nop, Ins, Silent
  <2> QED
    BY <2>1, CodeShort DEF Init
<1> QED
  BY <1>1, <1>2, <1>3, PreparedGood DEF Init, IInv

(* A task that is done, or replaced by others.                             *)
LEMMA TaskFacts ==
  ASSUME IInv, todo # << >>
  PROVE  /\ OkTask(Task)
         /\ Then(<< >>) => TodoOk(todo')
         /\ \A p : (\E T : p \in Seq(T) /\ \A t \in T : OkTask(t)) /\ Then(p) => TodoOk(todo')
<1>1. OkTask(Task) /\ TodoOk(<< >> \o Tail(todo))
  BY TodoHead DEF IInv, Task
<1>2. ASSUME NEW p, NEW T, p \in Seq(T), \A t \in T : OkTask(t)
      PROVE  TodoOk(p \o Tail(todo))
  BY <1>2, TodoNext DEF IInv
<1> QED
  BY <1>1, <1>2 DEF Then

(* An action that only plans keeps the invariant.                          *)
LEMMA PlanKeeps ==
  ASSUME IInv, todo # << >>, NEW T, NEW p \in Seq(T), \A t \in T : OkTask(t), Plan(p)
  PROVE  IInv'
<1>1. TodoOk(todo')
  BY TaskFacts DEF Plan
<1> QED
  BY <1>1 DEF IInv, Plan

LEMMA NodeOf ==
  ASSUME IInv, todo # << >>, Task.do \in {"produce", "finish"}
  PROVE  /\ Task.node \in Trees
         /\ \A i \in 1 .. Len(Task.node.kids), b \in BOOLEAN :
              Kid(i) \in Trees /\ OkTask(Produce(Kid(i), b))
         /\ OkTask(Finish(Task.node, Task.root)) /\ OkTask(Finish(Task.node, FALSE))
<1>1. Task.node \in Trees
  BY TaskFacts DEF OkTask
<1>2. ASSUME NEW i \in 1 .. Len(Task.node.kids) PROVE Kid(i) \in Trees
  BY <1>1, KidOf DEF Kid
<1>3. ASSUME NEW n \in Trees, NEW b PROVE OkTask(Produce(n, b)) /\ OkTask(Finish(n, b))
  BY <1>3 DEF OkTask, Produce, Finish
<1> QED
  BY <1>1, <1>2, <1>3

LEMMA FillKeeps ==
  ASSUME IInv, todo # << >>, NEW tag \in Tag \ {NoTag},
         NEW code, \A r \in Reg \ Reserved : SafeCode(code[r]), Fill(tag, code)
  PROVE  IInv'
<1>1. PICK g \in (IF Task.root THEN Given(map) ELSE GetRegConst(map, tag)) :
        /\ IF g.map.stat[g.reg] = tag
             THEN map' = g.map /\ out' = out
             ELSE map' = MarkRegister(g.map, tag, g.reg) /\ out' = out \o code[g.reg]
        /\ vals' = IF Task.root THEN vals ELSE <<g.reg>> \o vals
        /\ Then(<< >>)
  BY DEF Fill
<1>2. Good(map) /\ Held(map, vals) /\ SafeCode(out)
  BY DEF IInv
<1>3. Good(g.map) /\ g.reg \in Reg \ Reserved /\ Held(g.map, vals')
  <2>1. CASE Task.root
    BY <1>1, <1>2, <2>1, RegFacts DEF Given
  <2>2. CASE ~Task.root
    <3>1. Took(map, g)
      BY <1>1, <1>2, <2>2, GetRegConstGood
    <3> QED
      BY <1>1, <1>2, <2>2, <3>1, HeldTook DEF Took
  <2> QED
    BY <2>1, <2>2
<1>4. /\ Good(MarkRegister(g.map, tag, g.reg))
      /\ MarkRegister(g.map, tag, g.reg).count = g.map.count
  BY <1>3, MarkGood
<1>5. Held(MarkRegister(g.map, tag, g.reg), vals')
  BY <1>3, <1>4 DEF Held
<1>6. Good(map') /\ Held(map', vals')
  BY <1>1, <1>3, <1>4, <1>5
<1>7. SafeCode(out')
  BY <1>1, <1>2, <1>3, CodeJoin
<1>8. TodoOk(todo')
  BY <1>1, TaskFacts
<1> QED
  BY <1>6, <1>7, <1>8 DEF IInv

-----------------------------------------------------------------------------
(***************************************************************************)
(* One lemma for each action.                                              *)
(***************************************************************************)
LEMMA ConstKeeps == ASSUME IInv, ProduceConst PROVE IInv'
<1>1. todo # << >> /\ Task.do = "produce"
  BY DEF ProduceConst, Producing, At
<1>2. ConstTag(Task.node.num) \in Tag \ {NoTag}
  BY <1>1, NodeOf, TagsOf
<1> DEFINE code == [r \in Reg |-> <<SetTo(r, Task.node.num)>>]
<1>3. ASSUME NEW r \in Reg \ Reserved PROVE SafeCode(code[r])
  BY InsSafe, CodeShort
<1>4. Fill(ConstTag(Task.node.num), code)
  BY DEF ProduceConst
<1> HIDE DEF code
<1> QED
  BY <1>1, <1>2, <1>3, <1>4, FillKeeps

LEMMA VarKeeps == ASSUME IInv, ProduceVar PROVE IInv'
<1>1. todo # << >> /\ Task.do = "produce" /\ Task.node.kind = "var"
  BY DEF ProduceVar, Producing, At
<1>2. VarTag(Task.node.var) \in Tag \ {NoTag}
  BY <1>1, NodeOf, TagsOf
<1> DEFINE code == [r \in Reg |-> <<SetTo(r, Addr[Task.node.var]), LoadQ(r, r)>>]
<1>3. ASSUME NEW r \in Reg \ Reserved PROVE SafeCode(code[r])
  BY InsSafe, CodeShort
<1>4. Fill(VarTag(Task.node.var), code)
  BY DEF ProduceVar
<1> HIDE DEF code
<1> QED
  BY <1>1, <1>2, <1>3, <1>4, FillKeeps

LEMMA PrevKeeps == ASSUME IInv, ProducePrev PROVE IInv'
<1>1. todo # << >> /\ map' = AddRef(map, RA) /\ vals' = <<RA>> \o vals /\ Then(<< >>) /\ out' = out
  BY DEF ProducePrev, Producing, At
<1> DEFINE g == [reg |-> RA, map |-> AddRef(map, RA)]
<1>2. Took(map, g)
  BY AddRefGood, RegFacts DEF Took, IInv
<1>3. Good(map') /\ Held(map', vals')
  <2>1. g.map = map' /\ g.reg = RA
    BY <1>1
  <2> HIDE DEF g
  <2>2. Good(map) /\ Held(map, vals)
    BY DEF IInv
  <2>3. Held(g.map, <<g.reg>> \o vals)
    BY <1>2, <2>2, HeldTook
  <2>4. Good(g.map)
    BY <1>2 DEF Took
  <2> QED
    BY <1>1, <2>1, <2>3, <2>4
<1> QED
  BY <1>1, <1>3, TaskFacts DEF IInv

LEMMA FinishBinopKeeps == ASSUME IInv, FinishBinop PROVE IInv'
<1> DEFINE m == Release(map, vals[2])
           w == Tail(Tail(vals))
           left  == IF RightFirst(Task.node) THEN vals[1] ELSE vals[2]
           right == IF RightFirst(Task.node) THEN vals[2] ELSE vals[1]
<1>1. todo # << >> /\ Len(vals) >= 2 /\ Then(<< >>)
  BY DEF FinishBinop, Finishing, At
<1>2. PICK g \in (IF Task.root THEN Given(m) ELSE GetRegBinOp(m)) :
        /\ map' = Release(g.map, vals[1])
        /\ out' = Append(out, Compute(Task.node.op, g.reg, left, right))
        /\ vals' = (IF Task.root THEN << >> ELSE <<g.reg>>) \o w
  BY DEF FinishBinop
<1>3. Good(map) /\ Held(map, vals) /\ Good(m)
  BY <1>1, HeldTwo DEF IInv
<1>4. vals \in Seq(Reg) /\ w \in Seq(Reg)
  <2>1. vals \in Seq(Reg)
    BY <1>3 DEF Held
  <2>2. Tail(vals) \in Seq(Reg) /\ Len(Tail(vals)) = Len(vals) - 1 /\ Len(vals) \in Nat
    BY <1>1, <2>1
  <2>3. Len(Tail(vals)) >= 1
    BY <1>1, <2>2
  <2>4. ASSUME NEW u \in Seq(Reg), Len(u) >= 1 PROVE Tail(u) \in Seq(Reg)
    BY <2>4
  <2> QED
    BY <2>1, <2>2, <2>3, <2>4
<1> HIDE DEF m, w, left, right
<1>5. g.reg \in Reg \ Reserved /\ Good(map') /\ Held(map', vals')
  <2>1. CASE Task.root
    <3>1. g.reg = RA /\ g.map = m
      BY <1>2, <2>1 DEF Given
    <3>2. vals' = w
      BY <1>2, <1>4, <2>1
    <3> QED
      BY <1>1, <1>2, <1>3, <3>1, <3>2, HeldTwo, RegFacts DEF m, w
  <2>2. CASE ~Task.root
    <3>1. Took(m, g)
      BY <1>2, <1>3, <2>2, GetRegBinOpGood
    <3>2. vals' = <<g.reg>> \o w
      BY <1>2, <2>2
    <3>3. Good(Release(g.map, vals[1])) /\ Held(Release(g.map, vals[1]), <<g.reg>> \o w)
      BY <1>1, <1>3, <3>1, HeldTwo DEF m, w
    <3> QED
      BY <1>2, <3>1, <3>2, <3>3 DEF Took
  <2> QED
    BY <2>1, <2>2
<1>6. SafeCode(out')
  BY <1>2, <1>5, InsSafe, CodeAppend DEF IInv
<1> QED
  BY <1>1, <1>5, <1>6, TaskFacts DEF IInv

LEMMA FinishUnopKeeps == ASSUME IInv, FinishUnop PROVE IInv'
<1> DEFINE m == Release(map, Head(vals))
           w == Tail(vals)
<1>1. todo # << >> /\ vals # << >> /\ Then(<< >>)
  BY DEF FinishUnop, Finishing, At
<1>2. PICK g \in (IF Task.root THEN Given(m) ELSE GetRegBinOp(m)) :
        /\ map' = g.map
        /\ out' = Append(out, Compute(Task.node.op, g.reg, RZ, Head(vals)))
        /\ vals' = (IF Task.root THEN << >> ELSE <<g.reg>>) \o w
  BY DEF FinishUnop
<1>3. Good(m) /\ Held(m, w)
  BY <1>1, HeldRelease DEF IInv
<1>4. w \in Seq(Reg)
  BY <1>3 DEF Held
<1> HIDE DEF m, w
<1>5. g.reg \in Reg \ Reserved /\ Good(map') /\ Held(map', vals')
  <2>1. CASE Task.root
    <3>1. g.reg = RA /\ g.map = m
      BY <1>2, <2>1 DEF Given
    <3>2. vals' = w
      BY <1>2, <1>4, <2>1
    <3> QED
      BY <1>2, <1>3, <3>1, <3>2, RegFacts
  <2>2. CASE ~Task.root
    <3>1. Took(m, g)
      BY <1>2, <1>3, <2>2, GetRegBinOpGood
    <3>2. vals' = <<g.reg>> \o w
      BY <1>2, <2>2
    <3>3. Held(g.map, <<g.reg>> \o w)
      BY <1>3, <3>1, HeldTook
    <3> QED
      BY <1>2, <3>1, <3>2, <3>3 DEF Took
  <2> QED
    BY <2>1, <2>2
<1>6. SafeCode(out')
  BY <1>2, <1>5, InsSafe, CodeAppend DEF IInv
<1> QED
  BY <1>1, <1>5, <1>6, TaskFacts DEF IInv

(* The register taken for an assignment's value, and the variable's.       *)
LEMMA SetResultsGood ==
  ASSUME NEW m, Good(m), NEW w, Held(m, w), NEW g \in SetResults(m)
  PROVE  /\ Good(g.map)
         /\ Held(g.map, (IF Task.root THEN << >> ELSE <<g.reg>>) \o w)
<1>1. w \in Seq(Reg)
  BY DEF Held
<1>2. CASE Task.root
  <2>1. g.map = m /\ << >> \o w = w
    BY <1>1, <1>2 DEF SetResults, Given
  <2> QED
    BY <1>2, <2>1
<1>3. CASE ~Task.root
  <2>1. PICK h \in GetRegBinOp(m) : g = [reg |-> h.reg, map |-> AddRef(h.map, h.reg)]
    BY <1>3 DEF SetResults
  <2>2. Took(m, h) /\ Held(h.map, <<h.reg>> \o w)
    BY <2>1, GetRegBinOpGood, HeldTook
  <2>3. h.reg \in Reg /\ Good(h.map)
    BY <2>2 DEF Took
  <2>4. /\ Good(g.map) /\ g.reg = h.reg
        /\ g.map.count = [h.map.count EXCEPT ![h.reg] = @ + 1]
    BY <2>1, <2>3, AddRefGood
  <2>5. \A r \in Reg : g.map.count[r] >= h.map.count[r]
    BY <2>3, <2>4, AsRecord DEF Good
  <2>6. Held(g.map, <<h.reg>> \o w)
    BY <2>2, <2>3, <2>4, <2>5, HeldMore
  <2> QED
    BY <1>3, <2>4, <2>6
<1> QED
  BY <1>2, <1>3

LEMMA FinishSetKeeps == ASSUME IInv, FinishSet PROVE IInv'
<1> DEFINE right == Head(vals)
           m == Release(map, right)
           w == Tail(vals)
           tag == VarTag(Kid(1).var)
<1>1. /\ todo # << >> /\ vals # << >> /\ Then(<< >>)
  BY DEF FinishSet, FinishingSet, Finishing, At
<1>2. PICK g \in SetResults(m) : \E l \in GetRegConst(g.map, tag) :
        /\ map' = l.map
        /\ out' = out \o <<SetTo(l.reg, Addr[Kid(1).var]), StoreQ(l.reg, right), Move(l.reg, right)>>
        /\ vals' = (IF Task.root THEN << >> ELSE <<g.reg>>) \o w
  BY DEF FinishSet
<1>3. PICK l \in GetRegConst(g.map, tag) :
        /\ map' = l.map
        /\ out' = out \o <<SetTo(l.reg, Addr[Kid(1).var]), StoreQ(l.reg, right), Move(l.reg, right)>>
        /\ vals' = (IF Task.root THEN << >> ELSE <<g.reg>>) \o w
  BY <1>2
<1>4. tag # NoTag
  <2>1. ASSUME NEW x, NEW y, NEW z PROVE <<x, y, z>> # << >>
    OBVIOUS
  <2> QED
    BY <2>1 DEF VarTag, NoTag
<1>5. Good(m) /\ Held(m, w)
  BY <1>1, HeldRelease DEF IInv
<1> HIDE DEF m, w, tag, right
<1>6. Good(g.map) /\ Held(g.map, vals')
  BY <1>2, <1>3, <1>5, SetResultsGood
<1>7. Took(g.map, l)
  BY <1>3, <1>4, <1>6, GetRegConstGood
<1>8. l.reg \in Reg \ Reserved /\ Good(map') /\ Held(map', vals')
  BY <1>3, <1>6, <1>7, HeldTook DEF Took
<1>9. SafeCode(out')
  BY <1>3, <1>8, InsSafe, CodeShort, CodeJoin DEF IInv
<1> QED
  BY <1>1, <1>8, <1>9, TaskFacts DEF IInv

LEMMA FinishPrintKeeps == ASSUME IInv, FinishPrint PROVE IInv'
<1> DEFINE r == Head(vals)
           move == IF r = RA THEN << >> ELSE <<Move(RA, r)>>
<1>1. /\ todo # << >> /\ vals # << >> /\ Then(<< >>)
      /\ out' = out \o move \o <<CallPrint>>
      /\ map' = Release(map, r) /\ vals' = Tail(vals)
  BY DEF FinishPrint, Finishing, At
<1>2. Good(map') /\ Held(map', vals')
  BY <1>1, HeldRelease DEF IInv
<1>3. SafeCode(move) /\ SafeCode(<<CallPrint>>)
  BY InsSafe, CodeShort, RegFacts
<1> HIDE DEF move
<1>4. SafeCode(out')
  <2>1. SafeCode(out \o move)
    BY <1>3, CodeJoin DEF IInv
  <2> QED
    BY <1>1, <1>3, <2>1, CodeJoin
<1> QED
  BY <1>1, <1>2, <1>4, TaskFacts DEF IInv

LEMMA TestKeeps == ASSUME IInv, Test PROVE IInv'
<1>1. /\ todo # << >> /\ vals # << >> /\ Then(<< >>)
      /\ out' = Append(out, IfZero(Head(vals), Task.label))
      /\ map' = Release(map, Head(vals)) /\ vals' = Tail(vals)
  BY DEF Test, At
<1>2. Good(map') /\ Held(map', vals')
  BY <1>1, HeldRelease DEF IInv
<1>3. SafeCode(out')
  <2>1. Safe(IfZero(Head(vals), Task.label))
    BY DEF Safe, IfZero, Ins
  <2> QED
    BY <1>1, <2>1, CodeAppend DEF IInv
<1> QED
  BY <1>1, <1>2, <1>3, TaskFacts DEF IInv

LEMMA WriteKeeps == ASSUME IInv, Write PROVE IInv'
<1>1. /\ todo # << >> /\ Then(<< >>) /\ Task.do = "emit"
      /\ out' = out \o Task.code /\ map' = map /\ vals' = vals
  BY DEF Write, At
<1>2. SafeCode(out')
  BY <1>1, TaskFacts, CodeJoin DEF OkTask, IInv
<1> QED
  BY <1>1, <1>2, TaskFacts DEF IInv

-----------------------------------------------------------------------------
(***************************************************************************)
(* The actions that only plan.                                             *)
(***************************************************************************)
LEMMA Kids ==
  ASSUME NEW n \in Trees
  PROVE  /\ n.kind \in {"unop", "print"} => 1 \in 1 .. Len(n.kids)
         /\ n.kind \in {"binop", "if", "while"} => {1, 2} \subseteq 1 .. Len(n.kids)
         /\ n.kind = "ifelse" => {1, 2, 3} \subseteq 1 .. Len(n.kids)
<1>1. Len(n.kids) \in Arity(n.kind)
  BY TreeAssumption
<1>2. ASSUME n.kind \in {"unop", "print"} PROVE Len(n.kids) = 1
  BY <1>1, <1>2 DEF Arity
<1>3. ASSUME n.kind \in {"binop", "if", "while"} PROVE Len(n.kids) = 2
  BY <1>1, <1>3 DEF Arity
<1>4. ASSUME n.kind = "ifelse" PROVE Len(n.kids) = 3
  BY <1>1, <1>4 DEF Arity
<1>5. 1 \in 1 .. 1 /\ {1, 2} \subseteq 1 .. 2 /\ {1, 2, 3} \subseteq 1 .. 3
  OBVIOUS
<1> QED
  BY <1>2, <1>3, <1>4, <1>5

(* Tasks that need no node.                                                *)
LEMMA PlainTasks ==
  ASSUME NEW l, NEW k
  PROVE  /\ OkTask(Branch(l)) /\ OkTask(Emit(<<Nop>>)) /\ OkTask(Emit(<<Label(l)>>))
         /\ OkTask(Emit(<<Label(l), Nop>>)) /\ OkTask(Emit(<<Jump(l), Label(k)>>))
         /\ OkTask(Emit(<<Jump(l), Label(k), Nop>>))
<1>1. /\ Safe(Nop) /\ Safe(Label(l)) /\ Safe(Label(k)) /\ Safe(Jump(l))
  BY DEF Safe, Nop, Label, Jump, Ins, Silent
<1>2. ASSUME NEW c, SafeCode(c) PROVE OkTask(Emit(c))
  BY <1>2 DEF OkTask, Emit
<1>3. /\ SafeCode(<<Nop>>) /\ SafeCode(<<Label(l)>>) /\ SafeCode(<<Label(l), Nop>>)
      /\ SafeCode(<<Jump(l), Label(k)>>) /\ SafeCode(<<Jump(l), Label(k), Nop>>)
  BY <1>1, CodeShort
<1> QED
  BY <1>2, <1>3 DEF OkTask, Branch

LEMMA OperandsKeep ==
  ASSUME IInv, ProduceBinop \/ ProduceUnop \/ ProduceSet \/ ProducePrint
  PROVE  IInv'
<1>1. todo # << >> /\ Task.do = "produce"
  BY DEF ProduceBinop, ProduceUnop, ProduceSet, ProducePrint, Producing, At
<1> DEFINE f == Finish(Task.node, Task.root)
           d == Finish(Task.node, FALSE)
           k(i) == Produce(Kid(i), FALSE)
<1>2. OkTask(f) /\ OkTask(d) /\ Task.node \in Trees
  BY <1>1, NodeOf
<1>3. ASSUME NEW i \in 1 .. Len(Task.node.kids) PROVE OkTask(k(i))
  BY <1>1, NodeOf
<1>4. CASE ProduceBinop
  <2>1. PICK i \in {1, 2} : Plan(<<k(i), k(3 - i), f>>)
    BY <1>4 DEF ProduceBinop
  <2>2. OkTask(k(i)) /\ OkTask(k(3 - i))
    <3>1. {1, 2} \subseteq 1 .. Len(Task.node.kids)
      BY <1>2, <1>4, Kids DEF ProduceBinop, Producing
    <3>2. i \in {1, 2} /\ 3 - i \in {1, 2}
      OBVIOUS
    <3> HIDE DEF k
    <3> QED
      BY <1>3, <3>1, <3>2
  <2> HIDE DEF k, f
  <2> DEFINE p == <<k(i), k(3 - i), f>>
             T == {k(i), k(3 - i), f}
  <2>3. p \in Seq(T) /\ \A t \in T : OkTask(t)
    BY <1>2, <2>2
  <2>4. Plan(p)
    BY <2>1
  <2> HIDE DEF p, T
  <2> QED
    BY <1>1, <2>3, <2>4, PlanKeeps
<1>5. CASE ProduceUnop
  <2>1. Plan(<<k(1), f>>)
    BY <1>5 DEF ProduceUnop
  <2>2. OkTask(k(1))
    BY <1>2, <1>3, <1>5, Kids DEF ProduceUnop, Producing
  <2> HIDE DEF k, f
  <2> DEFINE p == <<k(1), f>>
             T == {k(1), f}
  <2>3. p \in Seq(T) /\ \A t \in T : OkTask(t)
    BY <1>2, <2>2
  <2>4. Plan(p)
    BY <2>1
  <2> HIDE DEF p, T
  <2> QED
    BY <1>1, <2>3, <2>4, PlanKeeps
<1>6. CASE ProduceSet
  <2>1. Plan(<<k(2), f>>)
    BY <1>6 DEF ProduceSet
  <2>2. OkTask(k(2))
    BY <1>2, <1>3, <1>6, Kids DEF ProduceSet, Producing
  <2> HIDE DEF k, f
  <2> DEFINE p == <<k(2), f>>
             T == {k(2), f}
  <2>3. p \in Seq(T) /\ \A t \in T : OkTask(t)
    BY <1>2, <2>2
  <2>4. Plan(p)
    BY <2>1
  <2> HIDE DEF p, T
  <2> QED
    BY <1>1, <2>3, <2>4, PlanKeeps
<1>7. CASE ProducePrint
  <2>1. Plan(<<k(1), d>>)
    BY <1>7 DEF ProducePrint
  <2>2. OkTask(k(1))
    BY <1>2, <1>3, <1>7, Kids DEF ProducePrint, Producing
  <2> HIDE DEF k, d
  <2> DEFINE p == <<k(1), d>>
             T == {k(1), d}
  <2>3. p \in Seq(T) /\ \A t \in T : OkTask(t)
    BY <1>2, <2>2
  <2>4. Plan(p)
    BY <2>1
  <2> HIDE DEF p, T
  <2> QED
    BY <1>1, <2>3, <2>4, PlanKeeps
<1> QED
  BY <1>4, <1>5, <1>6, <1>7

LEMMA BranchesKeep ==
  ASSUME IInv, ProduceIf \/ ProduceIfElse \/ ProduceWhile
  PROVE  IInv'
<1>1. todo # << >> /\ Task.do = "produce"
  BY DEF ProduceIf, ProduceIfElse, ProduceWhile, Producing, At
<1> DEFINE k(i) == Produce(Kid(i), FALSE)
<1>2. Task.node \in Trees
  BY <1>1, NodeOf
<1>3. ASSUME NEW i \in 1 .. Len(Task.node.kids) PROVE OkTask(k(i))
  BY <1>1, NodeOf
<1>4. CASE ProduceIf
  <2> DEFINE e == <<"if", labels>>
             p == <<k(1), Branch(e), k(2), Emit(<<Label(e), Nop>>)>>
             T == {k(1), Branch(e), k(2), Emit(<<Label(e), Nop>>)}
  <2>1. Plan(p)
    BY <1>4 DEF ProduceIf
  <2>2. OkTask(k(1)) /\ OkTask(k(2))
    <3>1. {1, 2} \subseteq 1 .. Len(Task.node.kids)
      BY <1>2, <1>4, Kids DEF ProduceIf, Producing
    <3> QED
      BY <1>3, <3>1
  <2>3. OkTask(Branch(e)) /\ OkTask(Emit(<<Label(e), Nop>>))
    BY PlainTasks
  <2> HIDE DEF k, e
  <2>4. p \in Seq(T) /\ \A t \in T : OkTask(t)
    BY <2>2, <2>3
  <2> HIDE DEF p, T
  <2> QED
    BY <1>1, <2>1, <2>4, PlanKeeps
<1>5. CASE ProduceIfElse
  <2> DEFINE n == <<"if", labels>>
             e == <<"else", labels>>
             skip == Emit(<<Jump(e), Label(n)>>)
             end  == Emit(<<Label(e), Nop>>)
             p == <<k(1), Branch(n), k(2), skip, k(3), end>>
             T == {k(1), Branch(n), k(2), skip, k(3), end}
  <2>1. Plan(p)
    BY <1>5 DEF ProduceIfElse
  <2>2. OkTask(k(1)) /\ OkTask(k(2)) /\ OkTask(k(3))
    <3>1. {1, 2, 3} \subseteq 1 .. Len(Task.node.kids)
      BY <1>2, <1>5, Kids DEF ProduceIfElse, Producing
    <3> QED
      BY <1>3, <3>1
  <2>3. OkTask(Branch(n)) /\ OkTask(skip) /\ OkTask(end)
    BY PlainTasks
  <2> HIDE DEF k, e, n, skip, end
  <2>4. p \in Seq(T) /\ \A t \in T : OkTask(t)
    BY <2>2, <2>3
  <2> HIDE DEF p, T
  <2> QED
    BY <1>1, <2>1, <2>4, PlanKeeps
<1>6. CASE ProduceWhile
  <2> DEFINE b == <<"while_start", labels>>
             e == <<"while_end", labels>>
             begin == Emit(<<Label(b)>>)
             end   == Emit(<<Jump(b), Label(e), Nop>>)
             p == <<begin, k(1), Branch(e), k(2), end>>
             T == {begin, k(1), Branch(e), k(2), end}
  <2>1. Plan(p)
    BY <1>6 DEF ProduceWhile
  <2>2. OkTask(k(1)) /\ OkTask(k(2))
    <3>1. {1, 2} \subseteq 1 .. Len(Task.node.kids)
      BY <1>2, <1>6, Kids DEF ProduceWhile, Producing
    <3> QED
      BY <1>3, <3>1
  <2>3. OkTask(begin) /\ OkTask(Branch(e)) /\ OkTask(end)
    BY PlainTasks
  <2> HIDE DEF k, b, e, begin, end
  <2>4. p \in Seq(T) /\ \A t \in T : OkTask(t)
    BY <2>2, <2>3
  <2> HIDE DEF p, T
  <2> QED
    BY <1>1, <2>1, <2>4, PlanKeeps
<1> QED
  BY <1>4, <1>5, <1>6

LEMMA BlockKeeps == ASSUME IInv, ProduceBlock \/ ProduceNull PROVE IInv'
<1>1. todo # << >> /\ Task.do = "produce"
  BY DEF ProduceBlock, ProduceNull, Producing, At
<1>2. CASE Plan(<<Emit(<<Nop>>)>>)
  <2> DEFINE e == Emit(<<Nop>>)
  <2>1. OkTask(e)
    BY PlainTasks
  <2> HIDE DEF e
  <2> DEFINE p == <<e>>
             T == {e}
  <2>2. p \in Seq(T) /\ \A t \in T : OkTask(t)
    BY <2>1
  <2>3. Plan(p)
    BY <1>2 DEF e
  <2> HIDE DEF p, T
  <2> QED
    BY <1>1, <2>2, <2>3, PlanKeeps
<1>3. CASE Plan([i \in DOMAIN Task.node.kids |-> Produce(Kid(i), FALSE)])
  <2> DEFINE k(i) == Produce(Kid(i), FALSE)
             n == Len(Task.node.kids)
             T == {k(i) : i \in 1 .. n}
             p == [i \in 1 .. n |-> k(i)]
  <2>1. DOMAIN Task.node.kids = 1 .. n /\ n \in Nat
    BY <1>1, NodeOf, TreeAssumption
  <2>2. \A i \in 1 .. n : OkTask(k(i))
    BY <1>1, NodeOf
  <2>3. Plan(p)
    BY <1>3, <2>1
  <2> HIDE DEF k, n
  <2>4. p \in Seq(T)
    BY <2>1
  <2>5. \A t \in T : OkTask(t)
    BY <2>2
  <2> HIDE DEF p, T
  <2> QED
    BY <1>1, <2>3, <2>4, <2>5, PlanKeeps
<1> QED
  BY <1>2, <1>3 DEF ProduceBlock, ProduceNull

-----------------------------------------------------------------------------
(***************************************************************************)
(* Theorems.                                                               *)
(***************************************************************************)
LEMMA NextIInv == IInv /\ [Next]_vars => IInv'
<1> SUFFICES ASSUME IInv, [Next]_vars PROVE IInv'
  OBVIOUS
<1>1. CASE ProduceConst
  BY <1>1, ConstKeeps
<1>2. CASE ProduceVar
  BY <1>2, VarKeeps
<1>3. CASE ProducePrev
  BY <1>3, PrevKeeps
<1>4. CASE ProduceBinop \/ ProduceUnop \/ ProduceSet \/ ProducePrint
  BY <1>4, OperandsKeep
<1>5. CASE FinishBinop
  BY <1>5, FinishBinopKeeps
<1>6. CASE FinishUnop
  BY <1>6, FinishUnopKeeps
<1>7. CASE FinishSet
  BY <1>7, FinishSetKeeps
<1>8. CASE FinishPrint
  BY <1>8, FinishPrintKeeps
<1>9. CASE ProduceIf \/ ProduceIfElse \/ ProduceWhile
  BY <1>9, BranchesKeep
<1>10. CASE Test
  BY <1>10, TestKeeps
<1>11. CASE Write
  BY <1>11, WriteKeeps
<1>12. CASE ProduceBlock \/ ProduceNull
  BY <1>12, BlockKeeps
<1>13. CASE Throw \/ StartRun \/ Run \/ Stopped \/ UNCHANGED vars
  <2>1. UNCHANGED <<todo, map, vals, out>>
    BY <1>13 DEF Throw, StartRun, Run, Stopped, vars
  <2> QED
    BY <2>1 DEF IInv
<1> QED
  BY <1>1, <1>2, <1>3, <1>4, <1>5, <1>6, <1>7, <1>8, <1>9, <1>10, <1>11, <1>12, <1>13 DEF Next

(* The invariant holds in every state of every compilation (Generate).     *)
THEOREM IInvAlways == Spec => []IInv
<1>1. Init => IInv
  BY InitIInv
<1>2. IInv /\ [Next]_vars => IInv'
  BY NextIInv
<1> QED
  BY <1>1, <1>2, PTL DEF Spec

(* Whatever is compiled, the context's arrays (context) hold what they can *)
(* hold, and no reference is given back that was not taken.                *)
THEOREM BooksBalance == Spec => []ContextTyped
<1>1. IInv => ContextTyped
  BY DEF IInv, Good, Held, ContextTyped
<1> QED
  BY <1>1, IInvAlways, PTL

(* Whatever is compiled, no register is lost (Release, GetRegConst,        *)
(* GetRegBinOp) and queue.front() finds one.                               *)
THEOREM NoRegisterLost == Spec => []NoneLost
<1>1. IInv => NoneLost
  BY DEF IInv, Good, NoneLost
<1> QED
  BY <1>1, IInvAlways, PTL

(* Whatever is compiled, a result that waits to be used has a reference of *)
(* its own on its register, so that it is not given away (context::RefCount*)
(* and the searches).                                                      *)
THEOREM ResultsAlwaysHeld == Spec => []ResultsHeld
<1>1. IInv => ResultsHeld
  BY DEF IInv, Held, ResultsHeld, Occ, Places
<1> QED
  BY <1>1, IInvAlways, PTL

(* Whatever is compiled, the code (produce_node) writes a reserved register*)
(* only where it jumps.                                                    *)
THEOREM ReservedAlwaysKept == Spec => []ReservedKept
<1>1. IInv => ReservedKept
  <2> SUFFICES ASSUME IInv PROVE ReservedKept
    OBVIOUS
  <2>1. PICK S : out \in Seq(S) /\ \A i \in S : Safe(i)
    BY DEF IInv, SafeCode
  <2>2. \A k \in DOMAIN out : Safe(out[k])
    BY <2>1
  <2> QED
    BY <2>2 DEF ReservedKept, Safe
<1> QED
  BY <1>1, IInvAlways, PTL

-----------------------------------------------------------------------------
(***************************************************************************)
(* Labels: code that is written, o, and code still to be written, in the   *)
(* tasks q.  A spot is a place in either: <<0, a>> is o[a], and <<i, a>>   *)
(* is in the code of task i.                                               *)
(***************************************************************************)
Code(o, q, i) == IF i = 0 THEN o ELSE IF q[i].do = "emit" THEN q[i].code ELSE << >>
Spots(o, q)    == {w \in (0 .. Len(q)) \X Nat : w[2] \in DOMAIN Code(o, q, w[1])}
InsAt(o, q, w) == Code(o, q, w[1])[w[2]]

Defined(o, q, l) == \E w \in Spots(o, q) : InsAt(o, q, w) = Label(l)

LabelsUnique(o, q) ==
  \A w, v \in Spots(o, q) :
    InsAt(o, q, w).op = "label" /\ InsAt(o, q, v) = InsAt(o, q, w) => w = v

LabelsFrom(o, q, m, n) ==
  \A w \in Spots(o, q) :
    InsAt(o, q, w).op = "label" => InsAt(o, q, w).label[2] \in m .. n - 1

JumpsDefined(o, q) ==
  /\ \A w \in Spots(o, q) :
       InsAt(o, q, w).op \in {"cmz", "jump"} => Defined(o, q, InsAt(o, q, w).label)
  /\ \A i \in 1 .. Len(q) : q[i].do = "branch" => Defined(o, q, q[i].label)

LabelsOk(o, q, m, n) ==
  LabelsUnique(o, q) /\ LabelsFrom(o, q, m, n) /\ JumpsDefined(o, q)

IsSeq(s) == \E S : s \in Seq(S)

LEMMA Join ==
  ASSUME NEW c, NEW d, IsSeq(c), IsSeq(d)
  PROVE  /\ IsSeq(c \o d) /\ Len(c \o d) = Len(c) + Len(d)
         /\ Len(c) \in Nat /\ Len(d) \in Nat
         /\ DOMAIN c = 1 .. Len(c) /\ DOMAIN d = 1 .. Len(d)
         /\ DOMAIN (c \o d) = 1 .. Len(c) + Len(d)
         /\ \A k \in 1 .. Len(c) : (c \o d)[k] = c[k]
         /\ \A k \in 1 .. Len(d) : (c \o d)[Len(c) + k] = d[k]
<1>1. PICK S : c \in Seq(S)
  BY DEF IsSeq
<1>2. PICK T : d \in Seq(T)
  BY DEF IsSeq
<1>3. c \o d \in Seq(S \cup T)
  BY <1>1, <1>2, SeqJoin
<1> QED
  BY <1>1, <1>2, <1>3 DEF IsSeq

(* f says where each instruction of o and q is in s and t; those of N are  *)
(* new.                                                                    *)
Moves(o, q, s, t, f, N) ==
  /\ f \in [Spots(o, q) -> Spots(s, t)]
  /\ \A w, v \in Spots(o, q) : f[w] = f[v] => w = v
  /\ \A w \in Spots(o, q) : InsAt(s, t, f[w]) = InsAt(o, q, w)
  /\ Spots(s, t) = N \cup {f[w] : w \in Spots(o, q)}

(* The new code has labels of its own, and knows where it jumps.           *)
NewCode(o, q, s, t, N, m, n) ==
  /\ \A w \in N :
       /\ InsAt(s, t, w).op = "label" =>
            /\ InsAt(s, t, w).label[2] \in m .. n - 1
            /\ \A v \in N : InsAt(s, t, v) = InsAt(s, t, w) => w = v
       /\ InsAt(s, t, w).op \in {"cmz", "jump"} =>
            Defined(o, q, InsAt(s, t, w).label) \/ Defined(s, t, InsAt(s, t, w).label)
  /\ \A i \in 1 .. Len(t) : t[i].do = "branch" =>
       Defined(o, q, t[i].label) \/ Defined(s, t, t[i].label)

(* Code may move, as long as every instruction is still there once.        *)
LEMMA CodeMoves ==
  ASSUME NEW o, NEW q, NEW s, NEW t, NEW m \in Nat, NEW n \in Nat, m <= n,
         LabelsOk(o, q, 0, m),
         NEW f, NEW N, Moves(o, q, s, t, f, N), NewCode(o, q, s, t, N, m, n)
  PROVE  LabelsOk(s, t, 0, n)
<1> USE DEF Moves, NewCode
<1>1. ASSUME NEW l, Defined(o, q, l) PROVE Defined(s, t, l)
  BY <1>1 DEF Defined
<1>2. JumpsDefined(s, t)
  <2>1. ASSUME NEW w \in Spots(s, t), InsAt(s, t, w).op \in {"cmz", "jump"}
        PROVE  Defined(s, t, InsAt(s, t, w).label)
    BY <1>1, <2>1 DEF LabelsOk, JumpsDefined
  <2> QED
    BY <1>1, <2>1 DEF JumpsDefined
<1>3. ASSUME NEW w \in Spots(s, t), InsAt(s, t, w).op = "label"
      PROVE  /\ InsAt(s, t, w).label[2] \in 0 .. n - 1
             /\ w \in N => InsAt(s, t, w).label[2] >= m
             /\ w \notin N => InsAt(s, t, w).label[2] < m
  BY <1>3 DEF LabelsOk, LabelsFrom
<1>4. ASSUME NEW w \in Spots(s, t), NEW v \in Spots(s, t),
             InsAt(s, t, w).op = "label", InsAt(s, t, v) = InsAt(s, t, w)
      PROVE  w = v
  <2>1. CASE w \in N
    BY <1>3, <1>4, <2>1
  <2>2. CASE w \notin N
    <3>1. v \notin N
      BY <1>3, <1>4, <2>2
    <3>2. PICK x \in Spots(o, q), y \in Spots(o, q) : w = f[x] /\ v = f[y]
      BY <2>2, <3>1
    <3>3. InsAt(o, q, x).op = "label" /\ InsAt(o, q, y) = InsAt(o, q, x)
      BY <1>4, <3>2
    <3> QED
      BY <3>2, <3>3 DEF LabelsOk, LabelsUnique
  <2> QED
    BY <2>1, <2>2
<1> QED
  BY <1>2, <1>3, <1>4 DEF LabelsOk, LabelsUnique, LabelsFrom

(* The task at the head, which writes no code of its own, is replaced by   *)
(* p, and c is written.                                                    *)
LEMMA TaskReplaced ==
  ASSUME NEW o, NEW q, NEW c, NEW p, IsSeq(o), IsSeq(q), IsSeq(c), IsSeq(p),
         q # << >>, Head(q).do # "emit",
         NEW m \in Nat, NEW n \in Nat, m <= n,
         LabelsOk(o, q, 0, m),
         \A a \in 1 .. Len(c) :
           /\ c[a].op # "label"
           /\ c[a].op \in {"cmz", "jump"} => Defined(o, q, c[a].label),
         LabelsOk(<< >>, p, m, n)
  PROVE  LabelsOk(o \o c, p \o Tail(q), 0, n)
<1> DEFINE s == o \o c
           t == p \o Tail(q)
           L == Len(p)
           f == [w \in Spots(o, q) |-> IF w[1] = 0 THEN w ELSE << w[1] - 1 + L, w[2] >>]
           N == {w \in Spots(s, t) : (w[1] = 0 /\ w[2] > Len(o)) \/ w[1] \in 1 .. L}
<1>1. /\ Len(o) \in Nat /\ DOMAIN o = 1 .. Len(o) /\ Len(c) \in Nat
      /\ DOMAIN s = 1 .. Len(o) + Len(c)
      /\ \A a \in 1 .. Len(o) : s[a] = o[a]
      /\ \A a \in 1 .. Len(c) : s[Len(o) + a] = c[a]
  BY Join
<1>2. /\ IsSeq(Tail(q)) /\ Len(Tail(q)) = Len(q) - 1 /\ Len(q) \in Nat \ {0}
      /\ \A j \in 1 .. Len(q) - 1 : Tail(q)[j] = q[j + 1]
      /\ Head(q) = q[1]
  BY DEF IsSeq
<1>3. /\ L \in Nat /\ Len(t) = L + Len(q) - 1
      /\ \A i \in 1 .. L : t[i] = p[i]
      /\ \A j \in 1 .. Len(q) - 1 : t[L + j] = Tail(q)[j]
  BY <1>2, Join
<1>4. \A j \in 2 .. Len(q) : t[L + j - 1] = q[j]
  <2> SUFFICES ASSUME NEW j \in 2 .. Len(q) PROVE t[L + (j - 1)] = q[j]
    BY <1>2, <1>3
  <2> QED
    BY <1>2, <1>3
<1> HIDE DEF s, t, L
<1>5. ASSUME NEW w \in Spots(o, q)
      PROVE  w[1] \in {0} \cup 2 .. Len(q) /\ w[2] \in Nat /\ w = << w[1], w[2] >>
  BY <1>2 DEF Spots, Code
<1>6. f \in [Spots(o, q) -> Spots(s, t)]
  <2> SUFFICES ASSUME NEW w \in Spots(o, q) PROVE f[w] \in Spots(s, t)
    OBVIOUS
  <2>1. CASE w[1] = 0
    BY <1>1, <1>3, <1>5, <2>1 DEF Spots, Code
  <2>2. CASE w[1] \in 2 .. Len(q)
    <3>1. f[w] = << L + w[1] - 1, w[2] >> /\ L + w[1] - 1 \in 1 .. Len(t)
      BY <1>2, <1>3, <2>2, SMTT(30)
    <3>2. Code(s, t, L + w[1] - 1) = Code(o, q, w[1])
      BY <1>2, <1>3, <1>4, <2>2 DEF Code
    <3> QED
      BY <1>5, <3>1, <3>2 DEF Spots
  <2> QED
    BY <1>5, <2>1, <2>2
<1>7. \A w \in Spots(o, q) : InsAt(s, t, f[w]) = InsAt(o, q, w)
  <2> SUFFICES ASSUME NEW w \in Spots(o, q) PROVE InsAt(s, t, f[w]) = InsAt(o, q, w)
    OBVIOUS
  <2>1. CASE w[1] = 0
    BY <1>1, <1>5, <2>1 DEF Spots, Code, InsAt
  <2>2. CASE w[1] \in 2 .. Len(q)
    <3>1. f[w] = << L + w[1] - 1, w[2] >>
      BY <1>2, <1>3, <2>2
    <3>2. Code(s, t, L + w[1] - 1) = Code(o, q, w[1])
      BY <1>2, <1>3, <1>4, <2>2 DEF Code
    <3> QED
      BY <3>1, <3>2 DEF InsAt
  <2> QED
    BY <1>5, <2>1, <2>2
<1>8. \A w, v \in Spots(o, q) : f[w] = f[v] => w = v
  <2> SUFFICES ASSUME NEW w \in Spots(o, q), NEW v \in Spots(o, q), f[w] = f[v]
               PROVE  w = v
    OBVIOUS
  <2>1. /\ f[w][1] = (IF w[1] = 0 THEN 0 ELSE w[1] - 1 + L) /\ f[w][2] = w[2]
        /\ f[v][1] = (IF v[1] = 0 THEN 0 ELSE v[1] - 1 + L) /\ f[v][2] = v[2]
    OBVIOUS
  <2>2. w[1] = v[1] /\ w[2] = v[2]
    BY <1>2, <1>3, <1>5, <2>1, SMTT(30)
  <2> QED
    BY <1>5, <2>2
<1>9. Spots(s, t) = N \cup {f[w] : w \in Spots(o, q)}
  <2> SUFFICES ASSUME NEW v \in Spots(s, t), v \notin N
               PROVE  \E w \in Spots(o, q) : v = f[w]
    <3>1. N \subseteq Spots(s, t)
      OBVIOUS
    <3> HIDE DEF f, N
    <3> QED
      BY <1>6, <3>1
  <2>0. v[1] \in 0 .. Len(t) /\ v[2] \in Nat /\ v = << v[1], v[2] >> /\ v[2] \in DOMAIN Code(s, t, v[1])
    BY DEF Spots
  <2>1. CASE v[1] = 0
    <3>1. v \in Spots(o, q)
      BY <1>1, <1>2, <2>0, <2>1 DEF Spots, Code
    <3> QED
      BY <2>1, <3>1
  <2>2. CASE v[1] # 0
    <3>1. v[1] \in L + 1 .. L + Len(q) - 1
      BY <1>2, <1>3, <2>0, <2>2
    <3>2. PICK j \in 2 .. Len(q) : v[1] = L + j - 1
      <4>1. \A k \in L + 1 .. L + Len(q) - 1 :
              k - L + 1 \in 2 .. Len(q) /\ k = L + (k - L + 1) - 1
        BY <1>2, <1>3
      <4> QED
        BY <3>1, <4>1
    <3>3. Code(s, t, v[1]) = Code(o, q, j)
      BY <1>2, <1>3, <1>4, <3>2 DEF Code
    <3>4. << j, v[2] >> \in Spots(o, q)
      BY <1>2, <2>0, <3>2, <3>3 DEF Spots
    <3>5. f[<< j, v[2] >>] = << j - 1 + L, v[2] >>
      BY <3>2, <3>4
    <3>6. j - 1 + L = v[1]
      BY <1>2, <1>3, <3>2
    <3> QED
      BY <2>0, <3>4, <3>5, <3>6
  <2> QED
    BY <2>1, <2>2
<1>10. ASSUME NEW v \in Spots(<< >>, p)
       PROVE  v \in Spots(s, t) /\ v[1] \in 1 .. L /\ InsAt(s, t, v) = InsAt(<< >>, p, v)
  <2>1. v[1] \in 1 .. L /\ v[2] \in Nat /\ v = << v[1], v[2] >> /\ v[2] \in DOMAIN Code(<< >>, p, v[1])
    BY <1>3 DEF Spots, Code, L
  <2>2. Code(s, t, v[1]) = Code(<< >>, p, v[1])
    BY <1>3, <2>1 DEF Code
  <2>3. v[1] \in 0 .. Len(t)
    BY <1>2, <1>3, <2>1
  <2> QED
    BY <2>1, <2>2, <2>3 DEF Spots, InsAt
<1>11. ASSUME NEW l, Defined(<< >>, p, l) PROVE Defined(s, t, l)
  BY <1>10, <1>11 DEF Defined
<1>12. ASSUME NEW v \in N, v[1] # 0
       PROVE  v \in Spots(<< >>, p) /\ InsAt(s, t, v) = InsAt(<< >>, p, v)
  <2>1. v[1] \in 1 .. L /\ v[2] \in Nat /\ v = << v[1], v[2] >> /\ v[2] \in DOMAIN Code(s, t, v[1])
    BY <1>12 DEF Spots
  <2>2. Code(s, t, v[1]) = Code(<< >>, p, v[1])
    BY <1>3, <2>1 DEF Code
  <2>3. v[1] \in 0 .. Len(p)
    BY <1>3, <2>1 DEF L
  <2> QED
    BY <2>1, <2>2, <2>3 DEF Spots, InsAt
<1>13. ASSUME NEW v \in N, v[1] = 0
       PROVE  \E a \in 1 .. Len(c) : InsAt(s, t, v) = c[a]
  <2>1. v[2] \in Len(o) + 1 .. Len(o) + Len(c)
    BY <1>1, <1>13 DEF Spots, Code
  <2>2. PICK a \in 1 .. Len(c) : v[2] = Len(o) + a
    <3>1. \A k \in Len(o) + 1 .. Len(o) + Len(c) :
            k - Len(o) \in 1 .. Len(c) /\ k = Len(o) + (k - Len(o))
      BY <1>1
    <3> QED
      BY <2>1, <3>1
  <2>3. InsAt(s, t, v) = s[v[2]]
    BY <1>13 DEF InsAt, Code
  <2> QED
    BY <1>1, <2>2, <2>3
<1>14. ASSUME NEW w \in N, InsAt(s, t, w).op = "label"
       PROVE  /\ InsAt(s, t, w).label[2] \in m .. n - 1
              /\ \A v \in N : InsAt(s, t, v) = InsAt(s, t, w) => w = v
  <2>1. ASSUME NEW v \in N, InsAt(s, t, v).op = "label"
        PROVE  v \in Spots(<< >>, p) /\ InsAt(s, t, v) = InsAt(<< >>, p, v)
    BY <1>12, <1>13, <2>1
  <2> HIDE DEF N
  <2>2. w \in Spots(<< >>, p) /\ InsAt(s, t, w) = InsAt(<< >>, p, w)
    BY <1>14, <2>1
  <2> QED
    BY <1>14, <2>1, <2>2 DEF LabelsOk, LabelsUnique, LabelsFrom
<1>15. ASSUME NEW w \in N, InsAt(s, t, w).op \in {"cmz", "jump"}
       PROVE  Defined(o, q, InsAt(s, t, w).label) \/ Defined(s, t, InsAt(s, t, w).label)
  <2>1. CASE w[1] = 0
    BY <1>13, <1>15, <2>1
  <2>2. CASE w[1] # 0
    <3>1. w \in Spots(<< >>, p) /\ InsAt(s, t, w) = InsAt(<< >>, p, w)
      BY <1>12, <2>2
    <3>2. Defined(<< >>, p, InsAt(s, t, w).label)
      BY <1>15, <3>1 DEF LabelsOk, JumpsDefined
    <3> QED
      BY <1>11, <3>2
  <2> QED
    BY <2>1, <2>2
<1>16. ASSUME NEW i \in 1 .. Len(t), t[i].do = "branch"
       PROVE  Defined(o, q, t[i].label) \/ Defined(s, t, t[i].label)
  <2>1. CASE i \in 1 .. L
    <3>1. Defined(<< >>, p, t[i].label)
      BY <1>3, <1>16, <2>1 DEF LabelsOk, JumpsDefined, L
    <3> QED
      BY <1>11, <3>1
  <2>2. CASE i \notin 1 .. L
    <3> DEFINE j == i - L + 1
    <3>1. j \in 2 .. Len(q) /\ i = L + j - 1
      BY <1>2, <1>3, <2>2
    <3>2. t[i] = q[j]
      BY <1>4, <3>1
    <3> HIDE DEF j
    <3>3. j \in 1 .. Len(q)
      BY <1>2, <3>1
    <3> QED
      BY <1>16, <3>2, <3>3 DEF LabelsOk, JumpsDefined
  <2> QED
    BY <2>1, <2>2
<1>17. LabelsOk(s, t, 0, n)
  <2> HIDE DEF f, N
  <2>1. \A w \in N :
          /\ InsAt(s, t, w).op = "label" =>
               /\ InsAt(s, t, w).label[2] \in m .. n - 1
               /\ \A v \in N : InsAt(s, t, v) = InsAt(s, t, w) => w = v
          /\ InsAt(s, t, w).op \in {"cmz", "jump"} =>
               Defined(o, q, InsAt(s, t, w).label) \/ Defined(s, t, InsAt(s, t, w).label)
    BY <1>14, <1>15
  <2>2. \A i \in 1 .. Len(t) : t[i].do = "branch" =>
          Defined(o, q, t[i].label) \/ Defined(s, t, t[i].label)
    BY <1>16
  <2>3. Moves(o, q, s, t, f, N)
    BY <1>6, <1>7, <1>8, <1>9 DEF Moves
  <2>4. NewCode(o, q, s, t, N, m, n)
    BY <2>1, <2>2 DEF NewCode
  <2> QED
    BY <2>3, <2>4, CodeMoves
<1> QED
  BY <1>17 DEF s, t

(* The code of the task at the head is written.                            *)
LEMMA CodeWritten ==
  ASSUME NEW o, NEW q, IsSeq(o), IsSeq(q), q # << >>, Head(q).do = "emit",
         IsSeq(Head(q).code), NEW m \in Nat, LabelsOk(o, q, 0, m)
  PROVE  LabelsOk(o \o Head(q).code, Tail(q), 0, m)
<1> DEFINE c == Head(q).code
           s == o \o c
           t == Tail(q)
           f == [w \in Spots(o, q) |->
                   IF w[1] = 0 THEN w
                   ELSE IF w[1] = 1 THEN << 0, Len(o) + w[2] >> ELSE << w[1] - 1, w[2] >>]
<1>1. /\ Len(o) \in Nat /\ DOMAIN o = 1 .. Len(o) /\ Len(c) \in Nat /\ DOMAIN c = 1 .. Len(c)
      /\ DOMAIN s = 1 .. Len(o) + Len(c)
      /\ \A a \in 1 .. Len(o) : s[a] = o[a]
      /\ \A a \in 1 .. Len(c) : s[Len(o) + a] = c[a]
  BY Join
<1>2. /\ Len(q) \in Nat \ {0} /\ Len(t) = Len(q) - 1
      /\ \A j \in 2 .. Len(q) : t[j - 1] = q[j]
      /\ q[1].do = "emit" /\ c = q[1].code
  <2>1. /\ Len(t) = Len(q) - 1 /\ Len(q) \in Nat \ {0}
        /\ \A j \in 1 .. Len(q) - 1 : t[j] = q[j + 1]
        /\ Head(q) = q[1]
    BY DEF IsSeq
  <2> HIDE DEF t
  <2>2. ASSUME NEW j \in 2 .. Len(q) PROVE t[j - 1] = q[j]
    BY <2>1
  <2> QED
    BY <2>1, <2>2
<1> HIDE DEF s, t, c
<1>3. Code(o, q, 0) = o /\ Code(o, q, 1) = c /\ Code(s, t, 0) = s
  BY <1>2 DEF Code
<1>4. \A j \in 2 .. Len(q) : Code(s, t, j - 1) = Code(o, q, j)
  BY <1>2 DEF Code
<1>5. ASSUME NEW w \in Spots(o, q)
      PROVE  /\ w[1] \in {0, 1} \cup 2 .. Len(q) /\ w[2] \in Nat /\ w = << w[1], w[2] >>
             /\ w[2] \in DOMAIN Code(o, q, w[1])
  BY <1>2 DEF Spots
<1>6. ASSUME NEW w \in Spots(o, q)
      PROVE  f[w] \in Spots(s, t) /\ InsAt(s, t, f[w]) = InsAt(o, q, w)
  <2>1. CASE w[1] = 0
    <3>1. f[w] = << 0, w[2] >> /\ w[2] \in 1 .. Len(o)
      BY <1>1, <1>3, <1>5, <2>1
    <3> QED
      BY <1>1, <1>2, <1>3, <2>1, <3>1 DEF Spots, InsAt
  <2>2. CASE w[1] = 1
    <3>1. f[w] = << 0, Len(o) + w[2] >> /\ w[2] \in 1 .. Len(c)
      BY <1>1, <1>3, <1>5, <2>2
    <3>2. Len(o) + w[2] \in 1 .. Len(o) + Len(c) /\ s[Len(o) + w[2]] = c[w[2]]
      BY <1>1, <3>1
    <3> QED
      BY <1>1, <1>2, <1>3, <2>2, <3>1, <3>2, SMTT(30) DEF Spots, InsAt
  <2>3. CASE w[1] \in 2 .. Len(q)
    <3>1. f[w] = << w[1] - 1, w[2] >> /\ w[1] - 1 \in 0 .. Len(t)
      BY <1>2, <2>3
    <3>2. Code(s, t, w[1] - 1) = Code(o, q, w[1])
      BY <1>4, <2>3
    <3> QED
      BY <1>5, <3>1, <3>2 DEF Spots, InsAt
  <2> QED
    BY <1>5, <2>1, <2>2, <2>3
<1>7. \A w, v \in Spots(o, q) : f[w] = f[v] => w = v
  <2> SUFFICES ASSUME NEW w \in Spots(o, q), NEW v \in Spots(o, q), f[w] = f[v]
               PROVE  w = v
    OBVIOUS
  <2>1. \A x \in Spots(o, q) :
          /\ x[1] = 0 => f[x][1] = 0 /\ f[x][2] \in 1 .. Len(o) /\ f[x][2] = x[2]
          /\ x[1] = 1 => f[x][1] = 0 /\ f[x][2] > Len(o) /\ f[x][2] = Len(o) + x[2]
          /\ x[1] \in 2 .. Len(q) => f[x][1] = x[1] - 1 /\ f[x][2] = x[2]
    <3> SUFFICES ASSUME NEW x \in Spots(o, q)
                 PROVE  /\ x[1] = 0 => f[x][1] = 0 /\ f[x][2] \in 1 .. Len(o) /\ f[x][2] = x[2]
                        /\ x[1] = 1 => f[x][1] = 0 /\ f[x][2] > Len(o) /\ f[x][2] = Len(o) + x[2]
                        /\ x[1] \in 2 .. Len(q) => f[x][1] = x[1] - 1 /\ f[x][2] = x[2]
      OBVIOUS
    <3>1. CASE x[1] = 0
      BY <1>1, <1>3, <1>5, <3>1
    <3>2. CASE x[1] = 1
      <4>1. x[2] \in 1 .. Len(c) /\ f[x] = << 0, Len(o) + x[2] >>
        BY <1>1, <1>3, <1>5, <3>2, SMTT(30)
      <4> QED
        BY <1>1, <3>2, <4>1
    <3>3. CASE x[1] \in 2 .. Len(q)
      <4>1. f[x] = << x[1] - 1, x[2] >>
        BY <1>2, <3>3
      <4> QED
        BY <1>2, <3>3, <4>1
    <3> QED
      BY <1>5, <3>1, <3>2, <3>3
  <2> HIDE DEF f
  <2>2. /\ \A a, b \in Nat : Len(o) + a = Len(o) + b => a = b
        /\ \A a, b \in 2 .. Len(q) : a - 1 = b - 1 => a = b
        /\ \A a \in 2 .. Len(q) : a - 1 # 0
        /\ \A a \in 1 .. Len(o) : ~(a > Len(o))
    BY <1>1, <1>2
  <2>3. CASE w[1] = 0
    <3>1. v[1] = 0
      BY <1>5, <2>1, <2>2, <2>3
    <3> QED
      BY <1>5, <2>1, <2>3, <3>1
  <2>4. CASE w[1] = 1
    <3>1. v[1] = 1
      BY <1>5, <2>1, <2>2, <2>4
    <3> QED
      BY <1>5, <2>1, <2>2, <2>4, <3>1
  <2>5. CASE w[1] \in 2 .. Len(q)
    <3>1. v[1] \in 2 .. Len(q)
      BY <1>5, <2>1, <2>2, <2>5
    <3>a. f[w][1] = w[1] - 1 /\ f[w][2] = w[2] /\ f[v][1] = v[1] - 1 /\ f[v][2] = v[2]
      BY <2>1, <2>5, <3>1, Zenon
    <3>2. w[1] = v[1] /\ w[2] = v[2]
      <4>1. w[1] - 1 = v[1] - 1 /\ w[2] = v[2]
        BY <3>a, Zenon
      <4> QED
        BY <2>2, <2>5, <3>1, <4>1, Zenon
    <3> QED
      BY <1>5, <3>2
  <2> QED
    BY <1>5, <2>3, <2>4, <2>5
<1>8. ASSUME NEW v \in Spots(s, t) PROVE \E w \in Spots(o, q) : v = f[w]
  <2>0. v[1] \in 0 .. Len(t) /\ v[2] \in Nat /\ v = << v[1], v[2] >> /\ v[2] \in DOMAIN Code(s, t, v[1])
    BY DEF Spots
  <2>1. CASE v[1] = 0 /\ v[2] \in 1 .. Len(o)
    <3>1. v \in Spots(o, q)
      BY <1>1, <1>2, <1>3, <2>0, <2>1 DEF Spots
    <3> QED
      BY <2>1, <3>1
  <2>2. CASE v[1] = 0 /\ v[2] \notin 1 .. Len(o)
    <3>1. v[2] \in Len(o) + 1 .. Len(o) + Len(c)
      BY <1>1, <1>3, <2>0, <2>2
    <3>2. PICK a \in 1 .. Len(c) : v[2] = Len(o) + a
      <4>1. \A k \in Len(o) + 1 .. Len(o) + Len(c) :
              k - Len(o) \in 1 .. Len(c) /\ k = Len(o) + (k - Len(o))
        BY <1>1
      <4> QED
        BY <3>1, <4>1
    <3>3. << 1, a >> \in Spots(o, q)
      BY <1>1, <1>2, <1>3, <3>2, SMTT(30) DEF Spots
    <3>4. f[<< 1, a >>] = << 0, Len(o) + a >>
      BY <3>3
    <3> QED
      BY <2>0, <2>2, <3>2, <3>3, <3>4
  <2>3. CASE v[1] # 0
    <3>1. v[1] \in 1 .. Len(q) - 1
      BY <1>2, <2>0, <2>3
    <3>2. PICK j \in 2 .. Len(q) : v[1] = j - 1
      <4>1. \A k \in 1 .. Len(q) - 1 : k + 1 \in 2 .. Len(q) /\ k = (k + 1) - 1
        BY <1>2
      <4> QED
        BY <3>1, <4>1
    <3>3. << j, v[2] >> \in Spots(o, q)
      BY <1>2, <1>4, <2>0, <3>2 DEF Spots
    <3>4. f[<< j, v[2] >>] = << j - 1, v[2] >>
      BY <3>2, <3>3
    <3> QED
      BY <2>0, <3>2, <3>3, <3>4
  <2> QED
    BY <2>0, <2>1, <2>2, <2>3
<1>9. LabelsOk(s, t, 0, m)
  <2>1. f \in [Spots(o, q) -> Spots(s, t)]
    BY <1>6
  <2> HIDE DEF f
  <2>2. Moves(o, q, s, t, f, {})
    BY <1>6, <1>7, <1>8, <2>1 DEF Moves
  <2>3. ASSUME NEW i \in 1 .. Len(t), t[i].do = "branch" PROVE Defined(o, q, t[i].label)
    <3>1. \A k \in 1 .. Len(q) - 1 : k + 1 \in 2 .. Len(q) /\ (k + 1) - 1 = k /\ k + 1 \in 1 .. Len(q)
      BY <1>2
    <3>2. i \in 1 .. Len(q) - 1
      BY <1>2
    <3>3. t[i] = q[i + 1] /\ i + 1 \in 1 .. Len(q)
      BY <1>2, <3>1, <3>2
    <3> QED
      BY <2>3, <3>3 DEF LabelsOk, JumpsDefined
  <2>4. NewCode(o, q, s, t, {}, m, m)
    BY <2>3 DEF NewCode
  <2> QED
    BY <2>2, <2>4, CodeMoves
<1> QED
  BY <1>9 DEF s, t, c

(* Instructions that are no label and jump nowhere.                        *)
Straight(i) == i.op \notin {"label", "cmz", "jump"}

LEMMA NoLabels ==
  ASSUME NEW p, NEW m,
         \A i \in 1 .. Len(p) :
           /\ p[i].do # "branch"
           /\ p[i].do = "emit" => \A a \in DOMAIN p[i].code : Straight(p[i].code[a])
  PROVE  LabelsOk(<< >>, p, m, m)
<1>1. ASSUME NEW w \in Spots(<< >>, p) PROVE Straight(InsAt(<< >>, p, w))
  <2>1. DOMAIN << >> = {}
    OBVIOUS
  <2>2. w[1] \in 0 .. Len(p) /\ w[2] \in DOMAIN Code(<< >>, p, w[1])
    BY DEF Spots
  <2>3. w[1] # 0 /\ p[w[1]].do = "emit"
    BY <2>1, <2>2 DEF Code
  <2> QED
    BY <2>2, <2>3 DEF Code, InsAt
<1> QED
  BY <1>1 DEF LabelsOk, LabelsUnique, LabelsFrom, JumpsDefined, Straight

-----------------------------------------------------------------------------
(***************************************************************************)
(* The labels' invariant: those of the code written and to be written are  *)
(* different, numbered below the counter, and every jump's is among them.  *)
(***************************************************************************)
JumpInv ==
  /\ labels \in Nat
  /\ LabelsOk(out, todo, 0, labels)
  /\ status = "run" => todo = << >>

LEMMA Sequences ==
  ASSUME IInv
  PROVE  /\ IsSeq(out) /\ IsSeq(todo)
         /\ todo # << >> /\ Task.do = "emit" => IsSeq(Task.code)
<1>1. \A c : SafeCode(c) => IsSeq(c)
  BY DEF SafeCode, IsSeq
<1>2. TodoOk(todo) => IsSeq(todo)
  BY DEF TodoOk, IsSeq
<1> QED
  BY <1>1, <1>2, TaskFacts DEF IInv, OkTask

(* A step that writes code and is done with its task.                      *)
LEMMA WritesCode ==
  ASSUME IInv, JumpInv, todo # << >>, Task.do # "emit",
         NEW c, IsSeq(c), out' = out \o c, Then(<< >>), labels' = labels,
         status = "compile", status' = status,
         \A a \in 1 .. Len(c) :
           Straight(c[a]) \/ (c[a].op # "label" /\ Defined(out, todo, c[a].label))
  PROVE  JumpInv'
<1> DEFINE none == << >>
<1>1. LabelsOk(<< >>, none, labels, labels)
  BY NoLabels
<1>2. \A a \in 1 .. Len(c) :
        /\ c[a].op # "label"
        /\ c[a].op \in {"cmz", "jump"} => Defined(out, todo, c[a].label)
  BY DEF Straight
<1>3. /\ IsSeq(out) /\ IsSeq(todo) /\ IsSeq(none) /\ Head(todo).do # "emit"
      /\ labels \in Nat /\ labels <= labels /\ LabelsOk(out, todo, 0, labels)
  <2>1. IsSeq(none)
    BY DEF IsSeq
  <2>2. labels \in Nat /\ labels <= labels
    BY DEF JumpInv
  <2> QED
    BY <2>1, <2>2, Sequences DEF JumpInv, Task
<1> HIDE DEF none
<1>4. LabelsOk(out \o c, none \o Tail(todo), 0, labels)
  BY <1>1, <1>2, <1>3, TaskReplaced
<1> QED
  BY <1>4 DEF JumpInv, Then, none

(* A step that replaces its task by the tasks p.                           *)
LEMMA PlansTasks ==
  ASSUME IInv, JumpInv, todo # << >>, Task.do # "emit", status = "compile",
         NEW p, IsSeq(p), Plan(p), labels' \in Nat, labels <= labels',
         LabelsOk(<< >>, p, labels, labels')
  PROVE  JumpInv'
<1> DEFINE none == << >>
<1>1. out \o none = out
  BY Sequences DEF IsSeq
<1>2. \A a \in 1 .. Len(none) : FALSE
  OBVIOUS
<1>3. /\ IsSeq(out) /\ IsSeq(todo) /\ IsSeq(none) /\ Head(todo).do # "emit"
      /\ labels \in Nat /\ LabelsOk(out, todo, 0, labels)
  <2>1. IsSeq(none)
    BY DEF IsSeq
  <2> QED
    BY <2>1, Sequences DEF JumpInv, Task
<1> HIDE DEF none
<1>4. ASSUME NEW n \in Nat, labels <= n, LabelsOk(<< >>, p, labels, n)
      PROVE  LabelsOk(out \o none, p \o Tail(todo), 0, n)
  <2>1. \A a \in 1 .. Len(none) :
          /\ none[a].op # "label"
          /\ none[a].op \in {"cmz", "jump"} => Defined(out, todo, none[a].label)
    BY <1>2
  <2> QED
    BY <1>3, <1>4, <2>1, TaskReplaced, Zenon
<1>5. LabelsOk(out \o none, p \o Tail(todo), 0, labels')
  BY <1>4
<1> QED
  BY <1>1, <1>5 DEF JumpInv, Then, Plan

-----------------------------------------------------------------------------
(***************************************************************************)
(* Steps that write code for expressions: no labels and no jumps.          *)
(***************************************************************************)
StraightCode(c) == \E S : c \in Seq(S) /\ \A i \in S : Straight(i)

LEMMA StraightShort ==
  ASSUME NEW i, NEW j, NEW k, Straight(i), Straight(j), Straight(k)
  PROVE  StraightCode(<<i>>) /\ StraightCode(<<i, j>>) /\ StraightCode(<<i, j, k>>)
<1> DEFINE S == {i, j, k}
<1>1. <<i>> \in Seq(S) /\ <<i, j>> \in Seq(S) /\ <<i, j, k>> \in Seq(S)
  OBVIOUS
<1>2. \A x \in S : Straight(x)
  OBVIOUS
<1> HIDE DEF S
<1>3. ASSUME NEW c \in Seq(S) PROVE StraightCode(c)
  BY <1>2 DEF StraightCode
<1> QED
  BY <1>1, <1>3

LEMMA NoCode == StraightCode(<< >>) /\ \A c : IsSeq(c) => c \o << >> = c
<1>2. ASSUME NEW c, IsSeq(c) PROVE c \o << >> = c
  BY <1>2 DEF IsSeq
<1> DEFINE none == << >>
<1>3. none \in Seq({}) /\ \A i \in {} : Straight(i)
  OBVIOUS
<1> HIDE DEF none
<1>4. StraightCode(none)
  BY <1>3 DEF StraightCode
<1> QED
  BY <1>2, <1>4 DEF none

LEMMA StraightIns ==
  ASSUME NEW r, NEW s, NEW t, NEW n
  PROVE  /\ Straight(SetTo(r, n)) /\ Straight(Move(r, s)) /\ Straight(LoadQ(r, s))
         /\ Straight(StoreQ(r, s)) /\ Straight(CallPrint) /\ Straight(Nop)
         /\ \A op : op \notin {"label", "cmz", "jump"} => Straight(Compute(op, r, s, t))
BY DEF Straight, SetTo, Move, LoadQ, StoreQ, Compute, CallPrint, Nop, Ins

LEMMA StraightJoin ==
  ASSUME NEW c, NEW d, NEW e, StraightCode(c), StraightCode(d), IsSeq(e)
  PROVE  StraightCode(c \o d) /\ (e \o c) \o d = e \o (c \o d)
<1>1. PICK S : c \in Seq(S) /\ \A i \in S : Straight(i)
  BY DEF StraightCode
<1>2. PICK T : d \in Seq(T) /\ \A i \in T : Straight(i)
  BY DEF StraightCode
<1>3. PICK U : e \in Seq(U)
  BY DEF IsSeq
<1>4. c \o d \in Seq(S \cup T)
  BY <1>1, <1>2, SeqJoin
<1> DEFINE V == S \cup T \cup U
<1>5. c \in Seq(V) /\ d \in Seq(V) /\ e \in Seq(V)
  <2>1. ASSUME NEW x, NEW W, x \in Seq(W), W \subseteq V PROVE x \in Seq(V)
    BY <2>1
  <2> QED
    BY <1>1, <1>2, <1>3, <2>1
<1> HIDE DEF V
<1>6. (e \o c) \o d = e \o (c \o d)
  BY <1>5, ConcatAssociative
<1> QED
  BY <1>1, <1>2, <1>4, <1>6 DEF StraightCode

LEMMA WritesStraight ==
  ASSUME IInv, JumpInv, todo # << >>, Task.do # "emit",
         NEW c, StraightCode(c), out' = out \o c, Then(<< >>), labels' = labels,
         status = "compile", status' = status
  PROVE  JumpInv'
<1>1. PICK S : c \in Seq(S) /\ \A i \in S : Straight(i)
  BY DEF StraightCode
<1>2. IsSeq(c) /\ \A a \in 1 .. Len(c) : Straight(c[a])
  BY <1>1 DEF IsSeq
<1> QED
  BY <1>2, WritesCode

LEMMA OneMore ==
  ASSUME IInv, NEW i PROVE Append(out, i) = out \o <<i>>
BY Sequences DEF IsSeq

LEMMA FillJumps ==
  ASSUME IInv, JumpInv, todo # << >>, Task.do # "emit", status = "compile",
         NEW tag \in Tag \ {NoTag},
         NEW code, \A r \in Reg : StraightCode(code[r]), Fill(tag, code)
  PROVE  JumpInv'
<1>1. PICK g \in (IF Task.root THEN Given(map) ELSE GetRegConst(map, tag)) :
        /\ out' = out \/ out' = out \o code[g.reg]
        /\ Then(<< >>) /\ labels' = labels /\ status' = status
  BY DEF Fill
<1>2. g.reg \in Reg
  <2>1. CASE Task.root
    BY <1>1, <2>1, RegFacts DEF Given
  <2>2. CASE ~Task.root
    BY <1>1, <2>2, GetRegConstGood DEF Took, IInv
  <2> QED
    BY <2>1, <2>2
<1>3. CASE out' = out \o code[g.reg]
  BY <1>1, <1>2, <1>3, WritesStraight
<1>4. CASE out' = out
  <2> DEFINE none == << >>
  <2>1. StraightCode(none)
    BY NoCode
  <2>2. out' = out \o none
    BY <1>4, Sequences, NoCode
  <2> HIDE DEF none
  <2> QED
    BY <1>1, <2>1, <2>2, WritesStraight
<1> QED
  BY <1>1, <1>3, <1>4

LEMMA LeafJumps ==
  ASSUME IInv, JumpInv, ProduceConst \/ ProduceVar \/ ProducePrev
  PROVE  JumpInv'
<1>1. CASE ProduceConst
  <2>1. todo # << >> /\ Task.do = "produce" /\ status = "compile"
    BY <1>1 DEF ProduceConst, Producing, At
  <2>2. ConstTag(Task.node.num) \in Tag \ {NoTag}
    BY <2>1, NodeOf, TagsOf
  <2> DEFINE code == [r \in Reg |-> <<SetTo(r, Task.node.num)>>]
  <2>3. ASSUME NEW r \in Reg PROVE StraightCode(code[r])
    <3> DEFINE i == SetTo(r, Task.node.num)
    <3>1. Straight(i)
      BY StraightIns
    <3>2. code[r] = <<i>>
      OBVIOUS
    <3> HIDE DEF i, code
    <3> QED
      BY <3>1, <3>2, StraightShort
  <2>4. Fill(ConstTag(Task.node.num), code)
    BY <1>1 DEF ProduceConst
  <2> HIDE DEF code
  <2> QED
    BY <2>1, <2>2, <2>3, <2>4, FillJumps
<1>2. CASE ProduceVar
  <2>1. todo # << >> /\ Task.do = "produce" /\ status = "compile" /\ Task.node.kind = "var"
    BY <1>2 DEF ProduceVar, Producing, At
  <2>2. VarTag(Task.node.var) \in Tag \ {NoTag}
    BY <2>1, NodeOf, TagsOf
  <2> DEFINE code == [r \in Reg |-> <<SetTo(r, Addr[Task.node.var]), LoadQ(r, r)>>]
  <2>3. ASSUME NEW r \in Reg PROVE StraightCode(code[r])
    <3> DEFINE i == SetTo(r, Addr[Task.node.var])
               j == LoadQ(r, r)
    <3>1. Straight(i) /\ Straight(j)
      BY StraightIns
    <3>2. code[r] = <<i, j>>
      OBVIOUS
    <3> HIDE DEF i, j, code
    <3> QED
      BY <3>1, <3>2, StraightShort
  <2>4. Fill(VarTag(Task.node.var), code)
    BY <1>2 DEF ProduceVar
  <2> HIDE DEF code
  <2> QED
    BY <2>1, <2>2, <2>3, <2>4, FillJumps
<1>3. CASE ProducePrev
  <2> DEFINE none == << >>
  <2>1. /\ todo # << >> /\ Task.do # "emit" /\ status = "compile" /\ Then(<< >>)
        /\ labels' = labels /\ status' = status /\ out' = out
    BY <1>3 DEF ProducePrev, Producing, At
  <2>2. StraightCode(none)
    BY NoCode
  <2>3. out' = out \o none
    BY <2>1, Sequences, NoCode
  <2> HIDE DEF none
  <2> QED
    BY <2>1, <2>2, <2>3, WritesStraight
<1> QED
  BY <1>1, <1>2, <1>3

LEMMA ResultJumps ==
  ASSUME IInv, JumpInv, FinishBinop \/ FinishUnop \/ FinishSet \/ FinishPrint
  PROVE  JumpInv'
<1>1. /\ todo # << >> /\ Task.do # "emit" /\ status = "compile" /\ Then(<< >>)
      /\ labels' = labels /\ status' = status
  BY DEF FinishBinop, FinishUnop, FinishSet, FinishingSet, FinishPrint, Finishing, At
<1>2. CASE FinishBinop \/ FinishUnop
  <2>1. PICK r, s, t : out' = Append(out, Compute(Task.node.op, r, s, t))
    BY <1>2 DEF FinishBinop, FinishUnop
  <2>2. Task.node.op \notin {"label", "cmz", "jump"}
    BY <1>2 DEF FinishBinop, FinishUnop, Computed
  <2> DEFINE i == Compute(Task.node.op, r, s, t)
  <2>3. Straight(i)
    BY <2>2, StraightIns
  <2> HIDE DEF i
  <2>4. StraightCode(<<i>>) /\ out' = out \o <<i>>
    BY <2>1, <2>3, OneMore, StraightShort DEF i
  <2> QED
    BY <1>1, <2>4, WritesStraight
<1>3. CASE FinishSet
  <2>1. PICK r, s, n : out' = out \o <<SetTo(r, n), StoreQ(r, s), Move(r, s)>>
    BY <1>3 DEF FinishSet
  <2> DEFINE i == SetTo(r, n)
             j == StoreQ(r, s)
             k == Move(r, s)
             c == <<i, j, k>>
  <2>2. StraightCode(c)
    <3>1. Straight(i) /\ Straight(j) /\ Straight(k)
      BY StraightIns
    <3> HIDE DEF i, j, k
    <3> QED
      BY <3>1, StraightShort
  <2> HIDE DEF c
  <2> QED
    BY <1>1, <2>1, <2>2, WritesStraight DEF c
<1>4. CASE FinishPrint
  <2> DEFINE r == Head(vals)
             move == IF r = RA THEN << >> ELSE <<Move(RA, r)>>
             call == <<CallPrint>>
  <2>1. out' = (out \o move) \o call
    BY <1>4 DEF FinishPrint
  <2>2. StraightCode(move) /\ StraightCode(call)
    <3> DEFINE i == Move(RA, r)
    <3>1. Straight(i) /\ Straight(CallPrint)
      BY StraightIns
    <3>2. move \in {<< >>, <<i>>}
      OBVIOUS
    <3> HIDE DEF i, r, move
    <3>3. StraightCode(<<i>>) /\ StraightCode(call)
      BY <3>1, StraightShort
    <3> QED
      BY <3>2, <3>3, NoCode
  <2> HIDE DEF move, call
  <2>3. StraightCode(move \o call) /\ out' = out \o (move \o call)
    BY <2>1, <2>2, StraightJoin, Sequences
  <2> QED
    BY <1>1, <2>3, WritesStraight
<1> QED
  BY <1>2, <1>3, <1>4

-----------------------------------------------------------------------------
(***************************************************************************)
(* Steps that write labels and jumps.                                      *)
(***************************************************************************)
(* A cmz jumps to the label its task names, which is still to be written.  *)
LEMMA TestJumps == ASSUME IInv, JumpInv, Test PROVE JumpInv'
<1> DEFINE i == IfZero(Head(vals), Task.label)
<1>1. /\ todo # << >> /\ Task.do = "branch" /\ status = "compile" /\ Then(<< >>)
      /\ labels' = labels /\ status' = status /\ out' = Append(out, i)
  BY DEF Test, At
<1>2. i.op = "cmz" /\ i.label = Task.label
  BY DEF IfZero, Ins
<1>3. Defined(out, todo, Task.label)
  <2>1. 1 \in 1 .. Len(todo) /\ Head(todo) = todo[1]
    <3>1. PICK S : todo \in Seq(S)
      BY Sequences DEF IsSeq
    <3> QED
      BY <1>1, <3>1
  <2> QED
    BY <1>1, <2>1 DEF JumpInv, LabelsOk, JumpsDefined, Task
<1> HIDE DEF i
<1> DEFINE c == <<i>>
<1>4. IsSeq(c) /\ \A a \in 1 .. Len(c) : c[a] = i
  <2>1. c \in Seq({i})
    OBVIOUS
  <2> HIDE DEF c
  <2> QED
    BY <2>1 DEF IsSeq
<1>5. out' = out \o c
  BY <1>1, OneMore
<1> HIDE DEF c
<1>6. \A a \in 1 .. Len(c) :
        Straight(c[a]) \/ (c[a].op # "label" /\ Defined(out, todo, c[a].label))
  BY <1>2, <1>3, <1>4
<1> QED
  BY <1>1, <1>4, <1>5, <1>6, WritesCode

LEMMA WriteJumps == ASSUME IInv, JumpInv, Write PROVE JumpInv'
<1>1. /\ todo # << >> /\ Task.do = "emit" /\ status = "compile"
      /\ todo' = << >> \o Tail(todo) /\ out' = out \o Task.code
      /\ labels' = labels /\ status' = status
  BY DEF Write, At, Then
<1>2. << >> \o Tail(todo) = Tail(todo)
  <2>1. PICK S : todo \in Seq(S)
    BY Sequences DEF IsSeq
  <2>2. Tail(todo) \in Seq(S)
    BY <1>1, <2>1
  <2> QED
    BY <2>2
<1>3. LabelsOk(out \o Task.code, Tail(todo), 0, labels)
  BY <1>1, Sequences, CodeWritten DEF JumpInv, Task
<1> QED
  BY <1>1, <1>2, <1>3 DEF JumpInv

(* The tasks of an expression or a block have no labels.                   *)
Quiet(t) == t.do \in {"produce", "finish"} \/ t = Emit(<<Nop>>)

QuietTodo(p) == \E T : p \in Seq(T) /\ \A t \in T : Quiet(t)

LEMMA QuietShort ==
  ASSUME NEW a, NEW b, NEW c, Quiet(a), Quiet(b), Quiet(c)
  PROVE  QuietTodo(<<a>>) /\ QuietTodo(<<a, b>>) /\ QuietTodo(<<a, b, c>>)
<1> DEFINE T == {a, b, c}
<1>1. <<a>> \in Seq(T) /\ <<a, b>> \in Seq(T) /\ <<a, b, c>> \in Seq(T)
  OBVIOUS
<1>2. \A t \in T : Quiet(t)
  OBVIOUS
<1> HIDE DEF T
<1>3. ASSUME NEW p \in Seq(T) PROVE QuietTodo(p)
  BY <1>2 DEF QuietTodo
<1> QED
  BY <1>1, <1>3

LEMMA QuietPlan ==
  ASSUME IInv, JumpInv, todo # << >>, Task.do # "emit", status = "compile",
         NEW p, QuietTodo(p), Plan(p), labels' = labels
  PROVE  JumpInv'
<1>1. PICK T : p \in Seq(T) /\ \A t \in T : Quiet(t)
  BY DEF QuietTodo
<1>2. /\ Emit(<<Nop>>).do = "emit"
      /\ \A a \in DOMAIN Emit(<<Nop>>).code : Straight(Emit(<<Nop>>).code[a])
  BY DEF Emit, Nop, Ins, Straight
<1>3. IsSeq(p) /\ \A i \in 1 .. Len(p) : Quiet(p[i])
  BY <1>1 DEF IsSeq
<1>4. LabelsOk(<< >>, p, labels, labels)
  BY <1>2, <1>3, NoLabels DEF Quiet
<1>5. labels \in Nat /\ labels <= labels
  BY DEF JumpInv
<1> QED
  BY <1>3, <1>4, <1>5, PlansTasks

LEMMA QuietJumps ==
  ASSUME IInv, JumpInv,
         ProduceBinop \/ ProduceUnop \/ ProduceSet \/ ProducePrint \/ ProduceBlock \/ ProduceNull
  PROVE  JumpInv'
<1>1. /\ todo # << >> /\ Task.do # "emit" /\ Task.do = "produce" /\ status = "compile"
      /\ labels' = labels
  BY DEF ProduceBinop, ProduceUnop, ProduceSet, ProducePrint, ProduceBlock, ProduceNull,
         Producing, At
<1>2. /\ \A x, y : Quiet(Produce(x, y)) /\ Quiet(Finish(x, y))
      /\ Quiet(Emit(<<Nop>>))
  BY DEF Produce, Finish, Quiet
<1>3. CASE ProduceBinop
  <2>1. PICK i, j : Plan(<<Produce(Kid(i), FALSE), Produce(Kid(j), FALSE),
                           Finish(Task.node, Task.root)>>)
    BY <1>3 DEF ProduceBinop
  <2> DEFINE a == Produce(Kid(i), FALSE)
             b == Produce(Kid(j), FALSE)
             c == Finish(Task.node, Task.root)
  <2>2. Quiet(a) /\ Quiet(b) /\ Quiet(c) /\ Plan(<<a, b, c>>)
    BY <1>2, <2>1
  <2> HIDE DEF a, b, c
  <2> QED
    BY <1>1, <2>2, QuietShort, QuietPlan
<1>4. CASE ProduceUnop \/ ProduceSet \/ ProducePrint
  <2>1. PICK i, r : Plan(<<Produce(Kid(i), FALSE), Finish(Task.node, r)>>)
    BY <1>4 DEF ProduceUnop, ProduceSet, ProducePrint
  <2> DEFINE a == Produce(Kid(i), FALSE)
             b == Finish(Task.node, r)
  <2>2. Quiet(a) /\ Quiet(b) /\ Plan(<<a, b>>)
    BY <1>2, <2>1
  <2> HIDE DEF a, b
  <2> QED
    BY <1>1, <2>2, QuietShort, QuietPlan
<1>5. CASE Plan(<<Emit(<<Nop>>)>>)
  <2> DEFINE a == Emit(<<Nop>>)
  <2>1. Quiet(a) /\ Plan(<<a>>)
    BY <1>2, <1>5
  <2> HIDE DEF a
  <2> QED
    BY <1>1, <2>1, QuietShort, QuietPlan
<1>6. CASE Plan([i \in DOMAIN Task.node.kids |-> Produce(Kid(i), FALSE)])
  <2> DEFINE n == Len(Task.node.kids)
             k(i) == Produce(Kid(i), FALSE)
             T == {k(i) : i \in 1 .. n}
             p == [i \in 1 .. n |-> k(i)]
  <2>1. DOMAIN Task.node.kids = 1 .. n /\ n \in Nat
    BY <1>1, NodeOf, TreeAssumption
  <2>2. \A t \in T : Quiet(t)
    BY <1>2
  <2>3. Plan(p)
    BY <1>6, <2>1
  <2> HIDE DEF k, n
  <2>4. p \in Seq(T)
    BY <2>1
  <2> HIDE DEF p, T
  <2>5. QuietTodo(p)
    BY <2>2, <2>4 DEF QuietTodo
  <2> QED
    BY <1>1, <2>3, <2>5, QuietPlan
<1>7. CASE ProduceBlock \/ ProduceNull
  BY <1>5, <1>6, <1>7 DEF ProduceBlock, ProduceNull
<1> QED
  BY <1>3, <1>4, <1>7

(* The tasks of an if: a label of its own number, and the test that jumps  *)
(* to it.  The other statements have two.                                  *)
LEMMA IfJumps == ASSUME IInv, JumpInv, ProduceIf PROVE JumpInv'
<1> DEFINE e == <<"if", labels>>
           end == Emit(<<Label(e), Nop>>)
           p == <<Produce(Kid(1), FALSE), Branch(e), Produce(Kid(2), FALSE), end>>
<1>1. /\ todo # << >> /\ Task.do # "emit" /\ status = "compile" /\ labels' = labels + 1
      /\ Plan(p) /\ labels \in Nat
  BY DEF ProduceIf, Producing, At, Counter, JumpInv
<1>2. /\ Len(p) = 4 /\ p[1].do = "produce" /\ p[3].do = "produce"
      /\ p[2].do = "branch" /\ p[2].label = e
      /\ p[4].do = "emit" /\ p[4].code = <<Label(e), Nop>>
  BY DEF Produce, Branch, Emit
<1>3. IsSeq(p)
  <2> DEFINE T == {p[1], p[2], p[3], p[4]}
  <2>1. p \in Seq(T)
    OBVIOUS
  <2> HIDE DEF p, T
  <2> QED
    BY <2>1 DEF IsSeq
<1> HIDE DEF p, end
<1>4. /\ \A w \in Spots(<< >>, p) : w \in {<<4, 1>>, <<4, 2>>}
      /\ <<4, 1>> \in Spots(<< >>, p)
      /\ InsAt(<< >>, p, <<4, 1>>) = Label(e) /\ InsAt(<< >>, p, <<4, 2>>) = Nop
  <2>1. /\ Code(<< >>, p, 0) = << >> /\ Code(<< >>, p, 1) = << >> /\ Code(<< >>, p, 2) = << >>
        /\ Code(<< >>, p, 3) = << >> /\ Code(<< >>, p, 4) = <<Label(e), Nop>>
    BY <1>2 DEF Code
  <2>2. ASSUME NEW w \in Spots(<< >>, p) PROVE w \in {<<4, 1>>, <<4, 2>>}
    <3>1. w[1] \in 0 .. 4 /\ w[2] \in DOMAIN Code(<< >>, p, w[1]) /\ w = <<w[1], w[2]>>
      BY <1>2 DEF Spots
    <3>2. w[1] = 4
      BY <2>1, <3>1
    <3> QED
      BY <2>1, <3>1, <3>2
  <2> QED
    BY <1>2, <2>1, <2>2 DEF Spots, InsAt
<1>5. Label(e).op = "label" /\ Label(e).label = e /\ Nop.op = "nop" /\ e[2] = labels
  BY DEF Label, Nop, Ins
<1>6. LabelsOk(<< >>, p, labels, labels + 1)
  <2>1. labels \in labels .. (labels + 1) - 1
    BY <1>1
  <2>2. LabelsUnique(<< >>, p) /\ LabelsFrom(<< >>, p, labels, labels + 1)
    BY <1>4, <1>5, <2>1 DEF LabelsUnique, LabelsFrom
  <2>3. Defined(<< >>, p, e)
    BY <1>4 DEF Defined
  <2>4. JumpsDefined(<< >>, p)
    <3>1. \A i \in 1 .. Len(p) : p[i].do = "branch" => i = 2
      BY <1>2
    <3> QED
      BY <1>2, <1>4, <1>5, <2>3, <3>1 DEF JumpsDefined
  <2> QED
    BY <2>2, <2>4 DEF LabelsOk
<1>7. labels + 1 \in Nat /\ labels <= labels + 1
  BY <1>1
<1> QED
  BY <1>1, <1>3, <1>6, <1>7, PlansTasks

LEMMA IfElseJumps == ASSUME IInv, JumpInv, ProduceIfElse PROVE JumpInv'
<1> DEFINE n == <<"if", labels>>
           e == <<"else", labels>>
           skip == Emit(<<Jump(e), Label(n)>>)
           end == Emit(<<Label(e), Nop>>)
           p == <<Produce(Kid(1), FALSE), Branch(n), Produce(Kid(2), FALSE), skip, Produce(Kid(3), FALSE), end>>
<1>1. /\ todo # << >> /\ Task.do # "emit" /\ status = "compile" /\ labels' = labels + 1
      /\ Plan(p) /\ labels \in Nat
  BY DEF ProduceIfElse, Producing, At, Counter, JumpInv
<1>2. /\ Len(p) = 6
      /\ p[1].do = "produce" /\ p[3].do = "produce" /\ p[5].do = "produce"
      /\ p[2].do = "branch" /\ p[2].label = n
      /\ p[4].do = "emit" /\ p[4].code = <<Jump(e), Label(n)>>
      /\ p[6].do = "emit" /\ p[6].code = <<Label(e), Nop>>
  BY DEF Produce, Branch, Emit
<1>3. IsSeq(p)
  <2> DEFINE T == {p[1], p[2], p[3], p[4], p[5], p[6]}
  <2>1. p \in Seq(T)
    OBVIOUS
  <2> HIDE DEF p, T
  <2> QED
    BY <2>1 DEF IsSeq
<1> HIDE DEF p, skip, end
<1>4. /\ \A w \in Spots(<< >>, p) : w \in {<<4, 1>>, <<4, 2>>, <<6, 1>>, <<6, 2>>}
      /\ {<<4, 1>>, <<4, 2>>, <<6, 1>>, <<6, 2>>} \subseteq Spots(<< >>, p)
      /\ InsAt(<< >>, p, <<4, 1>>) = Jump(e)
      /\ InsAt(<< >>, p, <<4, 2>>) = Label(n)
      /\ InsAt(<< >>, p, <<6, 1>>) = Label(e)
      /\ InsAt(<< >>, p, <<6, 2>>) = Nop
  <2>1. /\ Code(<< >>, p, 0) = << >>
        /\ Code(<< >>, p, 1) = << >>
        /\ Code(<< >>, p, 2) = << >>
        /\ Code(<< >>, p, 3) = << >>
        /\ Code(<< >>, p, 4) = <<Jump(e), Label(n)>>
        /\ Code(<< >>, p, 5) = << >>
        /\ Code(<< >>, p, 6) = <<Label(e), Nop>>
    BY <1>2 DEF Code
  <2>2. ASSUME NEW w \in Spots(<< >>, p) PROVE w \in {<<4, 1>>, <<4, 2>>, <<6, 1>>, <<6, 2>>}
    <3>1. w[1] \in 0 .. 6 /\ w[2] \in DOMAIN Code(<< >>, p, w[1]) /\ w = <<w[1], w[2]>>
      BY <1>2 DEF Spots
    <3>2. w[1] = 4 \/ w[1] = 6
      BY <2>1, <3>1
    <3> QED
      BY <2>1, <3>1, <3>2
  <2> QED
    BY <1>2, <2>1, <2>2 DEF Spots, InsAt
<1>5. /\ Nop.op = "nop"
      /\ Label(n).op = "label" /\ Label(n).label = n /\ n[2] = labels
      /\ Label(e).op = "label" /\ Label(e).label = e /\ e[2] = labels
      /\ Jump(e).op = "jump" /\ Jump(e).label = e
      /\ n # e
  BY DEF Label, Jump, Nop, Ins
<1> HIDE DEF n, e
<1>6. LabelsOk(<< >>, p, labels, labels + 1)
  <2>1. labels \in labels .. (labels + 1) - 1
    BY <1>1
  <2>2. LabelsUnique(<< >>, p) /\ LabelsFrom(<< >>, p, labels, labels + 1)
    BY <1>4, <1>5, <2>1 DEF LabelsUnique, LabelsFrom
  <2>3. Defined(<< >>, p, n) /\ Defined(<< >>, p, e)
    BY <1>4 DEF Defined
  <2>4. JumpsDefined(<< >>, p)
    <3>1. \A i \in 1 .. Len(p) : p[i].do = "branch" => i = 2
      BY <1>2
    <3> QED
      BY <1>2, <1>4, <1>5, <2>3, <3>1 DEF JumpsDefined
  <2> QED
    BY <2>2, <2>4 DEF LabelsOk
<1>7. labels + 1 \in Nat /\ labels <= labels + 1
  BY <1>1
<1> QED
  BY <1>1, <1>3, <1>6, <1>7, PlansTasks

LEMMA WhileJumps == ASSUME IInv, JumpInv, ProduceWhile PROVE JumpInv'
<1> DEFINE b == <<"while_start", labels>>
           e == <<"while_end", labels>>
           begin == Emit(<<Label(b)>>)
           end == Emit(<<Jump(b), Label(e), Nop>>)
           p == <<begin, Produce(Kid(1), FALSE), Branch(e), Produce(Kid(2), FALSE), end>>
<1>1. /\ todo # << >> /\ Task.do # "emit" /\ status = "compile" /\ labels' = labels + 1
      /\ Plan(p) /\ labels \in Nat
  BY DEF ProduceWhile, Producing, At, Counter, JumpInv
<1>2. /\ Len(p) = 5
      /\ p[2].do = "produce" /\ p[4].do = "produce"
      /\ p[3].do = "branch" /\ p[3].label = e
      /\ p[1].do = "emit" /\ p[1].code = <<Label(b)>>
      /\ p[5].do = "emit" /\ p[5].code = <<Jump(b), Label(e), Nop>>
  BY DEF Produce, Branch, Emit
<1>3. IsSeq(p)
  <2> DEFINE T == {p[1], p[2], p[3], p[4], p[5]}
  <2>1. p \in Seq(T)
    OBVIOUS
  <2> HIDE DEF p, T
  <2> QED
    BY <2>1 DEF IsSeq
<1> HIDE DEF p, begin, end
<1>4. /\ \A w \in Spots(<< >>, p) : w \in {<<1, 1>>, <<5, 1>>, <<5, 2>>, <<5, 3>>}
      /\ {<<1, 1>>, <<5, 1>>, <<5, 2>>, <<5, 3>>} \subseteq Spots(<< >>, p)
      /\ InsAt(<< >>, p, <<1, 1>>) = Label(b)
      /\ InsAt(<< >>, p, <<5, 1>>) = Jump(b)
      /\ InsAt(<< >>, p, <<5, 2>>) = Label(e)
      /\ InsAt(<< >>, p, <<5, 3>>) = Nop
  <2>1. /\ Code(<< >>, p, 0) = << >>
        /\ Code(<< >>, p, 1) = <<Label(b)>>
        /\ Code(<< >>, p, 2) = << >>
        /\ Code(<< >>, p, 3) = << >>
        /\ Code(<< >>, p, 4) = << >>
        /\ Code(<< >>, p, 5) = <<Jump(b), Label(e), Nop>>
    BY <1>2 DEF Code
  <2>2. ASSUME NEW w \in Spots(<< >>, p) PROVE w \in {<<1, 1>>, <<5, 1>>, <<5, 2>>, <<5, 3>>}
    <3>1. w[1] \in 0 .. 5 /\ w[2] \in DOMAIN Code(<< >>, p, w[1]) /\ w = <<w[1], w[2]>>
      BY <1>2 DEF Spots
    <3>2. w[1] = 1 \/ w[1] = 5
      BY <2>1, <3>1
    <3> QED
      BY <2>1, <3>1, <3>2
  <2> QED
    BY <1>2, <2>1, <2>2 DEF Spots, InsAt
<1>5. /\ Nop.op = "nop"
      /\ Label(b).op = "label" /\ Label(b).label = b /\ b[2] = labels
      /\ Label(e).op = "label" /\ Label(e).label = e /\ e[2] = labels
      /\ Jump(b).op = "jump" /\ Jump(b).label = b
      /\ b # e
  BY DEF Label, Jump, Nop, Ins
<1> HIDE DEF b, e
<1>6. LabelsOk(<< >>, p, labels, labels + 1)
  <2>1. labels \in labels .. (labels + 1) - 1
    BY <1>1
  <2>2. LabelsUnique(<< >>, p) /\ LabelsFrom(<< >>, p, labels, labels + 1)
    BY <1>4, <1>5, <2>1 DEF LabelsUnique, LabelsFrom
  <2>3. Defined(<< >>, p, b) /\ Defined(<< >>, p, e)
    BY <1>4 DEF Defined
  <2>4. JumpsDefined(<< >>, p)
    <3>1. \A i \in 1 .. Len(p) : p[i].do = "branch" => i = 3
      BY <1>2
    <3> QED
      BY <1>2, <1>4, <1>5, <2>3, <3>1 DEF JumpsDefined
  <2> QED
    BY <2>2, <2>4 DEF LabelsOk
<1>7. labels + 1 \in Nat /\ labels <= labels + 1
  BY <1>1
<1> QED
  BY <1>1, <1>3, <1>6, <1>7, PlansTasks

-----------------------------------------------------------------------------
LEMMA InitJumps == Init => JumpInv
<1> SUFFICES ASSUME Init PROVE JumpInv
  OBVIOUS
<1> DEFINE p == Produce(tree, TRUE)
<1>1. p.do = "produce"
  BY DEF Produce
<1>2. todo = <<p>> /\ out = << >> /\ labels = 0 /\ status = "compile"
  BY DEF Init
<1> HIDE DEF p
<1>3. \A i \in 1 .. Len(todo) : todo[i].do = "produce"
  BY <1>1, <1>2
<1>4. LabelsOk(<< >>, todo, 0, 0)
  BY <1>3, NoLabels
<1> QED
  BY <1>2, <1>4 DEF JumpInv

LEMMA NextJumps == IInv /\ JumpInv /\ [Next]_vars => JumpInv'
<1> SUFFICES ASSUME IInv, JumpInv, [Next]_vars PROVE JumpInv'
  OBVIOUS
<1>1. CASE ProduceConst \/ ProduceVar \/ ProducePrev
  BY <1>1, LeafJumps
<1>2. CASE FinishBinop \/ FinishUnop \/ FinishSet \/ FinishPrint
  BY <1>2, ResultJumps
<1>3. CASE ProduceBinop \/ ProduceUnop \/ ProduceSet \/ ProducePrint \/ ProduceBlock \/ ProduceNull
  BY <1>3, QuietJumps
<1>4. CASE ProduceIf
  BY <1>4, IfJumps
<1>5. CASE ProduceIfElse
  BY <1>5, IfElseJumps
<1>6. CASE ProduceWhile
  BY <1>6, WhileJumps
<1>7. CASE Test
  BY <1>7, TestJumps
<1>8. CASE Write
  BY <1>8, WriteJumps
<1>9. CASE Throw
  BY <1>9 DEF Throw, JumpInv
<1>10. CASE StartRun
  BY <1>10 DEF StartRun, JumpInv
<1>11. CASE Run \/ Stopped \/ UNCHANGED vars
  BY <1>11 DEF Run, Stopped, vars, JumpInv
<1> QED
  BY <1>1, <1>2, <1>3, <1>4, <1>5, <1>6, <1>7, <1>8, <1>9, <1>10, <1>11 DEF Next

(* In the code of every tree (produce_node of zif, zifelse and zwhile),    *)
(* however the statements are nested, a jump's label is defined, and only  *)
(* once.                                                                   *)
THEOREM EveryJumpLands == Spec => []JumpsLand
<1>1. IInv /\ JumpInv => JumpsLand
  <2> SUFFICES ASSUME IInv, JumpInv, status = "run",
                      NEW k \in DOMAIN out, out[k].op \in {"cmz", "jump"}
               PROVE  Cardinality({j \in DOMAIN out : out[j] = Label(out[k].label)}) = 1
    BY DEF JumpsLand
  <2> DEFINE l == out[k].label
  <2>1. todo = << >> /\ Len(todo) = 0 /\ DOMAIN out \subseteq Nat
    <3>1. PICK S : out \in Seq(S)
      BY Sequences DEF IsSeq
    <3> QED
      BY <3>1 DEF JumpInv
  <2>2. /\ \A j \in DOMAIN out : <<0, j>> \in Spots(out, todo) /\ InsAt(out, todo, <<0, j>>) = out[j]
        /\ \A w \in Spots(out, todo) : \E j \in DOMAIN out : w = <<0, j>>
    BY <2>1 DEF Spots, InsAt, Code
  <2>3. PICK j \in DOMAIN out : out[j] = Label(l)
    <3>1. Defined(out, todo, l)
      BY <2>2 DEF JumpInv, LabelsOk, JumpsDefined
    <3> QED
      BY <2>2, <3>1 DEF Defined
  <2>4. ASSUME NEW i \in DOMAIN out, out[i] = Label(l) PROVE i = j
    <3>1. Label(l).op = "label"
      BY DEF Label, Ins
    <3>2. <<0, i>> = <<0, j>>
      BY <2>2, <2>3, <2>4, <3>1 DEF JumpInv, LabelsOk, LabelsUnique
    <3> QED
      BY <3>2
  <2>5. {i \in DOMAIN out : out[i] = Label(l)} = {j}
    BY <2>3, <2>4
  <2> QED
    BY <2>5, FS_Singleton
<1>2. Init => JumpInv
  BY InitJumps
<1>3. IInv /\ JumpInv /\ [Next]_vars => JumpInv'
  BY NextJumps
<1> QED
  BY <1>1, <1>2, <1>3, IInvAlways, PTL DEF Spec
=============================================================================
